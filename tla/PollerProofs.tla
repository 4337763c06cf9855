----------------------------- MODULE PollerProofs -----------------------------
(***************************************************************************)
(* VerifyEvents tells the events of a registration that still is from all  *)
(* others, for any number of slots and objects and whatever the handlers   *)
(* do.                                                                     *)
(***************************************************************************)
EXTENDS Poller, TLAPS

(* An event whose registration is as it was is in epoll's list with its    *)
(* number; the number of any other event is behind the slot's.             *)
EventInv(e) ==
  /\ e.fate = "live" => \E r \in reg[e.of] : r.slot = e.slot /\ r.seq = e.seq
  /\ e.fate # "live" => e.seq < seq[e.slot]

BatchInv == \A i \in DOMAIN batch : EventInv(batch[i])

RunInv == run.pc # "idle" => batch # <<>>

Inv == TypeOK /\ SlotsOwned /\ Registered /\ BatchInv /\ RunInv

-----------------------------------------------------------------------------
(* Facts on the free list and on the batch as sequences.                   *)

LEMMA Push ==
  ASSUME NEW S, NEW q \in Seq(S), NEW s \in S
  PROVE  /\ <<s>> \o q \in Seq(S)
         /\ Range(<<s>> \o q) = Range(q) \cup {s}
         /\ IsInjective(q) /\ s \notin Range(q) => IsInjective(<<s>> \o q)
<1> DEFINE r == <<s>> \o q
<1>1. r \in Seq(S) /\ Len(r) = Len(q) + 1
  OBVIOUS
<1>2. r[1] = s /\ \A i \in 1 .. Len(q) : r[i + 1] = q[i]
  OBVIOUS
<1>3. \A i \in 2 .. Len(r) : i - 1 \in 1 .. Len(q) /\ r[i] = q[i - 1]
  BY <1>1, <1>2
<1>4. Range(r) = Range(q) \cup {s}
  <2>1. Range(r) \subseteq Range(q) \cup {s}
    BY <1>1, <1>2, <1>3 DEF Range
  <2>2. s \in Range(r)
    <3>1. 1 \in DOMAIN r
      BY <1>1
    <3> QED BY <3>1, <1>2 DEF Range
  <2>3. Range(q) \subseteq Range(r)
    <3>1. \A i \in DOMAIN q : i + 1 \in DOMAIN r /\ r[i + 1] = q[i]
      BY <1>1, <1>2
    <3> QED BY <3>1 DEF Range
  <2> QED BY <2>1, <2>2, <2>3
<1>5. IsInjective(q) /\ s \notin Range(q) => IsInjective(r)
  <2> SUFFICES ASSUME IsInjective(q), s \notin Range(q),
                      NEW i \in DOMAIN r, NEW j \in DOMAIN r, r[i] = r[j]
               PROVE  i = j
    BY DEF IsInjective
  <2>1. CASE i = 1 /\ j # 1
    BY <1>1, <1>2, <1>3, <2>1 DEF Range
  <2>2. CASE j = 1 /\ i # 1
    BY <1>1, <1>2, <1>3, <2>2 DEF Range
  <2>3. CASE i # 1 /\ j # 1
    BY <1>1, <1>3, <2>3 DEF IsInjective
  <2> QED BY <2>1, <2>2, <2>3
<1> QED BY <1>1, <1>4, <1>5

LEMMA TakeFirst ==
  ASSUME NEW S, NEW q \in Seq(S), q # <<>>, IsInjective(q)
  PROVE  /\ Head(q) \in S /\ Tail(q) \in Seq(S)
         /\ Range(Tail(q)) = Range(q) \ {Head(q)}
         /\ IsInjective(Tail(q))
<1>1. Head(q) = q[1] /\ Tail(q) \in Seq(S) /\ Len(Tail(q)) = Len(q) - 1 /\ Len(q) >= 1
  OBVIOUS
<1>2. \A i \in 1 .. Len(q) - 1 : Tail(q)[i] = q[i + 1]
  OBVIOUS
<1>3. Head(q) \in S
  BY <1>1
<1>4. \A i \in 2 .. Len(q) : i - 1 \in 1 .. Len(q) - 1 /\ q[i] = Tail(q)[i - 1] /\ q[i] # q[1]
  BY <1>1, <1>2 DEF IsInjective
<1>5. Range(Tail(q)) = Range(q) \ {Head(q)}
  <2>1. Range(Tail(q)) \subseteq Range(q) \ {Head(q)}
    BY <1>1, <1>2, <1>4 DEF Range
  <2>2. Range(q) \ {Head(q)} \subseteq Range(Tail(q))
    <3> SUFFICES ASSUME NEW i \in DOMAIN q, q[i] # q[1] PROVE q[i] \in Range(Tail(q))
      BY <1>1 DEF Range
    <3>1. i \in 2 .. Len(q)
      BY <1>1
    <3>2. i - 1 \in DOMAIN Tail(q) /\ Tail(q)[i - 1] = q[i]
      BY <3>1, <1>1, <1>4
    <3> QED BY <3>2 DEF Range
  <2> QED BY <2>1, <2>2
<1>6. IsInjective(Tail(q))
  BY <1>1, <1>2 DEF IsInjective
<1> QED BY <1>1, <1>3, <1>5, <1>6

LEMMA ReportFields ==
  ASSUME TypeOK, NEW i \in DOMAIN batch
  PROVE  /\ batch[i].slot \in Slot /\ batch[i].seq \in Nat /\ batch[i].of \in Object
         /\ seq[batch[i].slot] \in Nat
<1>1. batch[i] \in Report
  BY DEF TypeOK
<1>2. batch[i].slot \in Slot /\ batch[i].seq \in Nat /\ batch[i].of \in Object
  BY <1>1 DEF Report
<1> QED BY <1>2 DEF TypeOK

(* The marks on a batch: the events of o are no longer live.               *)
LEMMA FateMarks ==
  ASSUME TypeOK, NEW o \in Object, NEW f \in {"changed", "gone"}
  PROVE  /\ Fate(o, f) \in Seq(Report) /\ Len(Fate(o, f)) = Len(batch)
         /\ \A i \in DOMAIN batch :
              /\ Fate(o, f)[i].slot = batch[i].slot
              /\ Fate(o, f)[i].seq = batch[i].seq
              /\ Fate(o, f)[i].of = batch[i].of
              /\ Fate(o, f)[i].fate = "live" <=> batch[i].fate = "live" /\ batch[i].of # o
<1> DEFINE m(i) == IF batch[i].of = o /\ batch[i].fate # "gone"
                   THEN [batch[i] EXCEPT !.fate = f] ELSE batch[i]
<1>1. batch \in Seq(Report) /\ DOMAIN batch = 1 .. Len(batch) /\ Len(batch) \in Nat
  BY DEF TypeOK
<1>2. \A i \in DOMAIN batch : batch[i] \in Report
  BY <1>1
<1>3. \A i \in DOMAIN batch :
        /\ m(i) \in Report
        /\ m(i).slot = batch[i].slot /\ m(i).seq = batch[i].seq /\ m(i).of = batch[i].of
        /\ m(i).fate = "live" <=> batch[i].fate = "live" /\ batch[i].of # o
  BY <1>2 DEF Report
<1>4. Fate(o, f) = [i \in 1 .. Len(batch) |-> m(i)]
  BY <1>1 DEF Fate
<1> HIDE DEF m
<1>5. Fate(o, f) \in Seq(Report) /\ Len(Fate(o, f)) = Len(batch)
  BY <1>1, <1>3, <1>4
<1> QED BY <1>1, <1>3, <1>4, <1>5

(* What remains of a batch when its first event is done with.              *)
LEMMA Rest ==
  ASSUME NEW b \in Seq(Report), b # <<>>
  PROVE  /\ Tail(b) \in Seq(Report)
         /\ \A i \in DOMAIN Tail(b) : i + 1 \in DOMAIN b /\ Tail(b)[i] = b[i + 1]
OBVIOUS

-----------------------------------------------------------------------------
(* How a step leaves the events of a batch.                                *)

(* EventInv in the next state, of an event of this or of the next state.   *)
After(e) ==
  /\ e.fate = "live" => \E r \in reg'[e.of] : r.slot = e.slot /\ r.seq = e.seq
  /\ e.fate # "live" => e.seq < seq'[e.slot]

(* The events of b are events of batch: those that are still live have the *)
(* registration they had, and when one ceases to be live the number of its *)
(* slot has been raised.                                                   *)
Comes(b) ==
  \A i \in DOMAIN b : \E j \in DOMAIN batch :
    /\ b[i].slot = batch[j].slot /\ b[i].seq = batch[j].seq /\ b[i].of = batch[j].of
    /\ b[i].fate = "live" => /\ batch[j].fate = "live"
                             /\ reg'[batch[j].of] = reg[batch[j].of]
    /\ b[i].fate # "live" /\ batch[j].fate = "live" =>
         seq'[batch[j].slot] > seq[batch[j].slot]

LEMMA BatchKeeps ==
  ASSUME TypeOK, Registered, BatchInv, NEW b, Comes(b),
         \A s \in Slot : seq'[s] \in Nat /\ seq'[s] >= seq[s]
  PROVE  \A i \in DOMAIN b : After(b[i])
<1> SUFFICES ASSUME NEW i \in DOMAIN b PROVE After(b[i])
  OBVIOUS
<1>1. PICK j \in DOMAIN batch :
        /\ b[i].slot = batch[j].slot /\ b[i].seq = batch[j].seq /\ b[i].of = batch[j].of
        /\ b[i].fate = "live" => /\ batch[j].fate = "live"
                                 /\ reg'[batch[j].of] = reg[batch[j].of]
        /\ b[i].fate # "live" /\ batch[j].fate = "live" =>
             seq'[batch[j].slot] > seq[batch[j].slot]
  BY DEF Comes
<1>2. /\ batch[j].slot \in Slot /\ batch[j].seq \in Nat /\ batch[j].of \in Object
      /\ seq[batch[j].slot] \in Nat /\ seq'[batch[j].slot] \in Nat
      /\ seq'[batch[j].slot] >= seq[batch[j].slot]
  BY ReportFields
<1>3. EventInv(batch[j])
  BY DEF BatchInv
<1>4. CASE b[i].fate = "live"
  BY <1>1, <1>3, <1>4 DEF After, EventInv
<1>5. CASE b[i].fate # "live" /\ batch[j].fate # "live"
  <2>1. batch[j].seq < seq[batch[j].slot]
    BY <1>3, <1>5 DEF EventInv
  <2>2. b[i].seq < seq'[b[i].slot]
    BY <2>1, <1>1, <1>2
  <2> QED BY <2>2, <1>5 DEF After
<1>6. CASE b[i].fate # "live" /\ batch[j].fate = "live"
  <2>1. PICK r \in reg[batch[j].of] : r.slot = batch[j].slot /\ r.seq = batch[j].seq
    BY <1>3, <1>6 DEF EventInv
  <2>2. batch[j].seq = seq[batch[j].slot]
    BY <2>1, <1>2 DEF Registered
  <2>3. b[i].seq < seq'[b[i].slot]
    BY <2>2, <1>1, <1>2, <1>6
  <2> QED BY <2>3, <1>6 DEF After
<1> QED BY <1>4, <1>5, <1>6

(* An event that is live is of an object with a slot, and is not live when *)
(* the object has none.                                                    *)
LEMMA LiveHasSlot ==
  ASSUME TypeOK, Registered, BatchInv, NEW i \in DOMAIN batch, batch[i].fate = "live"
  PROVE  /\ batch[i].of \in Object /\ batch[i].slot \in Slot
         /\ epslot[batch[i].of] = batch[i].slot
         /\ reg[batch[i].of] # {}
         /\ batch[i].seq = seq[batch[i].slot]
<1>1. batch[i].of \in Object /\ batch[i].slot \in Slot
  BY ReportFields
<1>2. PICK r \in reg[batch[i].of] : r.slot = batch[i].slot /\ r.seq = batch[i].seq
  BY DEF BatchInv, EventInv
<1> QED BY <1>1, <1>2 DEF Registered

LEMMA InvVerified == Inv => Verified
<1> SUFFICES ASSUME Inv, NEW i \in DOMAIN batch
             PROVE  /\ batch[i].fate = "live" <=> batch[i].seq = seq[batch[i].slot]
                    /\ batch[i].fate = "live" => poller[batch[i].slot] = {batch[i].of}
  BY DEF Verified
<1> USE DEF Inv
<1>1. CASE batch[i].fate = "live"
  <2>1. /\ batch[i].of \in Object /\ batch[i].slot \in Slot
        /\ epslot[batch[i].of] = batch[i].slot /\ batch[i].seq = seq[batch[i].slot]
    BY <1>1, LiveHasSlot
  <2>2. batch[i].of \in poller[batch[i].slot]
    BY <2>1 DEF SlotsOwned
  <2>3. poller[batch[i].slot] \in {{}} \cup {{o} : o \in Object}
    BY <2>1 DEF TypeOK
  <2> QED BY <1>1, <2>1, <2>2, <2>3
<1>2. CASE batch[i].fate # "live"
  <2>1. batch[i].seq < seq[batch[i].slot] /\ batch[i].seq \in Nat /\ seq[batch[i].slot] \in Nat
    BY <1>2, ReportFields DEF BatchInv, EventInv
  <2> QED BY <1>2, <2>1
<1> QED BY <1>1, <1>2

-----------------------------------------------------------------------------
(* The steps of the user's code.                                           *)

LEMMA CallKeeps ==
  ASSUME Inv, Call
  PROVE  run' \in Loop /\ run'.pc = run.pc
<1>1. run \in Loop
  BY DEF Inv, TypeOK
<1>2. CASE run.pc = "idle"
  BY <1>1, <1>2 DEF Call
<1>3. CASE run.pc # "idle"
  <2>1. run' = [run EXCEPT !.calls = run.calls + 1]
    BY <1>3 DEF Call
  <2> QED BY <2>1, <1>1 DEF Loop
<1> QED BY <1>2, <1>3

LEMMA RunKeeps ==
  ASSUME Inv, Call, batch \in Seq(Report), batch' \in Seq(Report), Len(batch') = Len(batch)
  PROVE  RunInv'
<1>1. batch # <<>> => batch' # <<>>
  OBVIOUS
<1> QED BY <1>1, CallKeeps DEF Inv, RunInv

LEMMA NewInv == ASSUME Inv, NEW o \in Object, New(o) PROVE Inv'
<1> USE DEF New
<1>1. TypeOK'
  BY CallKeeps DEF Inv, TypeOK, table
<1>2. SlotsOwned'
  BY DEF Inv, SlotsOwned, table
<1>3. Registered' /\ BatchInv'
  BY DEF Inv, Registered, BatchInv, EventInv, table
<1>4. RunInv'
  BY CallKeeps DEF Inv, RunInv
<1> QED BY <1>1, <1>2, <1>3, <1>4 DEF Inv

LEMMA EnableInv ==
  ASSUME Inv, NEW o \in Object, NEW e \in Interest, Enable(o, e) PROVE Inv'
<1> USE DEF Enable
<1>1. TypeOK'
  <2>1. newEvents' \in [Object -> SUBSET Interest]
    BY DEF Inv, TypeOK
  <2> QED BY <2>1, CallKeeps DEF Inv, TypeOK, table
<1>2. SlotsOwned'
  BY DEF Inv, SlotsOwned, table
<1>3. Registered' /\ BatchInv'
  BY DEF Inv, Registered, BatchInv, EventInv, table
<1>4. RunInv'
  BY CallKeeps DEF Inv, RunInv
<1> QED BY <1>1, <1>2, <1>3, <1>4 DEF Inv

(* Apply, by ApplyEvents and at the end of an event.                       *)
LEMMA ApplyKeeps ==
  ASSUME Inv, NEW o \in Object, epslot[o] # NULL, Apply(o),
         UNCHANGED <<poller, freeSlotList, there, newEvents, epslot>>
  PROVE  /\ seq' \in [Slot -> Nat]
         /\ oldEvents' \in [Object -> SUBSET Interest]
         /\ reg' \in [Object -> SUBSET Registration]
         /\ SlotsOwned' /\ Registered'
         /\ Applied(o) \in Seq(Report) /\ Len(Applied(o)) = Len(batch)
         /\ \A i \in DOMAIN Applied(o) : After(Applied(o)[i])
<1> USE DEF Inv
<1> DEFINE s == epslot[o]
<1>1. s \in Slot /\ newEvents[o] \in SUBSET Interest /\ batch \in Seq(Report)
      /\ seq[s] \in Nat
  BY DEF TypeOK
<1>2. SlotsOwned'
  BY DEF SlotsOwned
<1>3. CASE oldEvents[o] = newEvents[o]
  <2>1. UNCHANGED <<seq, oldEvents, reg>>
    BY <1>3 DEF Apply
  <2>2. Applied(o) = batch
    BY <2>1 DEF Applied
  <2>3. Registered'
    BY <2>1 DEF Registered
  <2>4. \A i \in DOMAIN batch : After(batch[i])
    BY <2>1 DEF BatchInv, EventInv, After
  <2> QED BY <2>1, <2>2, <2>3, <2>4, <1>2, <1>1 DEF TypeOK
<1>4. CASE oldEvents[o] # newEvents[o] /\ reg[o] = {}
  <2>1. seq' = [seq EXCEPT ![s] = @ + 1] /\ UNCHANGED <<oldEvents, reg>>
    BY <1>4 DEF Apply
  <2>2. Applied(o) = batch
    BY <2>1 DEF Applied
  <2>3. seq' \in [Slot -> Nat] /\ \A t \in Slot : seq'[t] \in Nat /\ seq'[t] >= seq[t]
    BY <2>1, <1>1 DEF TypeOK
  <2>4. \A q \in Object : reg[q] # {} => epslot[q] # s
    <3>1. \A q \in Object : epslot[q] = s => q = o
      BY <1>1 DEF SlotsOwned, TypeOK
    <3> QED BY <3>1, <1>4
  <2>5. Registered'
    BY <2>1, <2>4, <1>1 DEF Registered, TypeOK, Registration
  <2>6. Comes(batch)
    BY <2>1 DEF Comes
  <2>7. \A i \in DOMAIN batch : After(batch[i])
    BY <2>3, <2>6, BatchKeeps
  <2> QED BY <2>1, <2>2, <2>3, <2>5, <2>7, <1>2, <1>1 DEF TypeOK
<1>5. CASE oldEvents[o] # newEvents[o] /\ reg[o] # {}
  <2> DEFINE r == [events |-> newEvents[o], slot |-> s, seq |-> seq'[s]]
  <2>1. /\ seq' = [seq EXCEPT ![s] = @ + 1]
        /\ reg' = [reg EXCEPT ![o] = {r}]
        /\ oldEvents' = [oldEvents EXCEPT ![o] = newEvents[o]]
    BY <1>5 DEF Apply, CtlSet
  <2>2. seq' \in [Slot -> Nat] /\ \A t \in Slot : seq'[t] \in Nat /\ seq'[t] >= seq[t]
    BY <2>1, <1>1 DEF TypeOK
  <2>3. r \in Registration
    BY <2>2, <1>1 DEF Registration
  <2>4. reg' \in [Object -> SUBSET Registration]
    BY <2>1, <2>3 DEF TypeOK
  <2>5. oldEvents' \in [Object -> SUBSET Interest]
    BY <2>1, <1>1 DEF TypeOK
  <2>6. reg' # reg
    <3>1. \A x \in reg[o] : x.seq = seq[s]
      BY <1>1 DEF Registered
    <3>2. r.seq # seq[s]
      BY <2>1, <1>1 DEF TypeOK
    <3>3. r \in reg'[o]
      BY <2>1 DEF TypeOK
    <3> QED BY <3>1, <3>2, <3>3
  <2>7. Applied(o) = Fate(o, "changed")
    BY <2>6 DEF Applied
  <2>8. Registered'
    <3> SUFFICES ASSUME NEW q \in Object, NEW x \in reg'[q]
                 PROVE  epslot[q] = x.slot /\ x.seq = seq'[x.slot] /\ x.events = oldEvents'[q]
      BY DEF Registered
    <3>1. CASE q = o
      BY <3>1, <2>1, <1>1 DEF TypeOK
    <3>2. CASE q # o
      <4>1. x \in reg[q] /\ oldEvents'[q] = oldEvents[q]
        BY <3>2, <2>1 DEF TypeOK
      <4>2. epslot[q] = x.slot /\ x.seq = seq[x.slot] /\ x.events = oldEvents[q] /\ x.slot \in Slot
        BY <4>1 DEF Registered, TypeOK, Registration
      <4>3. epslot[q] # s
        BY <3>2, <1>1 DEF SlotsOwned, TypeOK
      <4> QED BY <4>1, <4>2, <4>3, <2>1 DEF TypeOK
    <3> QED BY <3>1, <3>2
  <2>9. Comes(Fate(o, "changed"))
    <3> SUFFICES ASSUME NEW i \in DOMAIN Fate(o, "changed")
                 PROVE  \E j \in DOMAIN batch :
           /\ Fate(o, "changed")[i].slot = batch[j].slot
           /\ Fate(o, "changed")[i].seq = batch[j].seq
           /\ Fate(o, "changed")[i].of = batch[j].of
           /\ Fate(o, "changed")[i].fate = "live" =>
                batch[j].fate = "live" /\ reg'[batch[j].of] = reg[batch[j].of]
           /\ Fate(o, "changed")[i].fate # "live" /\ batch[j].fate = "live" =>
                seq'[batch[j].slot] > seq[batch[j].slot]
      BY DEF Comes
    <3>1. i \in DOMAIN batch
      BY FateMarks, <1>1
    <3>2. /\ Fate(o, "changed")[i].slot = batch[i].slot
          /\ Fate(o, "changed")[i].seq = batch[i].seq
          /\ Fate(o, "changed")[i].of = batch[i].of
          /\ Fate(o, "changed")[i].fate = "live" <=> batch[i].fate = "live" /\ batch[i].of # o
      BY <3>1, FateMarks
    <3>3. batch[i].of # o => reg'[batch[i].of] = reg[batch[i].of]
      BY <2>1, <3>1, ReportFields DEF TypeOK
    <3>4. batch[i].fate = "live" /\ batch[i].of = o => seq'[batch[i].slot] > seq[batch[i].slot]
      <4> SUFFICES ASSUME batch[i].fate = "live", batch[i].of = o
                   PROVE  seq'[batch[i].slot] > seq[batch[i].slot]
        OBVIOUS
      <4>1. batch[i].slot = s
        BY <3>1, LiveHasSlot
      <4>2. seq'[s] = seq[s] + 1
        BY <2>1, <1>1 DEF TypeOK
      <4> QED BY <4>1, <4>2, <1>1
    <3> QED BY <3>1, <3>2, <3>3, <3>4
  <2>10. \A i \in DOMAIN Fate(o, "changed") : After(Fate(o, "changed")[i])
    BY <2>2, <2>9, BatchKeeps
  <2>11. Fate(o, "changed") \in Seq(Report) /\ Len(Fate(o, "changed")) = Len(batch)
    BY FateMarks
  <2> HIDE DEF r
  <2> QED BY <2>2, <2>4, <2>5, <2>7, <2>8, <2>10, <2>11, <1>2
<1> QED BY <1>3, <1>4, <1>5

LEMMA ApplyEventsInv == ASSUME Inv, NEW o \in Object, ApplyEvents(o) PROVE Inv'
<1> USE DEF ApplyEvents
<1>1. /\ seq' \in [Slot -> Nat]
      /\ oldEvents' \in [Object -> SUBSET Interest]
      /\ reg' \in [Object -> SUBSET Registration]
      /\ SlotsOwned' /\ Registered'
      /\ batch' \in Seq(Report) /\ Len(batch') = Len(batch)
      /\ \A i \in DOMAIN batch' : After(batch'[i])
  BY ApplyKeeps
<1>2. TypeOK'
  BY <1>1, CallKeeps DEF Inv, TypeOK
<1>3. BatchInv'
  BY <1>1 DEF BatchInv, EventInv, After
<1>4. RunInv'
  BY <1>1, RunKeeps DEF Inv, TypeOK
<1> QED BY <1>1, <1>2, <1>3, <1>4 DEF Inv

(* An object without a slot is not in epoll's list.                        *)
LEMMA NotRegistered ==
  ASSUME TypeOK, Registered, NEW o \in Object, epslot[o] = NULL PROVE reg[o] = {}
<1> SUFFICES ASSUME NEW r \in reg[o] PROVE FALSE
  OBVIOUS
<1>1. r.slot \in Slot /\ r.slot = NULL
  BY DEF TypeOK, Registration, Registered
<1> QED BY <1>1, PollerAssumption DEF Slot, NULL

LEMMA AttachInv == ASSUME Inv, NEW o \in Object, Attach(o) PROVE Inv'
<1> USE DEF Inv
<1> DEFINE s == Head(freeSlotList)
           r == [events |-> newEvents[o], slot |-> s, seq |-> seq'[s]]
<1>1. /\ Call /\ o \in there /\ epslot[o] = NULL /\ freeSlotList # <<>>
      /\ freeSlotList' = Tail(freeSlotList)
      /\ epslot' = [epslot EXCEPT ![o] = s]
      /\ poller' = [poller EXCEPT ![s] = {o}]
      /\ seq' = [seq EXCEPT ![s] = @ + 1]
      /\ UNCHANGED <<there, newEvents, batch>>
  BY DEF Attach
<1>2. /\ s \in Slot /\ Tail(freeSlotList) \in Seq(Slot)
      /\ Range(Tail(freeSlotList)) = Range(freeSlotList) \ {s}
      /\ IsInjective(Tail(freeSlotList))
  BY <1>1, TakeFirst DEF TypeOK, SlotsOwned
<1>3. s \in Range(freeSlotList)
  <2>1. 1 \in DOMAIN freeSlotList /\ freeSlotList[1] = s
    BY <1>1 DEF TypeOK
  <2> QED BY <2>1 DEF Range
<1>4. poller[s] = {} /\ \A q \in Object : epslot[q] # s
  BY <1>2, <1>3 DEF SlotsOwned
<1>5. seq' \in [Slot -> Nat] /\ \A t \in Slot : seq'[t] \in Nat /\ seq'[t] >= seq[t]
  BY <1>1, <1>2 DEF TypeOK
<1>6. poller' \in [Slot -> {{}} \cup {{q} : q \in Object}] /\ epslot' \in [Object -> Slot \cup {NULL}]
  BY <1>1, <1>2 DEF TypeOK
<1>7. SlotsOwned'
  <2>1. \A t \in Slot : t \in Range(freeSlotList)' <=> poller'[t] = {}
    BY <1>1, <1>2 DEF SlotsOwned, TypeOK
  <2>2. \A t \in Slot, q \in Object : q \in poller'[t] <=> epslot'[q] = t
    <3> SUFFICES ASSUME NEW t \in Slot, NEW q \in Object
                 PROVE  q \in poller'[t] <=> epslot'[q] = t
      OBVIOUS
    <3>1. CASE q = o
      <4>1. NULL # t
        BY PollerAssumption DEF Slot, NULL
      <4>2. o \notin poller[t]
        BY <4>1, <1>1 DEF SlotsOwned
      <4> QED BY <3>1, <4>2, <1>1, <1>2 DEF TypeOK
    <3>2. CASE q # o
      BY <3>2, <1>1, <1>2, <1>4 DEF SlotsOwned, TypeOK
    <3> QED BY <3>1, <3>2
  <2>3. \A q \in Object : epslot'[q] # NULL => q \in there'
    BY <1>1 DEF SlotsOwned, TypeOK
  <2> QED BY <2>1, <2>2, <2>3, <1>1, <1>2 DEF SlotsOwned
<1>8. reg[o] = {}
  BY <1>1, NotRegistered
<1>9. \/ reg' = [reg EXCEPT ![o] = {r}] /\ oldEvents' = [oldEvents EXCEPT ![o] = newEvents[o]]
      \/ UNCHANGED <<reg, oldEvents>>
  <2>1. epslot'[o] = s
    BY <1>1 DEF TypeOK
  <2> QED BY <2>1 DEF Attach, CtlSet
<1>10. r \in Registration
  BY <1>2, <1>5 DEF Registration, TypeOK
<1>11. reg' \in [Object -> SUBSET Registration] /\ oldEvents' \in [Object -> SUBSET Interest]
  BY <1>9, <1>10 DEF TypeOK
<1>12. Registered'
  <2> SUFFICES ASSUME NEW q \in Object, NEW x \in reg'[q]
               PROVE  epslot'[q] = x.slot /\ x.seq = seq'[x.slot] /\ x.events = oldEvents'[q]
    BY DEF Registered
  <2>1. CASE q = o
    <3>1. x = r /\ oldEvents'[o] = newEvents[o]
      BY <2>1, <1>8, <1>9 DEF TypeOK
    <3> QED BY <2>1, <3>1, <1>1 DEF TypeOK
  <2>2. CASE q # o
    <3>1. x \in reg[q] /\ oldEvents'[q] = oldEvents[q] /\ epslot'[q] = epslot[q]
      BY <2>2, <1>1, <1>9 DEF TypeOK
    <3>2. epslot[q] = x.slot /\ x.seq = seq[x.slot] /\ x.events = oldEvents[q] /\ x.slot \in Slot
      BY <3>1 DEF Registered, TypeOK, Registration
    <3> QED BY <3>1, <3>2, <1>1, <1>4 DEF TypeOK
  <2> QED BY <2>1, <2>2
<1>13. BatchInv'
  <2>1. Comes(batch)
    <3>1. \A i \in DOMAIN batch : batch[i].fate = "live" => reg'[batch[i].of] = reg[batch[i].of]
      <4> SUFFICES ASSUME NEW i \in DOMAIN batch, batch[i].fate = "live"
                   PROVE  reg'[batch[i].of] = reg[batch[i].of]
        OBVIOUS
      <4>1. batch[i].of \in Object /\ batch[i].of # o
        BY <1>8, LiveHasSlot
      <4> QED BY <4>1, <1>9 DEF TypeOK
    <3> QED BY <3>1 DEF Comes
  <2>2. \A i \in DOMAIN batch : After(batch[i])
    BY <2>1, <1>5, BatchKeeps
  <2> QED BY <2>2, <1>1 DEF BatchInv, EventInv, After
<1>14. TypeOK'
  BY <1>1, <1>2, <1>5, <1>6, <1>11, CallKeeps DEF TypeOK
<1>15. RunInv'
  BY <1>1, RunKeeps DEF TypeOK
<1> QED BY <1>7, <1>12, <1>13, <1>14, <1>15

(* DetachPoller and the destructor: the registration of o is deleted and   *)
(* its slot, if it has one, is freed.                                      *)
LEMMA LetGo ==
  ASSUME Inv, NEW o \in Object, CtlDel(o),
         IF epslot[o] = NULL THEN UNCHANGED table ELSE FreeEpollSlot(epslot[o]),
         epslot' = [epslot EXCEPT ![o] = NULL],
         \A q \in there : q # o => q \in there',
         \A q \in Object : q # o => oldEvents'[q] = oldEvents[q]
  PROVE  /\ seq' \in [Slot -> Nat]
         /\ poller' \in [Slot -> {{}} \cup {{q} : q \in Object}]
         /\ freeSlotList' \in Seq(Slot)
         /\ epslot' \in [Object -> Slot \cup {NULL}]
         /\ reg' \in [Object -> SUBSET Registration]
         /\ batch' \in Seq(Report) /\ Len(batch') = Len(batch)
         /\ SlotsOwned' /\ Registered' /\ BatchInv'
<1> USE DEF Inv
<1> DEFINE s == epslot[o]
<1>1. reg' = [reg EXCEPT ![o] = {}] /\ batch' = Fate(o, "gone")
  BY DEF CtlDel
<1>2. /\ epslot' \in [Object -> Slot \cup {NULL}]
      /\ reg' \in [Object -> SUBSET Registration]
      /\ batch' \in Seq(Report) /\ Len(batch') = Len(batch)
  BY <1>1, FateMarks DEF TypeOK
<1>3. \A q \in Object : q # o => epslot'[q] = epslot[q]
  BY DEF TypeOK
<1>4. epslot'[o] = NULL
  BY DEF TypeOK
<1>5. \A t \in Slot : t # NULL
  BY PollerAssumption DEF Slot, NULL
<1>6. /\ seq' \in [Slot -> Nat]
      /\ poller' \in [Slot -> {{}} \cup {{q} : q \in Object}]
      /\ freeSlotList' \in Seq(Slot)
      /\ SlotsOwned'
      /\ \A t \in Slot : seq'[t] \in Nat /\ seq'[t] >= seq[t]
      /\ \A t \in Slot : t # s => seq'[t] = seq[t]
      /\ s \in Slot => seq'[s] > seq[s]
  <2>1. \A q \in Object : epslot'[q] # NULL => q \in there'
    BY <1>3, <1>4 DEF SlotsOwned
  <2>2. CASE s = NULL
    <3>1. UNCHANGED <<seq, poller, freeSlotList>>
      BY <2>2 DEF table
    <3>2. \A t \in Slot, q \in Object : q \in poller'[t] <=> epslot'[q] = t
      BY <3>1, <2>2, <1>3, <1>4, <1>5 DEF SlotsOwned
    <3>3. SlotsOwned'
      BY <3>1, <3>2, <2>1 DEF SlotsOwned
    <3> QED BY <3>1, <3>3, <2>2, <1>5 DEF TypeOK
  <2>3. CASE s # NULL
    <3>1. s \in Slot
      BY <2>3 DEF TypeOK
    <3>2. /\ freeSlotList' = <<s>> \o freeSlotList
          /\ poller' = [poller EXCEPT ![s] = {}]
          /\ seq' = [seq EXCEPT ![s] = @ + 1]
      BY <2>3 DEF FreeEpollSlot
    <3>3. poller[s] = {o} /\ s \notin Range(freeSlotList)
      <4>1. o \in poller[s]
        BY <3>1 DEF SlotsOwned
      <4>2. poller[s] \in {{}} \cup {{q} : q \in Object}
        BY <3>1 DEF TypeOK
      <4>3. s \notin Range(freeSlotList)
        BY <3>1, <4>1 DEF SlotsOwned
      <4> QED BY <4>1, <4>2, <4>3
    <3>4. /\ freeSlotList' \in Seq(Slot)
          /\ Range(freeSlotList') = Range(freeSlotList) \cup {s}
          /\ IsInjective(freeSlotList')
      BY <3>1, <3>2, <3>3, Push DEF TypeOK, SlotsOwned
    <3>5. \A t \in Slot : t \in Range(freeSlotList') <=> poller'[t] = {}
      BY <3>1, <3>2, <3>4 DEF SlotsOwned, TypeOK
    <3>6. \A t \in Slot, q \in Object : q \in poller'[t] <=> epslot'[q] = t
      <4> SUFFICES ASSUME NEW t \in Slot, NEW q \in Object
                   PROVE  q \in poller'[t] <=> epslot'[q] = t
        OBVIOUS
      <4>1. CASE t = s
        <5>1. poller'[t] = {}
          BY <4>1, <3>1, <3>2 DEF TypeOK
        <5>2. \A x \in Object : epslot[x] = s => x = o
          BY <3>1, <3>3 DEF SlotsOwned
        <5>3. epslot'[q] # t
          BY <4>1, <5>2, <1>3, <1>4, <1>5
        <5> QED BY <5>1, <5>3
      <4>2. CASE t # s
        <5>1. poller'[t] = poller[t]
          BY <4>2, <3>1, <3>2 DEF TypeOK
        <5>2. q = o => q \notin poller[t] /\ epslot'[q] # t
          BY <4>2, <1>4, <1>5 DEF SlotsOwned
        <5> QED BY <5>1, <5>2, <1>3 DEF SlotsOwned
      <4> QED BY <4>1, <4>2
    <3>7. SlotsOwned'
      BY <3>4, <3>5, <3>6, <2>1 DEF SlotsOwned
    <3>8. poller' \in [Slot -> {{}} \cup {{q} : q \in Object}]
      BY <3>2 DEF TypeOK
    <3>9. /\ seq' \in [Slot -> Nat]
          /\ \A t \in Slot : seq'[t] \in Nat /\ seq'[t] >= seq[t]
          /\ \A t \in Slot : t # s => seq'[t] = seq[t]
          /\ seq'[s] > seq[s]
      BY <3>1, <3>2 DEF TypeOK
    <3> QED BY <3>4, <3>7, <3>8, <3>9
  <2> QED BY <2>2, <2>3
<1>7. Registered'
  <2> SUFFICES ASSUME NEW q \in Object, NEW x \in reg'[q]
               PROVE  epslot'[q] = x.slot /\ x.seq = seq'[x.slot] /\ x.events = oldEvents'[q]
    BY DEF Registered
  <2>1. q # o /\ x \in reg[q]
    BY <1>1 DEF TypeOK
  <2>2. epslot[q] = x.slot /\ x.seq = seq[x.slot] /\ x.events = oldEvents[q] /\ x.slot \in Slot
    BY <2>1 DEF Registered, TypeOK, Registration
  <2>3. x.slot # s
    <3>1. q \in poller[x.slot]
      BY <2>2 DEF SlotsOwned
    <3>2. s = x.slot => o \in poller[x.slot]
      BY <2>2 DEF SlotsOwned
    <3>3. poller[x.slot] \in {{}} \cup {{p} : p \in Object}
      BY <2>2 DEF TypeOK
    <3> QED BY <2>1, <3>1, <3>2, <3>3
  <2> QED BY <2>1, <2>2, <2>3, <1>3, <1>6
<1>8. Comes(batch')
  <2> SUFFICES ASSUME NEW i \in DOMAIN batch'
               PROVE  \E j \in DOMAIN batch :
         /\ batch'[i].slot = batch[j].slot /\ batch'[i].seq = batch[j].seq
         /\ batch'[i].of = batch[j].of
         /\ batch'[i].fate = "live" =>
              batch[j].fate = "live" /\ reg'[batch[j].of] = reg[batch[j].of]
         /\ batch'[i].fate # "live" /\ batch[j].fate = "live" =>
              seq'[batch[j].slot] > seq[batch[j].slot]
    BY DEF Comes
  <2>1. i \in DOMAIN batch
    BY <1>2 DEF TypeOK
  <2>2. /\ batch'[i].slot = batch[i].slot /\ batch'[i].seq = batch[i].seq
        /\ batch'[i].of = batch[i].of
        /\ batch'[i].fate = "live" <=> batch[i].fate = "live" /\ batch[i].of # o
    BY <2>1, <1>1, FateMarks
  <2>3. batch[i].of # o => reg'[batch[i].of] = reg[batch[i].of]
    BY <1>1, <2>1, ReportFields DEF TypeOK
  <2>4. batch[i].fate = "live" /\ batch[i].of = o => seq'[batch[i].slot] > seq[batch[i].slot]
    BY <2>1, <1>6, LiveHasSlot
  <2> QED BY <2>1, <2>2, <2>3, <2>4
<1>9. BatchInv'
  <2>1. \A i \in DOMAIN batch' : After(batch'[i])
    BY <1>6, <1>8, BatchKeeps
  <2> QED BY <2>1 DEF BatchInv, EventInv, After
<1> QED BY <1>2, <1>6, <1>7, <1>9

LEMMA DetachInv == ASSUME Inv, NEW o \in Object, Detach(o) PROVE Inv'
<1> USE DEF Inv
<1>1. oldEvents' \in [Object -> SUBSET Interest]
      /\ \A q \in Object : q # o => oldEvents'[q] = oldEvents[q]
  BY DEF Detach, TypeOK
<1>2. /\ seq' \in [Slot -> Nat]
      /\ poller' \in [Slot -> {{}} \cup {{q} : q \in Object}]
      /\ freeSlotList' \in Seq(Slot)
      /\ epslot' \in [Object -> Slot \cup {NULL}]
      /\ reg' \in [Object -> SUBSET Registration]
      /\ batch' \in Seq(Report) /\ Len(batch') = Len(batch)
      /\ SlotsOwned' /\ Registered' /\ BatchInv'
  BY <1>1, LetGo DEF Detach
<1>3. TypeOK'
  BY <1>1, <1>2, CallKeeps DEF Detach, TypeOK
<1>4. RunInv'
  BY <1>2, RunKeeps DEF Detach, TypeOK
<1> QED BY <1>2, <1>3, <1>4

LEMMA DeleteInv == ASSUME Inv, NEW o \in Object, Delete(o) PROVE Inv'
<1> USE DEF Inv
<1>1. /\ oldEvents' \in [Object -> SUBSET Interest]
      /\ newEvents' \in [Object -> SUBSET Interest]
      /\ \A q \in Object : q # o => oldEvents'[q] = oldEvents[q]
  BY DEF Delete, TypeOK
<1>2. /\ seq' \in [Slot -> Nat]
      /\ poller' \in [Slot -> {{}} \cup {{q} : q \in Object}]
      /\ freeSlotList' \in Seq(Slot)
      /\ epslot' \in [Object -> Slot \cup {NULL}]
      /\ reg' \in [Object -> SUBSET Registration]
      /\ batch' \in Seq(Report) /\ Len(batch') = Len(batch)
      /\ SlotsOwned' /\ Registered' /\ BatchInv'
  BY <1>1, LetGo DEF Delete
<1>3. TypeOK'
  BY <1>1, <1>2, CallKeeps DEF Delete, TypeOK
<1>4. RunInv'
  BY <1>2, RunKeeps DEF Delete, TypeOK
<1> QED BY <1>2, <1>3, <1>4

-----------------------------------------------------------------------------
(* The steps of the loop.                                                  *)

LEMMA WaitInv == ASSUME Inv, WaitPollerEvents PROVE Inv'
<1> USE DEF Inv
<1>1. PICK n \in 1 .. maxPollers : \E f \in [1 .. n -> Reports] :
        batch' = [i \in 1 .. n |-> Event(f[i][1], f[i][2])]
  BY DEF WaitPollerEvents
<1>2. PICK f \in [1 .. n -> Reports] : batch' = [i \in 1 .. n |-> Event(f[i][1], f[i][2])]
  BY <1>1
<1>3. UNCHANGED <<table, objects, reg>> /\ run' = [run EXCEPT !.pc = "next"]
  BY DEF WaitPollerEvents
<1>4. n \in Nat /\ n >= 1
  BY <1>1, PollerAssumption
<1>5. \A i \in 1 .. n : /\ batch'[i] \in Report
                       /\ batch'[i].fate = "live"
                       /\ \E r \in reg[batch'[i].of] :
                            r.slot = batch'[i].slot /\ r.seq = batch'[i].seq
  <2> SUFFICES ASSUME NEW i \in 1 .. n
               PROVE  /\ batch'[i] \in Report
                      /\ batch'[i].fate = "live"
                      /\ \E r \in reg[batch'[i].of] :
                           r.slot = batch'[i].slot /\ r.seq = batch'[i].seq
    OBVIOUS
  <2> DEFINE o == f[i][1]  ev == f[i][2]
  <2>1. f[i] \in Reports
    BY <1>2
  <2>2. o \in Object /\ ev \in SUBSET (Interest \cup {"HUP"}) /\ reg[o] # {}
    BY <2>1 DEF Reports
  <2>3. PICK r \in reg[o] : r = (CHOOSE x \in reg[o] : TRUE)
    BY <2>2
  <2>4. batch'[i] = [events |-> ev, slot |-> r.slot, seq |-> r.seq, of |-> o, fate |-> "live"]
    BY <1>2, <2>3 DEF Event
  <2>5. r.slot \in Slot /\ r.seq \in Nat
    BY <2>2 DEF TypeOK, Registration
  <2> HIDE DEF o, ev
  <2>6. batch'[i] \in Report
    BY <2>2, <2>4, <2>5 DEF Report
  <2> QED BY <2>4, <2>6
<1>6. batch' \in Seq(Report) /\ batch' # <<>> /\ DOMAIN batch' = 1 .. n
  BY <1>2, <1>4, <1>5
<1>7. run' \in Loop
  BY <1>3 DEF TypeOK, Loop
<1>8. TypeOK'
  BY <1>3, <1>6, <1>7 DEF TypeOK, table, objects
<1>9. SlotsOwned' /\ Registered'
  BY <1>3 DEF SlotsOwned, Registered, table, objects
<1>10. BatchInv'
  BY <1>3, <1>5, <1>6 DEF BatchInv, EventInv
<1>11. RunInv'
  BY <1>6 DEF RunInv
<1> QED BY <1>8, <1>9, <1>10, <1>11

(* The first event is done with, after a step that leaves b of the batch.  *)
LEMMA LeaveKeeps ==
  ASSUME NEW b \in Seq(Report), b # <<>>, batch' = Tail(b), Leave
  PROVE  batch' \in Seq(Report) /\ run' \in Loop /\ RunInv'
<1>1. batch' \in Seq(Report)
  BY Rest
<1>2. run' \in Loop
  BY DEF Leave, Loop
<1>3. RunInv'
  BY DEF RunInv, Leave
<1> QED BY <1>1, <1>2, <1>3

LEMMA SkipInv ==
  ASSUME Inv, batch # <<>>, batch' = Tail(batch), Leave, UNCHANGED <<table, objects, reg>>
  PROVE  Inv'
<1> USE DEF Inv
<1>1. batch \in Seq(Report)
  BY DEF TypeOK
<1>2. batch' \in Seq(Report) /\ run' \in Loop /\ RunInv'
  BY <1>1, LeaveKeeps
<1>3. TypeOK' /\ SlotsOwned' /\ Registered'
  BY <1>2 DEF TypeOK, SlotsOwned, Registered, table, objects
<1>4. BatchInv'
  BY <1>1, Rest DEF BatchInv, EventInv, table
<1> QED BY <1>2, <1>3, <1>4

LEMMA NotifyInv == ASSUME Inv, Notify PROVE Inv'
<1> USE DEF Inv
<1>1. batch # <<>> /\ batch \in Seq(Report)
  BY DEF Notify, RunInv, TypeOK
<1>2. Ev.slot \in Slot
  <2>1. 1 \in DOMAIN batch /\ Ev = batch[1]
    BY <1>1 DEF Ev
  <2> QED BY <2>1, ReportFields
<1>3. PICK p \in poller[Ev.slot] :
        /\ newEvents' = [newEvents EXCEPT ![p] = oldEvents[p]]
        /\ run' = [pc |-> CASE "HUP" \in Ev.events -> "hup"
                            [] "IN" \in Ev.events  -> "in"
                            [] OTHER               -> "out",
                    calls |-> 0, p |-> {p}]
  BY DEF Notify
<1>4. p \in Object
  BY <1>2, <1>3 DEF TypeOK
<1>5. newEvents' \in [Object -> SUBSET Interest]
  BY <1>3, <1>4 DEF TypeOK
<1>6. run' \in Loop
  BY <1>3, <1>4 DEF Loop
<1>7. UNCHANGED <<table, there, oldEvents, epslot, reg, batch>>
  BY DEF Notify
<1>8. TypeOK'
  BY <1>5, <1>6, <1>7 DEF TypeOK, table
<1>9. SlotsOwned' /\ Registered' /\ BatchInv'
  BY <1>7 DEF SlotsOwned, Registered, BatchInv, EventInv, table
<1>10. RunInv'
  BY <1>1, <1>7 DEF RunInv
<1> QED BY <1>8, <1>9, <1>10

LEMMA NotifyOutInv == ASSUME Inv, NotifyOut PROVE Inv'
<1> USE DEF Inv
<1>1. run' = [run EXCEPT !.pc = "out", !.calls = 0] /\ run.pc = "in"
      /\ UNCHANGED <<table, objects, reg, batch>>
  BY DEF NotifyOut
<1>2. run' \in Loop
  BY <1>1 DEF TypeOK, Loop
<1>3. TypeOK'
  BY <1>1, <1>2 DEF TypeOK, table, objects
<1>4. SlotsOwned' /\ Registered' /\ BatchInv'
  BY <1>1 DEF SlotsOwned, Registered, BatchInv, EventInv, table, objects
<1>5. RunInv'
  BY <1>1 DEF RunInv
<1> QED BY <1>3, <1>4, <1>5

LEMMA FinishInv == ASSUME Inv, Finish PROVE Inv'
<1> USE DEF Inv
<1>1. PICK p \in run.p : Apply(p) /\ batch' = Tail(Applied(p))
  BY DEF Finish
<1>2. /\ Leave /\ UNCHANGED <<epslot, poller, freeSlotList, there, newEvents>>
      /\ poller[Ev.slot] = run.p /\ run.pc \in {"in", "out"}
  BY DEF Finish, ReturnSucc, Attached
<1>3. batch # <<>> /\ batch \in Seq(Report)
  BY <1>2 DEF RunInv, TypeOK
<1>4. Ev.slot \in Slot
  <2>1. 1 \in DOMAIN batch /\ Ev = batch[1]
    BY <1>3 DEF Ev
  <2> QED BY <2>1, ReportFields
<1>5. p \in Object
  BY <1>1 DEF TypeOK, Loop
<1>6. epslot[p] # NULL
  <2>1. epslot[p] = Ev.slot
    BY <1>1, <1>2, <1>4, <1>5 DEF SlotsOwned
  <2> QED BY <2>1, <1>4, PollerAssumption DEF Slot, NULL
<1> DEFINE b == Applied(p)
<1>7. /\ seq' \in [Slot -> Nat]
      /\ oldEvents' \in [Object -> SUBSET Interest]
      /\ reg' \in [Object -> SUBSET Registration]
      /\ SlotsOwned' /\ Registered'
      /\ b \in Seq(Report) /\ Len(b) = Len(batch)
      /\ \A i \in DOMAIN b : After(b[i])
  BY <1>1, <1>2, <1>5, <1>6, ApplyKeeps
<1>8. batch' = Tail(b)
  BY <1>1
<1> HIDE DEF b
<1>9. b # <<>>
  BY <1>3, <1>7
<1>10. batch' \in Seq(Report) /\ run' \in Loop /\ RunInv'
  BY <1>2, <1>7, <1>8, <1>9, LeaveKeeps
<1>11. TypeOK'
  BY <1>2, <1>7, <1>10 DEF TypeOK
<1>12. BatchInv'
  <2>1. \A i \in DOMAIN batch' : After(batch'[i])
    BY <1>7, <1>8, <1>9, Rest
  <2> QED BY <2>1 DEF BatchInv, EventInv, After
<1> QED BY <1>7, <1>10, <1>11, <1>12

-----------------------------------------------------------------------------
LEMMA InitInv == Init => Inv
<1> SUFFICES ASSUME Init PROVE Inv
  OBVIOUS
<1> USE PollerAssumption DEF Init
<1>1. freeSlotList \in Seq(Slot) /\ Len(freeSlotList) = maxPollers
  BY DEF Slot
<1>2. IsInjective(freeSlotList)
  BY DEF IsInjective
<1>3. \A s \in Slot : s \in Range(freeSlotList)
  <2> SUFFICES ASSUME NEW s \in Slot PROVE s \in Range(freeSlotList)
    OBVIOUS
  <2>1. s + 1 \in DOMAIN freeSlotList /\ freeSlotList[s + 1] = s
    BY DEF Slot
  <2> QED BY <2>1 DEF Range
<1>4. TypeOK
  BY <1>1 DEF TypeOK, Loop
<1>5. SlotsOwned
  BY <1>2, <1>3 DEF SlotsOwned, Slot, NULL
<1> QED BY <1>4, <1>5 DEF Inv, Registered, BatchInv, RunInv

LEMMA StepInv == Inv /\ [Next]_vars => Inv'
<1> SUFFICES ASSUME Inv, [Next]_vars PROVE Inv'
  OBVIOUS
<1>1. CASE WaitPollerEvents
  BY <1>1, WaitInv
<1>2. CASE Stale
  BY <1>2, SkipInv DEF Stale, Inv, RunInv
<1>3. CASE Notify
  BY <1>3, NotifyInv
<1>4. CASE Abandon
  BY <1>4, SkipInv DEF Abandon, Inv, RunInv
<1>5. CASE NotifyOut
  BY <1>5, NotifyOutInv
<1>6. CASE Finish
  BY <1>6, FinishInv
<1>7. ASSUME NEW o \in Object, User(o) PROVE Inv'
  BY <1>7, NewInv, EnableInv, ApplyEventsInv, AttachInv, DetachInv, DeleteInv DEF User
<1>8. CASE UNCHANGED vars
  BY <1>8 DEF Inv, TypeOK, SlotsOwned, Registered, BatchInv, EventInv, RunInv,
              vars, table, objects
<1> QED BY <1>1, <1>2, <1>3, <1>4, <1>5, <1>6, <1>7, <1>8 DEF Next, ProcessPollerEvents

LEMMA Invariance == Spec => []Inv
BY InitInv, StepInv, PTL DEF Spec

(* The table of slots, the objects, epoll's list, the batch and the place  *)
(* of the loop keep their types: no handler is left with a batch that has  *)
(* no event, and a slot never has two objects.                             *)
THEOREM TypeCorrect == Spec => []TypeOK
<1>1. Inv => TypeOK
  BY DEF Inv
<1> QED BY <1>1, Invariance, PTL

(* Slots are neither lost nor given out twice.                             *)
THEOREM SlotsKept == Spec => []SlotsOwned
<1>1. Inv => SlotsOwned
  BY DEF Inv
<1> QED BY <1>1, Invariance, PTL

(* What epoll has of an object is what its slot and fields say, so none of *)
(* its events is dropped for ever.                                         *)
THEOREM InStep == Spec => []Registered
<1>1. Inv => Registered
  BY DEF Inv
<1> QED BY <1>1, Invariance, PTL

(* VerifyEvents accepts the events of registrations that are what they     *)
(* were when reported, and no others, and finds their object in the slot.  *)
THEOREM EventsVerified == Spec => []Verified
BY InvVerified, Invariance, PTL

=============================================================================
