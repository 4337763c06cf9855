-------------------------------- MODULE Poller --------------------------------
(***************************************************************************)
(* CPollerUnit and its CPollerObjects (net/poller.h, poller.cpp): an epoll *)
(* loop of one thread.  An attached object has a slot; an event names the  *)
(* slot and the number (seq) the slot had when epoll was told of the       *)
(* object, so that an event of an object that is gone can be told from one *)
(* of its successor in the slot.  Notifications are calls of the user's    *)
(* code, which may attach, change, detach or delete any object, itself too,*)
(* before it returns.                                                      *)
(***************************************************************************)
EXTENDS Integers, Sequences, Functions

CONSTANTS
  Object,       \* the addresses of objects
  maxPollers,   \* the number of slots
  AddFails,     \* EPOLL_CTL_ADD may fail, for want of memory or of watches
  MaxSeq,       \* bound: numbers of a slot; the code wraps at 2^32
  MaxCalls      \* bound: calls of the user's code from one handler

ASSUME PollerAssumption ==
  /\ maxPollers \in Nat \ {0}
  /\ AddFails \in BOOLEAN
  /\ MaxSeq \in Nat /\ MaxCalls \in Nat

Slot == 0 .. maxPollers - 1
NULL == -1
Interest == {"IN", "OUT"}

(* What epoll knows of an object, and what it reports.                     *)
Registration == [events : SUBSET Interest, slot : Slot, seq : Nat]
Report == [events : SUBSET (Interest \cup {"HUP"}), slot : Slot, seq : Nat,
           of : Object, fate : {"live", "changed", "gone"}]

(* The loop.  pc: "idle" between batches, "next" at its head; "in", "out", *)
(* "hup" inside a handler of p.                                            *)
Loop == [pc : {"idle", "next", "in", "out", "hup"}, calls : Nat, p : SUBSET Object]

VARIABLES
  seq,           \* pollerTable[s].seq
  poller,        \* pollerTable[s].poller: a set of at most one object
  freeSlotList,
  there,         \* the objects that exist
  newEvents, oldEvents, epslot,   \* the fields of an object
  reg,           \* epoll's interest list: reg[o], at most one registration
  batch,         \* ep_events from the event being handled on
  run            \* the loop: its place, the handler's calls so far, and p

table   == <<seq, poller, freeSlotList>>
objects == <<there, newEvents, oldEvents, epslot>>
vars    == <<table, objects, reg, batch, run>>

TypeOK ==
  /\ seq \in [Slot -> Nat]
  /\ poller \in [Slot -> {{}} \cup {{o} : o \in Object}]
  /\ freeSlotList \in Seq(Slot)
  /\ there \subseteq Object
  /\ newEvents \in [Object -> SUBSET Interest]
  /\ oldEvents \in [Object -> SUBSET Interest]
  /\ epslot \in [Object -> Slot \cup {NULL}]
  /\ reg \in [Object -> SUBSET Registration]
  /\ batch \in Seq(Report)
  /\ run \in Loop

Init_OneMore ==   \* mutant: the last slot is linked to one more
  /\ seq = [s \in Slot |-> 0]
  /\ poller = [s \in Slot |-> {}]
  /\ freeSlotList = [i \in 1 .. maxPollers + 1 |-> i - 1]
  /\ there = {}
  /\ newEvents = [o \in Object |-> {}]
  /\ oldEvents = [o \in Object |-> {}]
  /\ epslot = [o \in Object |-> NULL]
  /\ reg = [o \in Object |-> {}]
  /\ batch = <<>>
  /\ run = [pc |-> "idle", calls |-> 0, p |-> {}]
Init ==
  /\ seq = [s \in Slot |-> 0]
  /\ poller = [s \in Slot |-> {}]
  /\ freeSlotList = [i \in 1 .. maxPollers |-> i - 1]
  /\ there = {}
  /\ newEvents = [o \in Object |-> {}]
  /\ oldEvents = [o \in Object |-> {}]
  /\ epslot = [o \in Object |-> NULL]
  /\ reg = [o \in Object |-> {}]
  /\ batch = <<>>
  /\ run = [pc |-> "idle", calls |-> 0, p |-> {}]

-----------------------------------------------------------------------------
(* epoll.  The events it has reported keep a note, which the code does not *)
(* have, of what became of the registration they came from.                *)
Fate(o, f) ==
  [i \in DOMAIN batch |->
     IF batch[i].of = o /\ batch[i].fate # "gone"
     THEN [batch[i] EXCEPT !.fate = f] ELSE batch[i]]

(* EPOLL_CTL_ADD and EPOLL_CTL_MOD.                                        *)
CtlSet_OldSeq(o) ==   \* mutant: epslot->seq++ for ++epslot->seq
  /\ reg' = [reg EXCEPT ![o] =
       {[events |-> newEvents[o], slot |-> epslot'[o], seq |-> seq[epslot'[o]]]}]
  /\ oldEvents' = [oldEvents EXCEPT ![o] = newEvents[o]]
CtlSet(o) ==
  /\ reg' = [reg EXCEPT ![o] =
       {[events |-> newEvents[o], slot |-> epslot'[o], seq |-> seq'[epslot'[o]]]}]
  /\ oldEvents' = [oldEvents EXCEPT ![o] = newEvents[o]]

(* EPOLL_CTL_DEL, or the close of the descriptor.                          *)
CtlDel(o) ==
  /\ reg' = [reg EXCEPT ![o] = {}]
  /\ batch' = Fate(o, "gone")

FreeEpollSlot_KeepsSeq(s) ==   \* mutant: p->seq is not raised
  /\ freeSlotList' = <<s>> \o freeSlotList
  /\ poller' = [poller EXCEPT ![s] = {}]
  /\ UNCHANGED seq
FreeEpollSlot(s) ==
  /\ freeSlotList' = <<s>> \o freeSlotList
  /\ poller' = [poller EXCEPT ![s] = {}]
  /\ seq' = [seq EXCEPT ![s] = @ + 1]

-----------------------------------------------------------------------------
(* The user's code, between batches and in handlers.                       *)
Call ==
  /\ run.pc \in {"idle", "in", "out", "hup"}
  /\ run.calls < MaxCalls
  /\ run' = IF run.pc = "idle" THEN run ELSE [run EXCEPT !.calls = @ + 1]

(* The constructor: an object without interests and without a slot.        *)
New(o) ==
  /\ Call /\ o \notin there
  /\ there' = there \cup {o}
  /\ UNCHANGED <<table, newEvents, oldEvents, epslot, reg, batch>>

(* EnableInput, DisableInput, EnableOutput, DisableOutput.                 *)
Enable(o, e) ==
  /\ Call /\ o \in there
  /\ newEvents' = [newEvents EXCEPT ![o] = IF e \in @ THEN @ \ {e} ELSE @ \cup {e}]
  /\ UNCHANGED <<table, there, oldEvents, epslot, reg, batch>>

(* ApplyEvents of an object with a slot: a new number, which epoll is told *)
(* of if it has the object at all.                                         *)
Apply(o) ==
  IF oldEvents[o] = newEvents[o] THEN UNCHANGED <<seq, oldEvents, reg>>
  ELSE /\ seq' = [seq EXCEPT ![epslot[o]] = @ + 1]
       /\ IF reg[o] = {} THEN UNCHANGED <<oldEvents, reg>> ELSE CtlSet(o)

Applied(o) == IF reg' = reg THEN batch ELSE Fate(o, "changed")

ApplyEvents(o) ==
  /\ Call /\ o \in there /\ epslot[o] # NULL /\ seq[epslot[o]] < MaxSeq
  /\ UNCHANGED epslot
  /\ Apply(o) /\ batch' = Applied(o)
  /\ UNCHANGED <<poller, freeSlotList, there, newEvents>>

(* AttachPoller of an object that has a slot is ApplyEvents.  When epoll   *)
(* refuses the object it keeps the slot.                                   *)
Attach(o) ==
  LET s == Head(freeSlotList)
  IN  /\ Call /\ o \in there /\ epslot[o] = NULL
      /\ freeSlotList # <<>> /\ seq[s] < MaxSeq
      /\ freeSlotList' = Tail(freeSlotList)
      /\ epslot' = [epslot EXCEPT ![o] = s]
      /\ poller' = [poller EXCEPT ![s] = {o}]
      /\ seq' = [seq EXCEPT ![s] = @ + 1]
      /\ \/ CtlSet(o)
         \/ AddFails /\ UNCHANGED <<oldEvents, reg>>
      /\ UNCHANGED <<there, newEvents, batch>>

Detach(o) ==
  /\ Call /\ o \in there /\ epslot[o] # NULL /\ reg[o] # {}
  /\ CtlDel(o)
  /\ oldEvents' = [oldEvents EXCEPT ![o] = newEvents[o]]
  /\ FreeEpollSlot(epslot[o])
  /\ epslot' = [epslot EXCEPT ![o] = NULL]
  /\ UNCHANGED <<there, newEvents>>

(* The destructor; the memory can then be that of another object.          *)
Delete_KeepsSlot(o) ==   \* mutant: the slot is not given back
  /\ Call /\ o \in there
  /\ there' = there \ {o}
  /\ CtlDel(o)
  /\ epslot' = [epslot EXCEPT ![o] = NULL]
  /\ UNCHANGED <<table, newEvents, oldEvents>>
Delete(o) ==
  /\ Call /\ o \in there
  /\ there' = there \ {o}
  /\ CtlDel(o)
  /\ IF epslot[o] = NULL THEN UNCHANGED table ELSE FreeEpollSlot(epslot[o])
  /\ epslot' = [epslot EXCEPT ![o] = NULL]
  /\ newEvents' = [newEvents EXCEPT ![o] = {}]
  /\ oldEvents' = [oldEvents EXCEPT ![o] = {}]

User(o) ==
  \/ New(o) \/ ApplyEvents(o) \/ Attach(o) \/ Detach(o) \/ Delete(o)
  \/ \E e \in Interest : Enable(o, e)

-----------------------------------------------------------------------------
(* epoll_wait reports some of the objects that epoll has, in some order.   *)
Event(o, events) ==
  LET r == CHOOSE r \in reg[o] : TRUE
  IN  [events |-> events, slot |-> r.slot, seq |-> r.seq, of |-> o, fate |-> "live"]

Reports ==
  {e \in Object \X (SUBSET (Interest \cup {"HUP"}) \ {{}}) :
     \E r \in reg[e[1]] : e[2] \subseteq r.events \cup {"HUP"}}

WaitPollerEvents ==
  /\ run.pc = "idle" /\ \A s \in Slot : seq[s] <= MaxSeq
  /\ \E n \in 1 .. maxPollers : \E f \in [1 .. n -> Reports] :
       /\ \A i, j \in 1 .. n : i # j => f[i][1] # f[j][1]
       /\ batch' = [i \in 1 .. n |-> Event(f[i][1], f[i][2])]
  /\ run' = [run EXCEPT !.pc = "next"]
  /\ UNCHANGED <<table, objects, reg>>

(* ProcessPollerEvents, for the event at the head of batch.                *)
Ev == Head(batch)

VerifyEvents == Ev.seq = seq[Ev.slot]

Leave == run' = [pc |-> IF batch' = <<>> THEN "idle" ELSE "next", calls |-> 0, p |-> {}]

Stale ==
  /\ run.pc = "next" /\ ~VerifyEvents
  /\ batch' = Tail(batch) /\ Leave
  /\ UNCHANGED <<table, objects, reg>>

Notify ==
  /\ run.pc = "next" /\ VerifyEvents
  /\ \E p \in poller[Ev.slot] :
       /\ newEvents' = [newEvents EXCEPT ![p] = oldEvents[p]]
       /\ run' = [pc |-> CASE "HUP" \in Ev.events -> "hup"
                           [] "IN" \in Ev.events  -> "in"
                           [] OTHER               -> "out",
                   calls |-> 0, p |-> {p}]
  /\ UNCHANGED <<table, there, oldEvents, epslot, reg, batch>>

(* A handler returns.  When it took its object from the slot, or does not  *)
(* return POLLER_SUCC, or is HangupNotify, the event is done with; ...     *)
Abandon ==
  /\ run.pc \in {"in", "out", "hup"}
  /\ batch' = Tail(batch) /\ Leave
  /\ UNCHANGED <<table, objects, reg>>

Attached == poller[Ev.slot] = run.p
ReturnSucc == run.pc \in {"in", "out"} /\ Attached

(* ... after InputNotify comes OutputNotify, ...                           *)
NotifyOut ==
  /\ ReturnSucc /\ run.pc = "in" /\ "OUT" \in Ev.events
  /\ run' = [run EXCEPT !.pc = "out", !.calls = 0]
  /\ UNCHANGED <<table, objects, reg, batch>>

(* ... and at last the interests the handlers set are applied.             *)
Finish ==
  /\ ReturnSucc /\ (run.pc = "in" => "OUT" \notin Ev.events)
  /\ UNCHANGED epslot
  /\ \E p \in run.p : Apply(p) /\ batch' = Tail(Applied(p))
  /\ Leave
  /\ UNCHANGED <<poller, freeSlotList, there, newEvents>>

ProcessPollerEvents == Stale \/ Notify \/ Abandon \/ NotifyOut \/ Finish

Next == WaitPollerEvents \/ ProcessPollerEvents \/ \E o \in Object : User(o)

Spec == Init /\ [][Next]_vars

-----------------------------------------------------------------------------
(* A slot is on the free list, once, or is the slot of one object that     *)
(* exists: no object is notified through a slot that was given up, and no  *)
(* slot is lost or given out twice.                                        *)
SlotsOwned ==
  /\ IsInjective(freeSlotList)
  /\ \A s \in Slot : s \in Range(freeSlotList) <=> poller[s] = {}
  /\ \A s \in Slot, o \in Object : o \in poller[s] <=> epslot[o] = s
  /\ \A o \in Object : epslot[o] # NULL => o \in there

(* What epoll has of an object carries the slot and the number the object  *)
(* has now, and the interests of oldEvents: otherwise VerifyEvents would   *)
(* drop all its events, now and later.                                     *)
Registered ==
  \A o \in Object : \A r \in reg[o] :
    /\ epslot[o] = r.slot
    /\ r.seq = seq[r.slot]
    /\ r.events = oldEvents[o]

(* VerifyEvents accepts exactly the events whose registration is what it   *)
(* was when epoll reported them, whatever handlers of earlier events of    *)
(* the batch did; the slot then has the object they are of.                *)
Verified ==
  \A i \in DOMAIN batch :
    /\ batch[i].fate = "live" <=> batch[i].seq = seq[batch[i].slot]
    /\ batch[i].fate = "live" => poller[batch[i].slot] = {batch[i].of}

(* An object is not notified by an event that was reported before it, or   *)
(* an object that was at its address, was detached (poller.cpp:345: "it    *)
(* has been checked whether the pointer is detached").                     *)
NoOldNotify ==
  [][run'.pc = "out" /\ run.pc = "in" => Ev.fate # "gone"]_vars

=============================================================================
