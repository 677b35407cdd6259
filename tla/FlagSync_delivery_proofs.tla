---------------------- MODULE FlagSync_delivery_proofs ----------------------
(***************************************************************************)
(* Proofs about FlagSync: that a revision names one configuration, and     *)
(* that no change is lost on its way to a client.                          *)
(*                                                                         *)
(*   OneDataOK      whatever says something of a flag - its row, an event, *)
(*                  a client, a snapshot - says the same at one revision   *)
(*   DeliveryInv    the latest a streaming client holds or may still hear  *)
(*                  of a flag is what the database has, or its stream ends *)
(*                                                                         *)
(* The latest of a set of states exists because stamps are bounded: that   *)
(* is well-founded induction on the naturals, cited as WFMin.              *)
(***************************************************************************)
EXTENDS FlagSync_proofs, WellFoundedInduction

USE DEF Revision

-----------------------------------------------------------------------------
(* A revision names one configuration.                                     *)

\* What a slot says about the data of a flag, and everything that says
\* something about f: its row, events under way, clients and snapshots.
Carries(s) == IF s.val = Absent THEN {} ELSE {[data |-> s.val.data, rev |-> s.rev]}
RowPair(f) ==
    IF row[f].data = Absent THEN {} ELSE {[data |-> row[f].data, rev |-> row[f].rev]}
Carriers(f) ==
    RowPair(f)
        \cup (UNION {Carries(SlotOf(m)) : m \in EventsOf(f)})
        \cup (UNION {Carries(view[c][f]) : c \in Clients})
        \cup (UNION {Carries(boot[c][f]) : c \in {b \in Clients : phase[b] = "boot"}})

\* The revisions of rows to come.
Drawn == {job[w].draw : w \in {v \in Writers : job[v].pc = "insert"}}

OneData(f) ==
    /\ \A a, b \in Carriers(f) : a.rev = b.rev => a.data = b.data
    /\ \A a \in Carriers(f) : a.rev \notin Drawn
OneDataOK == \A f \in Flags : OneData(f)

LEMMA CarrierMember ==
    ASSUME NEW f \in Flags
    PROVE  /\ RowPair(f) \subseteq Carriers(f)
           /\ \A m \in EventsOf(f) : Carries(SlotOf(m)) \subseteq Carriers(f)
           /\ \A c \in Clients : Carries(view[c][f]) \subseteq Carriers(f)
           /\ \A c \in Clients : phase[c] = "boot" => Carries(boot[c][f]) \subseteq Carriers(f)
BY DEF Carriers

\* What is said about f after a step, from what each place says.
LEMMA CarriersAfter ==
    ASSUME NEW f \in Flags, NEW N,
           RowPair(f)' \subseteq Carriers(f) \cup N,
           \A m \in EventsOf(f)' : Carries(SlotOf(m)) \subseteq Carriers(f) \cup N,
           \A c \in Clients : Carries(view'[c][f]) \subseteq Carriers(f) \cup N,
           \A c \in Clients : phase'[c] = "boot" => Carries(boot'[c][f]) \subseteq Carriers(f) \cup N
    PROVE  Carriers(f)' \subseteq Carriers(f) \cup N
<1>1. Carriers(f)' =
         RowPair(f)'
           \cup (UNION {Carries(SlotOf(m)) : m \in EventsOf(f)'})
           \cup (UNION {Carries(view'[c][f]) : c \in Clients})
           \cup (UNION {Carries(boot'[c][f]) : c \in {b \in Clients : phase'[b] = "boot"}})
  BY DEF Carriers, Carries, SlotOf
<1> HIDE DEF Carriers
<1> QED BY <1>1

\* Nothing carries a revision that has not been drawn.
LEMMA CarriersDrawn ==
    ASSUME IInv, NEW f \in Flags, NEW p \in Carriers(f)
    PROVE  p.rev \in Nat /\ p.rev <= seq
<1>t. /\ TypeOK /\ ClientsOK /\ EventsOK
      /\ seq \in Nat /\ last[f] \in Nat /\ last[f] <= 2 * seq + 1
      /\ row[f].data # Absent => 2 * row[f].rev <= last[f]
  BY HistoryFacts DEF IInv
<1>1. ASSUME NEW s \in Slot, p \in Carries(s), Stamp(s) <= last[f]
      PROVE  p.rev \in Nat /\ p.rev <= seq
  <2>1. p.rev = s.rev /\ s.val # Absent
    BY <1>1 DEF Carries
  <2> QED BY <1>1, <1>t, <2>1, StampValue
<1>2. CASE p \in RowPair(f)
  <2>1. p.rev = row[f].rev /\ row[f].data # Absent
    BY <1>2 DEF RowPair
  <2>2. row[f].rev \in Nat
    BY <1>t, BoundsAssumption DEF TypeOK
  <2> QED BY <1>t, <2>1, <2>2
<1>3. ASSUME NEW m \in EventsOf(f), p \in Carries(SlotOf(m)) PROVE p.rev \in Nat /\ p.rev <= seq
  <2>1. SlotOf(m) \in Slot
    BY <1>t, EventType DEF Change, SlotOf, Slot
  <2> QED BY <1>1, <1>3, <1>t, <2>1 DEF EventsOK
<1>4. ASSUME NEW c \in Clients, p \in Carries(view[c][f]) PROVE p.rev \in Nat /\ p.rev <= seq
  <2>1. view[c][f] \in Slot /\ seen[c][f] \in Nat /\ HoldsOK(c, f)
    BY <1>4, <1>t DEF TypeOK, ClientsOK
  <2>2. Stamp(view[c][f]) <= last[f]
    BY <1>t, <2>1, StampValue DEF HoldsOK
  <2> QED BY <1>1, <1>4, <2>1, <2>2
<1>5. ASSUME NEW c \in Clients, phase[c] = "boot", p \in Carries(boot[c][f])
      PROVE  p.rev \in Nat /\ p.rev <= seq
  <2>1. boot[c][f] \in Slot /\ Stamp(boot[c][f]) <= last[f]
    BY <1>5, <1>t DEF TypeOK, ClientsOK, HoldsOK
  <2> QED BY <1>1, <1>5, <2>1
<1> QED BY <1>2, <1>3, <1>4, <1>5 DEF Carriers

LEMMA DrawnKept == DrawsKept => Drawn' \subseteq Drawn
BY DEF Drawn, DrawsKept

LEMMA DrawnType ==
    ASSUME IInv
    PROVE  seq \in Nat /\ \A r \in Drawn : r \in Nat /\ r <= seq
<1>1. TypeOK /\ DrawsOK /\ seq \in Nat
  BY SeqType DEF IInv
<1> QED BY <1>1, BoundsAssumption DEF Drawn, DrawsOK, TypeOK, Job

\* The revision q.rev is nobody's: no carrier of f has it, and no row to come.
NewTo(f, q) == (\A a \in Carriers(f) : a.rev # q.rev) /\ q.rev \notin Drawn'

LEMMA FreshIsNew ==
    ASSUME IInv, NEW f \in Flags, NEW q, q.rev \in Nat, q.rev > seq, DrawsKept
    PROVE  NewTo(f, q)
<1>1. \A a \in Carriers(f) : a.rev # q.rev
  BY CarriersDrawn, DrawnType
<1>2. q.rev \notin Drawn'
  BY DrawnKept, DrawnType
<1> QED BY <1>1, <1>2 DEF NewTo

\* A step after which nothing new is said, or one new thing, at a new revision.
LEMMA OneMore ==
    ASSUME NEW f \in Flags, OneData(f), DrawsKept, NEW q, NewTo(f, q),
           Carriers(f)' \subseteq Carriers(f) \cup {q}
    PROVE  OneData(f)'
<1>1. Drawn' \subseteq Drawn
  BY DrawnKept
<1>2. \A a, b \in Carriers(f)' : a.rev = b.rev => a.data = b.data
  BY DEF OneData, NewTo
<1>3. \A a \in Carriers(f)' : a.rev \notin Drawn'
  BY <1>1 DEF OneData, NewTo
<1> QED BY <1>2, <1>3 DEF OneData

LEMMA NoMore ==
    ASSUME NEW f \in Flags, OneData(f), Carriers(f)' \subseteq Carriers(f),
           \A a \in Carriers(f) : a.rev \in Drawn' => a.rev \in Drawn
    PROVE  OneData(f)'
BY DEF OneData

\* Events move, clients take what they are sent.
LEMMA SaysNothingNew ==
    ASSUME NEW f \in Flags, OneData(f),
           \A a \in Carriers(f) : a.rev \in Drawn' => a.rev \in Drawn,
           row'[f] = row[f],
           \A m \in EventsOf(f)' : \E n \in EventsOf(f) : Carries(SlotOf(m)) = Carries(SlotOf(n)),
           \A c \in Clients : Carries(view'[c][f]) \subseteq Carriers(f),
           \A c \in Clients : phase'[c] = "boot" => Carries(boot'[c][f]) \subseteq Carriers(f)
    PROVE  OneData(f)'
<1>1. RowPair(f)' = RowPair(f)
  BY DEF RowPair
<1>2. Carriers(f)' \subseteq Carriers(f) \cup {}
  BY <1>1, CarrierMember, CarriersAfter
<1> QED BY <1>2, NoMore

\* Steps that bring no event and give no client anything.
LEMMA MovesSayNothing ==
    ASSUME NEW f \in Flags, OneData(f), UNCHANGED <<row, view>>,
           \A a \in Carriers(f) : a.rev \in Drawn' => a.rev \in Drawn,
           InFlight' \subseteq InFlight \cup Signals,
           \A c \in Clients : phase'[c] = "boot" => phase[c] = "boot" /\ boot'[c] = boot[c]
    PROVE  OneData(f)'
<1>1. \A m \in EventsOf(f)' : \E n \in EventsOf(f) : Carries(SlotOf(m)) = Carries(SlotOf(n))
  BY EventsAfter
<1>2. row'[f] = row[f]
  OBVIOUS
<1>3. \A c \in Clients : Carries(view'[c][f]) \subseteq Carriers(f)
  BY CarrierMember
<1>4. \A c \in Clients : phase'[c] = "boot" => Carries(boot'[c][f]) \subseteq Carriers(f)
  BY CarrierMember
<1> QED BY <1>1, <1>2, <1>3, <1>4, SaysNothingNew

\* The expansion of an event keeps its data.
LEMMA LoadingSaysNothing ==
    ASSUME IInv, NEW w \in Writers, LoadSegments(w), NEW f \in Flags, OneData(f)
    PROVE  OneData(f)'
<1> USE DEF dbVars, serverVars, connVars, sdkVars
<1> DEFINE Loaded(m) == [m EXCEPT !.val = Expand(m.val.data, segment)]
           N == {Loaded(m) : m \in job[w].todo}
<1>t. TypeOK
  BY DEF IInv
<1>1. ASSUME NEW m \in job[w].todo
      PROVE  /\ Loaded(m).type = m.type /\ Loaded(m).key = m.key
             /\ Carries(SlotOf(Loaded(m))) = Carries(SlotOf(m))
  <2>1. m \in Change /\ m.val \in Content /\ m.val # Absent
    <3>1. job[w] \in Job /\ job[w].pc = "expand"
      BY <1>t DEF LoadSegments, TypeOK
    <3>2. m \in Change /\ m.val # Absent
      BY <1>t, <3>1 DEF TypeOK, Job
    <3> QED BY <3>2 DEF Change
  <2>2. Expand(m.val.data, segment) # Absent /\ Expand(m.val.data, segment).data = m.val.data
    BY <1>t, <2>1, ExpandType DEF TypeOK, Content, Expand
  <2> QED BY <2>1, <2>2 DEF Change, SlotOf, Carries
<1>2. UNCHANGED <<row, view, inbox, rx, phase, boot>>
  BY DEF LoadSegments
<1>3. \A v \in Writers : job'[v].todo = IF v = w THEN N ELSE job[v].todo
  <2>1. job[w] \in Job
    BY <1>t DEF TypeOK
  <2>2. [job[w] EXCEPT !.pc = "publish", !.todo = N].todo = N
    BY <2>1 DEF Job
  <2>3. job' = [job EXCEPT ![w] = [job[w] EXCEPT !.pc = "publish", !.todo = N]]
    BY DEF LoadSegments
  <2> HIDE DEF N
  <2> QED BY <1>t, <2>2, <2>3 DEF TypeOK
<1>4. InFlight' \subseteq InFlight \cup N
  <2> HIDE DEF N
  <2> QED BY <1>2, <1>3, InFlightMember, InFlightAfter
<1>5. ASSUME NEW m \in EventsOf(f)'
      PROVE  \E n \in EventsOf(f) : Carries(SlotOf(m)) = Carries(SlotOf(n))
  <2>1. m \in InFlight \cup N /\ m.type = "change" /\ m.key = f
    BY <1>4 DEF EventsOf
  <2>2. CASE m \in InFlight
    BY <2>1, <2>2 DEF EventsOf
  <2>3. CASE m \in N
    <3>1. PICK n \in job[w].todo : m = Loaded(n)
      BY <2>3
    <3> HIDE DEF Loaded
    <3>2. n \in EventsOf(f)
      BY <1>1, <2>1, <3>1, InFlightMember DEF EventsOf
    <3> QED BY <1>1, <3>1, <3>2
  <2> QED BY <2>1, <2>2, <2>3
<1>6. DrawsKept
  <2> DEFINE J == [job[w] EXCEPT !.pc = "publish", !.todo = N]
  <2>1. job[w] \in Job /\ job' = [job EXCEPT ![w] = J]
    BY <1>t DEF LoadSegments, TypeOK
  <2>2. J.pc # "insert"
    <3> HIDE DEF N
    <3> QED BY <2>1 DEF Job
  <2> HIDE DEF J
  <2> QED BY <1>t, <2>1, <2>2, JobDraws
<1> QED BY <1>2, <1>5, <1>6, DrawnKept, CarrierMember, SaysNothingNew

\* Clients take a snapshot, apply it, or apply an event.
LEMMA ClientSaysNothing ==
    ASSUME IInv, NEW c \in Clients, ReadSnapshot(c) \/ Ready(c) \/ Receive(c),
           NEW f \in Flags, OneData(f)
    PROVE  OneData(f)'
<1> USE DEF dbVars, serverVars, connVars, sdkVars
<1>t. TypeOK /\ ReplayOK
  BY DEF IInv
<1>d. Drawn' \subseteq Drawn
  <2>1. UNCHANGED job
    BY DEF ReadSnapshot, Ready, Receive
  <2> QED BY <2>1, SameDraws, DrawnKept
<1>1. CASE ReadSnapshot(c)
  <2>1. /\ UNCHANGED <<row, view, job, inbox, rx>>
        /\ \A b \in Clients \ {c} : phase'[b] = phase[b] /\ boot'[b] = boot[b]
        /\ boot'[c] = [g \in Flags |-> DbSlot(g)]
    BY <1>1, <1>t DEF ReadSnapshot, TypeOK
  <2>2. EventsOf(f)' = EventsOf(f)
    BY <2>1 DEF EventsOf, InFlight
  <2>3. Carries(DbSlot(f)) = RowPair(f)
    <3>1. row[f].data # Absent => Expand(row[f].data, segment) # Absent
      BY <1>t, ExpandType DEF TypeOK
    <3> QED BY <3>1 DEF Carries, RowPair, DbSlot, Expand
  <2>4. boot'[c][f] = DbSlot(f)
    BY <2>1
  <2>5. \A b \in Clients : phase'[b] = "boot" => Carries(boot'[b][f]) \subseteq Carriers(f)
    BY <2>1, <2>3, <2>4, CarrierMember
  <2> QED BY <1>d, <2>1, <2>2, <2>5, CarrierMember, SaysNothingNew
<1>2. CASE Ready(c)
  <2>1. /\ UNCHANGED <<row, job, inbox, rx>>
        /\ \A b \in Clients \ {c} : /\ phase'[b] = phase[b] /\ boot'[b] = boot[b]
                                     /\ view'[b] = view[b]
        /\ phase[c] = "boot" /\ phase'[c] = "live" /\ todo[c] = {}
        /\ view'[c] = staged[c]
    BY <1>2, <1>t DEF Ready, TypeOK
  <2>2. EventsOf(f)' = EventsOf(f)
    BY <2>1 DEF EventsOf, InFlight
  <2>3. view'[c][f] = boot[c][f]
    BY <2>1, <1>t DEF ReplayOK
  <2>4. \A b \in Clients : Carries(view'[b][f]) \subseteq Carriers(f)
    BY <2>1, <2>3, CarrierMember
  <2>5. \A b \in Clients : phase'[b] = "boot" => Carries(boot'[b][f]) \subseteq Carriers(f)
    BY <2>1, CarrierMember
  <2> QED BY <1>d, <2>1, <2>2, <2>4, <2>5, SaysNothingNew
<1>3. CASE Receive(c)
  <2> DEFINE m == Head(rx[c])
  <2>1. /\ UNCHANGED <<row, job, inbox, phase, boot>>
        /\ rx[c] # <<>> /\ m.type = "change"
        /\ rx' = [rx EXCEPT ![c] = Tail(rx[c])]
        /\ Apply(c, m)
    BY <1>3 DEF Receive
  <2>2. m \in ToSet(rx[c]) /\ ToSet(Tail(rx[c])) \subseteq ToSet(rx[c]) /\ m \in Message \cup {Lagged}
    <3>1. rx[c] \in Seq(Message \cup {Lagged})
      BY <1>t DEF TypeOK
    <3>2. m \in Message \cup {Lagged}
      BY <2>1, <3>1, HeadTailProperties
    <3> QED BY <2>1, <3>1, <3>2, QueueSets
  <2>3. InFlight' \subseteq InFlight \cup Signals
    <3>1. \A b \in Clients : rx'[b] = IF b = c THEN Tail(rx[c]) ELSE rx[b]
      BY <2>1, <1>t DEF TypeOK
    <3> QED BY <2>1, <2>2, <3>1, InFlightMember, InFlightAfter
  <2> HIDE DEF m
  <2>4. m \in Change /\ m.key \in Flags /\ m \in EventsOf(m.key)
    <3>1. m \in Change
      BY <2>1, <2>2 DEF Message, Resync, Lagged
    <3> QED BY <2>1, <2>2, <3>1, InFlightMember DEF Change, EventsOf
  <2>5. ASSUME NEW b \in Clients PROVE Carries(view'[b][f]) \subseteq Carriers(f)
    <3>1. view'[b][f] = view[b][f] \/ (m.key = f /\ view'[b][f] = SlotOf(m))
      <4> DEFINE s == SlotOf(m)
                 k == m.key
      <4>1. UNCHANGED view \/ view' = [view EXCEPT ![c] = [view[c] EXCEPT ![k] = s]]
        BY <2>1 DEF Apply
      <4>2. view \in [Clients -> [Flags -> Slot]] /\ k \in Flags
        BY <1>t, <2>4 DEF TypeOK
      <4> HIDE DEF s, k
      <4>3. view'[b][f] = view[b][f] \/ (k = f /\ view'[b][f] = s)
        BY <4>1, <4>2
      <4> QED BY <4>3 DEF s, k
    <3> QED BY <2>4, <3>1, CarrierMember
  <2>6. \A n \in EventsOf(f)' : \E k \in EventsOf(f) : Carries(SlotOf(n)) = Carries(SlotOf(k))
    BY <2>3, EventsAfter
  <2>7. \A b \in Clients : phase'[b] = "boot" => Carries(boot'[b][f]) \subseteq Carriers(f)
    BY <2>1, CarrierMember
  <2> QED BY <1>d, <2>1, <2>5, <2>6, <2>7, SaysNothingNew
<1> QED BY <1>1, <1>2, <1>3

\* A transaction gives f at most one new event, for the row it writes.
LEMMA WriteSaysOneThing ==
    ASSUME NEW f \in Flags, OneData(f), DrawsKept, NEW q, NewTo(f, q),
           UNCHANGED <<view, phase, boot>>,
           RowPair(f)' \subseteq RowPair(f) \cup {q},
           \A m \in EventsOf(f)' : m \in EventsOf(f) \/ Carries(SlotOf(m)) \subseteq {q}
    PROVE  OneData(f)'
<1>1. \A m \in EventsOf(f)' : Carries(SlotOf(m)) \subseteq Carriers(f) \cup {q}
  BY CarrierMember
<1>2. /\ RowPair(f)' \subseteq Carriers(f) \cup {q}
      /\ \A c \in Clients : Carries(view'[c][f]) \subseteq Carriers(f) \cup {q}
      /\ \A c \in Clients : phase'[c] = "boot" => Carries(boot'[c][f]) \subseteq Carriers(f) \cup {q}
  BY CarrierMember
<1>3. Carriers(f)' \subseteq Carriers(f) \cup {q}
  BY <1>1, <1>2, CarriersAfter
<1> QED BY <1>3, OneMore

LEMMA ChangeCarries ==
    ASSUME NEW f, NEW v, NEW r
    PROVE  LET e == ChangeOf(f, [val |-> v, rev |-> r]) IN
           /\ e.key = f
           /\ Carries(SlotOf(e)) = IF v = Absent THEN {} ELSE {[data |-> v.data, rev |-> r]}
BY DEF ChangeOf, SlotOf, Carries

LEMMA UpsertCarries ==
    ASSUME NEW f, NEW d, NEW s, NEW r
    PROVE  Carries(SlotOf(ChangeOf(f, [val |-> Expand(d, s), rev |-> r])))
              \subseteq {[data |-> d, rev |-> r]}
<1> DEFINE v == Expand(d, s)
<1>1. v.data = d
  BY DEF Expand
<1> HIDE DEF v
<1>2. Carries(SlotOf(ChangeOf(f, [val |-> v, rev |-> r]))) \subseteq {[data |-> d, rev |-> r]}
  BY <1>1 DEF Carries, ChangeOf, SlotOf
<1> QED BY <1>2 DEF v

LEMMA WritesSayOneThing ==
    ASSUME IInv, NEW f \in Flags, OneData(f),
           \/ \E w \in Writers, g \in Flags, d \in Data : InsertFlag(w, g, d) \/ UpdateFlag(w, g, d)
           \/ \E w \in Writers, g \in Flags, old \in SUBSET Flags : DeleteFlag(w, g, old)
           \/ \E g \in Flags : ArchiveFlag(g)
           \/ \E w \in Writers, s \in Rules \cup {NoSegment} : CommitSegment(w, s)
    PROVE  OneData(f)'
<1> USE DEF dbVars, serverVars, connVars, sdkVars
<1>t. TypeOK /\ DrawsOK /\ seq \in Nat
  BY SeqType DEF IInv
<1>n. DrawsKept => NewTo(f, [data |-> row[f].data, rev |-> seq + 1])
  <2> DEFINE q == [data |-> row[f].data, rev |-> seq + 1]
  <2>1. q.rev \in Nat /\ q.rev > seq
    BY <1>t
  <2> HIDE DEF q
  <2> QED BY <2>1, FreshIsNew DEF q
<1>0. ASSUME NEW w \in Writers, NEW g \in Flags, NEW d \in Data, NEW r, StoreFlag(w, g, d, r),
             NewTo(f, [data |-> d, rev |-> r])
      PROVE  OneData(f)'
  <2> DEFINE e == ChangeOf(g, [val |-> Expand(d, NoSegment), rev |-> r])
             J == Working("expand", {e})
             q == [data |-> d, rev |-> r]
  <2>1. /\ job' = [job EXCEPT ![w] = J]
        /\ row'[f] = IF f = g THEN q ELSE row[f]
        /\ UNCHANGED <<inbox, rx>> /\ UNCHANGED <<view, phase, boot>>
    BY <1>0, <1>t DEF StoreFlag, TypeOK
  <2>2. e.key = g /\ Carries(SlotOf(e)) \subseteq {q}
    BY ChangeCarries, UpsertCarries
  <2>3. J.todo = {e} /\ J.pc = "expand"
    BY DEF Working
  <2> HIDE DEF e, J
  <2>4. EventsOf(f)' \subseteq EventsOf(f) \cup {m \in J.todo : m.key = f}
    BY <1>t, <2>1, JobEvents
  <2>5. RowPair(f)' \subseteq RowPair(f) \cup {q}
    BY <2>1 DEF RowPair
  <2>6. \A m \in EventsOf(f)' : m \in EventsOf(f) \/ Carries(SlotOf(m)) \subseteq {q}
    BY <2>2, <2>3, <2>4
  <2>7. DrawsKept
    BY <1>t, <2>1, <2>3, JobDraws
  <2>8. NewTo(f, q)
    BY <1>0
  <2> HIDE DEF q
  <2> QED BY <2>1, <2>5, <2>6, <2>7, <2>8, WriteSaysOneThing
<1>1. ASSUME NEW w \in Writers, NEW g \in Flags, NEW d \in Data,
             InsertFlag(w, g, d) \/ UpdateFlag(w, g, d)
      PROVE  OneData(f)'
  <2>1. CASE InsertFlag(w, g, d)
    <3> DEFINE r == job[w].draw
               q == [data |-> d, rev |-> r]
    <3>1. StoreFlag(w, g, d, r) /\ job[w].pc = "insert"
      BY <2>1 DEF InsertFlag
    <3>2. \A a \in Carriers(f) : a.rev # r
      BY <3>1 DEF OneData, Drawn
    <3>3. r \notin Drawn'
      <4>1. \A v \in Writers : job'[v].pc = "insert" => v # w /\ job'[v] = job[v]
        BY <1>t, <3>1 DEF StoreFlag, Working, TypeOK
      <4>2. \A v \in Writers : job'[v].pc = "insert" => job'[v].draw # job[w].draw
        BY <1>t, <3>1, <4>1 DEF DrawsOK
      <4> QED BY <4>2 DEF Drawn
    <3>4. NewTo(f, q)
      <4>1. q.rev = r
        OBVIOUS
      <4> HIDE DEF r, q
      <4> QED BY <3>2, <3>3, <4>1 DEF NewTo
    <3> HIDE DEF r
    <3> QED BY <1>0, <3>1, <3>4
  <2>2. CASE UpdateFlag(w, g, d)
    <3> DEFINE r == seq + 1
               q == [data |-> d, rev |-> r]
    <3>1. StoreFlag(w, g, d, r)
      BY <2>2 DEF UpdateFlag
    <3>2. DrawsKept
      BY <1>t, <3>1, JobDraws DEF StoreFlag, Working
    <3>3. q.rev \in Nat /\ q.rev > seq
      BY <1>t
    <3> HIDE DEF r
    <3>4. NewTo(f, q)
      <4> HIDE DEF q
      <4> QED BY <3>2, <3>3, FreshIsNew
    <3> QED BY <1>0, <3>1, <3>4
  <2> QED BY <1>1, <2>1, <2>2
<1>2. ASSUME NEW w \in Writers, NEW g \in Flags, NEW old \in SUBSET Flags, DeleteFlag(w, g, old)
      PROVE  OneData(f)'
  <2> DEFINE e == ChangeOf(g, [val |-> Absent, rev |-> row[g].rev])
             J == Working("publish", {e})
             q == [data |-> row[f].data, rev |-> seq + 1]
  <2>1. /\ job' = [job EXCEPT ![w] = J]
        /\ row'[f] = IF f = g THEN [data |-> Absent, rev |-> 0] ELSE row[f]
        /\ UNCHANGED <<inbox, rx>> /\ UNCHANGED <<view, phase, boot>>
    BY <1>2, <1>t DEF DeleteFlag, TypeOK
  <2>2. e.key = g /\ Carries(SlotOf(e)) = {}
    BY ChangeCarries
  <2>3. J.todo = {e} /\ J.pc = "publish"
    BY DEF Working
  <2> HIDE DEF e, J
  <2>4. EventsOf(f)' \subseteq EventsOf(f) \cup {m \in J.todo : m.key = f}
    BY <1>t, <2>1, JobEvents
  <2>5. RowPair(f)' \subseteq RowPair(f) \cup {q}
    BY <2>1 DEF RowPair
  <2>6. \A m \in EventsOf(f)' : m \in EventsOf(f) \/ Carries(SlotOf(m)) \subseteq {q}
    BY <2>2, <2>3, <2>4
  <2>7. DrawsKept
    BY <1>t, <2>1, <2>3, JobDraws
  <2>8. NewTo(f, q)
    BY <1>n, <2>7
  <2> HIDE DEF q
  <2> QED BY <2>1, <2>5, <2>6, <2>7, <2>8, WriteSaysOneThing
<1>3. ASSUME NEW g \in Flags, ArchiveFlag(g)
      PROVE  OneData(f)'
  <2> DEFINE q == [data |-> row[f].data, rev |-> seq + 1]
  <2>1. /\ UNCHANGED <<job, inbox, rx>> /\ UNCHANGED <<view, phase, boot>>
        /\ row' = [row EXCEPT ![g] = [row[g] EXCEPT !.rev = seq + 1]]
    BY <1>3 DEF ArchiveFlag
  <2>2. [row[f] EXCEPT !.rev = seq + 1].rev = seq + 1 /\ [row[f] EXCEPT !.rev = seq + 1].data = row[f].data
    <3>1. row[f] \in [data : Data \cup {Absent}, rev : Revision]
      BY <1>t DEF TypeOK
    <3> QED BY <3>1
  <2>3. row'[f] = row[f] \/ (row'[f].data = row[f].data /\ row'[f].rev = seq + 1)
    <3> DEFINE r == [row[f] EXCEPT !.rev = seq + 1]
               s == [row[g] EXCEPT !.rev = seq + 1]
    <3>1. f = g => r = s
      OBVIOUS
    <3>2. row' = [row EXCEPT ![g] = s] /\ DOMAIN row = Flags
      BY <1>t, <2>1 DEF TypeOK
    <3> HIDE DEF r, s
    <3>3. row'[f] = row[f] \/ row'[f] = r
      BY <3>1, <3>2
    <3> QED BY <2>2, <3>3 DEF r
  <2>4. EventsOf(f)' = EventsOf(f)
    BY <2>1 DEF EventsOf, InFlight
  <2>5. RowPair(f)' \subseteq RowPair(f) \cup {q}
    BY <2>3 DEF RowPair
  <2>7. DrawsKept /\ NewTo(f, q)
    BY <1>n, <2>1, SameDraws
  <2> HIDE DEF q
  <2> QED BY <2>1, <2>4, <2>5, <2>7, WriteSaysOneThing
<1>4. ASSUME NEW w \in Writers, NEW s \in Rules \cup {NoSegment}, CommitSegment(w, s)
      PROVE  OneData(f)'
  <2> DEFINE users == {g \in Flags : row[g].data \in Targeted}
  <2>1. /\ UNCHANGED <<inbox, rx>> /\ UNCHANGED <<view, phase, boot>>
        /\ Cardinality(users) \in Nat
    <3>1. IsFiniteSet(users)
      BY FlagsAssumption, FS_Subset
    <3> QED BY <1>4, <3>1, FS_CardinalityType DEF CommitSegment
  <2>2. PICK rank \in Rankings(users) :
          /\ row' = [g \in Flags |->
                       IF g \in users
                         THEN [data |-> row[g].data, rev |-> seq + rank[g]]
                         ELSE row[g]]
          /\ job' = [job EXCEPT ![w] =
                       Working(IF users = {} THEN "idle" ELSE "publish",
                               {ChangeOf(g, [val |-> Expand(row[g].data, s),
                                             rev |-> seq + rank[g]]) : g \in users})]
    BY <1>4 DEF CommitSegment
  <2> DEFINE e(g) == ChangeOf(g, [val |-> Expand(row[g].data, s), rev |-> seq + rank[g]])
             J == Working(IF users = {} THEN "idle" ELSE "publish", {e(g) : g \in users})
  <2>3. job' = [job EXCEPT ![w] = J]
    BY <2>2
  <2>4. EventsOf(f)' \subseteq EventsOf(f) \cup {m \in J.todo : m.key = f}
    <3> HIDE DEF J
    <3> QED BY <1>t, <2>1, <2>3, JobEvents
  <2>5. J.todo = {e(g) : g \in users} /\ \A g \in users : e(g).key = g
    BY ChangeCarries DEF Working
  <2>8. DrawsKept
    <3>1. J.pc # "insert"
      BY DEF Working
    <3> HIDE DEF J
    <3> QED BY <1>t, <2>3, <3>1, JobDraws
  <2>6. CASE f \in users
    <3> DEFINE q == [data |-> row[f].data, rev |-> seq + rank[f]]
    <3>1. row'[f] = q
      BY <2>2, <2>6
    <3>2. Carries(SlotOf(e(f))) \subseteq {q}
      BY UpsertCarries
    <3>3. q.rev \in Nat /\ q.rev > seq
      <4>1. rank[f] \in 1 .. Cardinality(users)
        BY <2>6 DEF Rankings
      <4> HIDE DEF users
      <4> QED BY <1>t, <2>1, <4>1
    <3>4. RowPair(f)' \subseteq RowPair(f) \cup {q}
      BY <3>1 DEF RowPair
    <3> HIDE DEF e, J, users, q
    <3>5. \A m \in EventsOf(f)' : m \in EventsOf(f) \/ m = e(f)
      BY <2>4, <2>5
    <3>6. NewTo(f, q)
      BY <2>8, <3>3, FreshIsNew
    <3> QED BY <2>1, <2>8, <3>2, <3>4, <3>5, <3>6, WriteSaysOneThing
  <2>7. CASE f \notin users
    <3>1. row'[f] = row[f]
      BY <2>2, <2>7
    <3>2. RowPair(f)' = RowPair(f)
      BY <3>1 DEF RowPair
    <3> HIDE DEF e, J, users
    <3>3. EventsOf(f)' \subseteq EventsOf(f)
      BY <2>4, <2>5, <2>7
    <3> DEFINE q == [data |-> row[f].data, rev |-> seq + 1]
    <3>4. NewTo(f, q)
      BY <1>n, <2>8
    <3> HIDE DEF q
    <3> QED BY <2>1, <2>8, <3>2, <3>3, <3>4, WriteSaysOneThing
  <2> QED BY <2>6, <2>7
<1> QED BY <1>1, <1>2, <1>3, <1>4

\* A handler draws the next revision, or none.
LEMMA HandlerDraws ==
    ASSUME IInv, NEW w \in Writers,
           \/ \E m \in job[w].todo : Publish(w, m) \/ PublishFails(w, m) \/ PublishGivesUp(w, m)
           \/ LoadSegments(w) \/ LoadSegmentsFails(w) \/ AbandonRequest(w)
           \/ DrawDefault(w) \/ Rollback(w)
    PROVE  Drawn' \subseteq Drawn \cup {seq + 1}
<1>t. job \in [Writers -> Job]
  BY DEF IInv, TypeOK
<1>1. CASE DrawDefault(w)
  <2>1. \A v \in Writers : IF v = w THEN job'[v].draw = seq + 1 ELSE job'[v] = job[v]
    BY <1>1, <1>t DEF DrawDefault, Working
  <2> QED BY <2>1 DEF Drawn
<1>2. CASE ~DrawDefault(w)
  <2>1. \A v \in Writers : v # w => job'[v] = job[v]
    BY <1>2, <1>t DEF Publish, PublishFails, PublishGivesUp, Finished, LoadSegments,
                      LoadSegmentsFails, AbandonRequest, Rollback
  <2>2. job'[w].pc # "insert"
    <3>1. LoadSegments(w) \/ LoadSegmentsFails(w) => job'[w].pc = "publish"
      BY <1>t DEF LoadSegments, LoadSegmentsFails, Job
    <3>2. AbandonRequest(w) \/ Rollback(w) => job'[w].pc = "idle"
      BY <1>t DEF AbandonRequest, Rollback, NoJob, Working
    <3>3. \A m : PublishFails(w, m) => job'[w].pc = "publish"
      BY <1>t DEF PublishFails, Job
    <3>4. \A m : Publish(w, m) \/ PublishGivesUp(w, m) => job'[w].pc \in {"idle", "publish"}
      BY <1>t DEF Publish, PublishGivesUp, Finished, Working
    <3> QED BY <1>2, <3>1, <3>2, <3>3, <3>4
  <2> QED BY <2>1, <2>2 DEF Drawn
<1> QED BY <1>1, <1>2

LEMMA OneDataNext ==
    ASSUME IInv, OneDataOK, [Next]_vars
    PROVE  OneDataOK'
<1> USE DEF dbVars, serverVars, connVars, sdkVars
<1>t. TypeOK' /\ ReplayOK
  BY NextTypeOK DEF IInv
<1> SUFFICES ASSUME NEW f \in Flags PROVE OneData(f)'
  BY DEF OneDataOK
<1>f. OneData(f)
  BY DEF OneDataOK
<1>1. CASE \/ \E w \in Writers, g \in Flags, d \in Data : InsertFlag(w, g, d) \/ UpdateFlag(w, g, d)
           \/ \E w \in Writers, g \in Flags, old \in SUBSET Flags : DeleteFlag(w, g, old)
           \/ \E g \in Flags : ArchiveFlag(g)
           \/ \E w \in Writers, s \in Rules \cup {NoSegment} : CommitSegment(w, s)
  BY <1>1, <1>f, WritesSayOneThing
<1>2. ASSUME NEW w \in Writers,
             \/ \E m \in job[w].todo : Publish(w, m) \/ PublishFails(w, m) \/ PublishGivesUp(w, m)
             \/ LoadSegments(w) \/ LoadSegmentsFails(w) \/ AbandonRequest(w)
             \/ DrawDefault(w) \/ Rollback(w)
      PROVE  OneData(f)'
  <2>1. CASE LoadSegments(w)
    BY <1>f, <2>1, LoadingSaysNothing
  <2>2. CASE ~LoadSegments(w)
    <3>1. InFlight' \subseteq InFlight \cup Signals
      BY <1>2, <1>t, <2>2, HandlerMoves
    <3>2. UNCHANGED <<row, view>> /\ UNCHANGED <<phase, boot>>
      BY <1>2 DEF Publish, PublishFails, PublishGivesUp, LoadSegments, LoadSegmentsFails,
                  AbandonRequest, DrawDefault, Rollback, Missed
    <3>3. Drawn' \subseteq Drawn \cup {seq + 1}
      BY <1>2, HandlerDraws
    <3>4. \A a \in Carriers(f) : a.rev \in Drawn' => a.rev \in Drawn
      BY <3>3, CarriersDrawn, DrawnType
    <3> QED BY <1>f, <3>1, <3>2, <3>4, MovesSayNothing
  <2> QED BY <2>1, <2>2
<1>3. ASSUME NEW i \in Instances, Server(i)
      PROVE  OneData(f)'
  <2>1. InFlight' \subseteq InFlight \cup Signals
    BY <1>3, <1>t, ServerMoves DEF Server
  <2>2. UNCHANGED <<row, view>>
        /\ \/ UNCHANGED <<phase, boot>>
           \/ Closed({c \in Clients : at[c] = i})
    BY <1>3 DEF Server, ResyncPublish, ResyncClear, ResyncFails, Subscribe, SubscriptionDrops,
                Forward, Crash, Missed
  <2>3. \A c \in Clients : phase'[c] = "boot" => phase[c] = "boot" /\ boot'[c] = boot[c]
    BY <1>t, <2>2, ReplayClosed
  <2>4. Drawn' \subseteq Drawn
    <3>1. DrawsKept
      BY <1>3 DEF Server, ResyncPublish, ResyncClear, ResyncFails, Subscribe, SubscriptionDrops,
                  Forward, Crash, DrawsKept, NoJob, Working
    <3> QED BY <3>1, DrawnKept
  <2> QED BY <1>f, <2>1, <2>2, <2>3, <2>4, MovesSayNothing
<1>4. ASSUME NEW c \in Clients, Client(c)
      PROVE  OneData(f)'
  <2>1. CASE \/ \E i \in Instances : Connect(c, i)
             \/ \E g \in Flags : Replay(c, g)
             \/ EndStream(c) \/ ConnectionDrops(c)
    <3>1. InFlight' \subseteq InFlight \cup Signals
      BY <1>t, <2>1, ConnectionMoves
    <3>2. UNCHANGED <<row, view>>
      BY <2>1 DEF Connect, Replay, EndStream, ConnectionDrops
    <3>3. \A b \in Clients : phase'[b] = "boot" => phase[b] = "boot" /\ boot'[b] = boot[b]
      <4>1. CASE EndStream(c) \/ ConnectionDrops(c)
        <5>1. Closed({c})
          BY <4>1 DEF EndStream, ConnectionDrops
        <5> QED BY <1>t, <5>1, ReplayClosed
      <4>2. CASE \E g \in Flags : Replay(c, g)
        BY <4>2 DEF Replay
      <4>3. CASE \E i \in Instances : Connect(c, i)
        <5>1. boot' = boot /\ phase' = [phase EXCEPT ![c] = "subscribed"] /\ DOMAIN phase = Clients
          BY <4>3 DEF Connect, IInv, TypeOK
        <5> QED BY <5>1
      <4> QED BY <2>1, <4>1, <4>2, <4>3
    <3>4. UNCHANGED job
      BY <2>1 DEF Connect, Replay, EndStream, ConnectionDrops
    <3> QED BY <1>f, <3>1, <3>2, <3>3, <3>4, SameDraws, DrawnKept, MovesSayNothing
  <2>2. CASE ReadSnapshot(c) \/ Ready(c) \/ Receive(c)
    BY <1>f, <2>2, ClientSaysNothing
  <2> QED BY <1>4, <2>1, <2>2 DEF Client
<1>5. CASE UNCHANGED vars
  <2>1. UNCHANGED <<row, view, job, inbox, rx, phase, boot>>
    BY <1>5 DEF vars
  <2>2. InFlight' \subseteq InFlight \cup Signals
    BY <2>1 DEF InFlight
  <2> QED BY <1>f, <2>1, <2>2, SameDraws, DrawnKept, MovesSayNothing
<1> QED
  BY <1>1, <1>2, <1>3, <1>4, <1>5
  DEF Next, Write, Emit, CreateFlag, PatchFlag, PromoteFlag, UpsertFlag, CreateSegment,
      PatchSegment, DeleteSegment

LEMMA OneDataInit == Init => OneDataOK
<1> SUFFICES ASSUME Init, NEW f \in Flags PROVE Carriers(f) = {}
  BY DEF OneDataOK, OneData
<1>1. InFlight = {}
  <2>1. ToSet(<<>>) = {}
    BY DEF ToSet
  <2>2. /\ \A w \in Writers : job[w].todo = {}
        /\ \A i \in Instances : inbox[i] = <<>>
        /\ \A c \in Clients : rx[c] = <<>>
    BY DEF Init, NothingUnderWay, NoJob, Working
  <2> QED BY <2>1, <2>2 DEF InFlight
<1>2. EventsOf(f) = {}
  BY <1>1 DEF EventsOf
<1>3. RowPair(f) = {} /\ \A c \in Clients : Carries(view[c][f]) = {} /\ phase[c] # "boot"
  BY DEF Init, NothingUnderWay, RowPair, Carries, NoFlags, Unknown
<1> QED BY <1>2, <1>3 DEF Carriers

\* A revision names one configuration: whoever shows a flag at the revision the
\* database has, or another client shows, shows the same data, whatever fails.
THEOREM OneRevisionOneConfiguration == Spec => []RevisionNamesData
<1>1. OneDataOK => RevisionNamesData
  <2> SUFFICES ASSUME OneDataOK, NEW c \in Clients, NEW f \in Flags, view[c][f].val # Absent
               PROVE  /\ row[f].data # Absent /\ view[c][f].rev = row[f].rev
                            => view[c][f].val.data = row[f].data
                      /\ \A b \in Clients :
                            view[b][f].val # Absent /\ view[c][f].rev = view[b][f].rev
                              => view[c][f].val.data = view[b][f].val.data
    BY DEF RevisionNamesData
  <2>1. OneData(f)
    BY DEF OneDataOK
  <2>2. ASSUME NEW b \in Clients, view[b][f].val # Absent
        PROVE  [data |-> view[b][f].val.data, rev |-> view[b][f].rev] \in Carriers(f)
    BY <2>2, CarrierMember DEF Carries
  <2>3. row[f].data # Absent => [data |-> row[f].data, rev |-> row[f].rev] \in Carriers(f)
    BY CarrierMember DEF RowPair
  <2> QED BY <2>1, <2>2, <2>3 DEF OneData
<1>2. IInv /\ OneDataOK /\ [Next]_vars => OneDataOK'
  BY OneDataNext
<1> QED BY <1>1, <1>2, OneDataInit, Invariant, PTL DEF Spec

-----------------------------------------------------------------------------
(* What is under way to a client.                                          *)

\* The events handler job j will publish, if it reads the segments s.
ComingOf(j, s) ==
    IF j.pc = "expand" THEN {[m EXCEPT !.val = Expand(m.val.data, s)] : m \in j.todo}
                       ELSE j.todo

\* The states of flag f that the messages of S bring.
Of(S, f) == {SlotOf(m) : m \in {n \in S : n.type = "change" /\ n.key = f}}

Jobs == UNION {ComingOf(job[w], segment) : w \in Writers}
Queued(c) == ToSet(rx[c]) \cup ToSet(inbox[at[c]])
Everywhere ==
    Jobs \cup (UNION {ToSet(inbox[i]) : i \in Instances}) \cup (UNION {ToSet(rx[c]) : c \in Clients})

\* What client c holds, or may still hear, of flag f on its stream.
Heard(c, f) == {Held(c)[f]} \cup Of(Queued(c) \cup Jobs, f)

\* The stream of client c ends before long, and with a new one comes a snapshot.
StreamEnds(c) ==
    \/ sub[at[c]] = "down"
    \/ \E i \in Instances : resync[i] = "pending"
    \/ \E m \in Queued(c) : m.type # "change"

\* The latest of what a client holds or hears is what the database has.
LatestRight(c, f) ==
    \A s \in Heard(c, f) :
        (\A t \in Heard(c, f) : Stamp(t) <= Stamp(s)) => s.val = DbSlot(f).val

Streams(c) == phase[c] \in {"boot", "live"}
Delivered(c, f) == Streams(c) => StreamEnds(c) \/ LatestRight(c, f)

\* An event that brings the revision of the row brings what the row says.
NamesRow(f) ==
    row[f].data # Absent =>
        \A s \in Of(Everywhere, f) :
            s.val # Absent /\ s.rev = row[f].rev => s.val = DbSlot(f).val

ServersOK ==
    /\ \A i \in Instances : resync[i] # "sent"
    /\ \A w \in Writers : job[w].pc \in {"idle", "insert"} => job[w].todo = {}
    /\ \A c \in Clients : phase[c] # "closed" => at[c] \in Instances /\ sub[at[c]] # "never"

\* The faults whose effect no client can tell, and no later change undoes, do not
\* happen.
Repaired == "early_connect" \notin Faults /\ "late_clear" \notin Faults

DeliveryInv ==
    /\ ServersOK
    /\ \A f \in Reliable : NamesRow(f)
    /\ \A c \in Clients, f \in Reliable : Delivered(c, f)

-----------------------------------------------------------------------------
LEMMA OfUnion ==
    ASSUME NEW S, NEW T, NEW f
    PROVE  /\ Of(S \cup T, f) = Of(S, f) \cup Of(T, f)
           /\ S \subseteq T => Of(S, f) \subseteq Of(T, f)
           /\ S \subseteq T \cup Signals => Of(S, f) \subseteq Of(T, f)
<1>1. \A m \in Signals : m.type # "change"
  BY DEF Signals, Resync, Lagged
<1> QED BY <1>1 DEF Of

LEMMA OfSame ==
    ASSUME NEW S, NEW T, NEW f, S \subseteq T \cup Signals, T \subseteq S \cup Signals
    PROVE  Of(S, f) = Of(T, f)
<1>1. Of(S, f) \subseteq Of(T, f) /\ Of(T, f) \subseteq Of(S, f)
  BY OfUnion
<1> QED BY <1>1

LEMMA ComingType ==
    ASSUME TypeOK, NEW w \in Writers, NEW s \in Rules \cup {NoSegment},
           NEW m \in ComingOf(job[w], s)
    PROVE  /\ m \in Change
           /\ \E n \in job[w].todo : /\ n \in Change /\ m.key = n.key /\ m.rev = n.rev
                                     /\ (m.val = Absent <=> n.val = Absent)
<1>t. job[w] \in Job /\ job[w].todo \subseteq Change
  BY DEF TypeOK, Job
<1>1. CASE job[w].pc = "expand"
  <2>1. PICK n \in job[w].todo : m = [n EXCEPT !.val = Expand(n.val.data, s)]
    BY <1>1 DEF ComingOf
  <2>2. n \in Change /\ n.val # Absent /\ n.val \in Content
    BY <1>1, <1>t DEF TypeOK, Change
  <2>3. Expand(n.val.data, s) \in Content /\ Expand(n.val.data, s) # Absent
    BY <2>2, ExpandType DEF Content
  <2> QED BY <2>1, <2>2, <2>3 DEF Change
<1>2. CASE job[w].pc # "expand"
  BY <1>2, <1>t DEF ComingOf
<1> QED BY <1>1, <1>2

\* What is under way is no later than what is committed.
LEMMA EverywhereType ==
    ASSUME IInv, NEW f \in Flags, NEW s \in Of(Everywhere, f)
    PROVE  /\ s \in Slot /\ s.rev # 0 /\ Stamp(s) \in Nat /\ Stamp(s) <= last[f]
           /\ EventsOf(f) # {}
<1>t. TypeOK /\ EventsOK /\ segment \in Rules \cup {NoSegment}
  BY DEF IInv, TypeOK
<1>1. PICK m \in Everywhere : m.type = "change" /\ m.key = f /\ s = SlotOf(m)
  BY DEF Of
<1>2. ASSUME m \in InFlight
      PROVE  /\ m \in Change /\ m.rev # 0 /\ Stamp(s) <= last[f] /\ EventsOf(f) # {}
  <2>1. m \in EventsOf(f)
    BY <1>1, <1>2 DEF EventsOf
  <2> QED BY <1>1, <1>t, <2>1, EventType DEF EventsOK
<1>3. ASSUME NEW w \in Writers, m \in ComingOf(job[w], segment)
      PROVE  /\ m \in Change /\ m.rev # 0 /\ Stamp(s) <= last[f] /\ EventsOf(f) # {}
  <2>1. PICK n \in job[w].todo :
           n \in Change /\ m.key = n.key /\ m.rev = n.rev /\ (m.val = Absent <=> n.val = Absent)
    BY <1>3, <1>t, ComingType
  <2>2. n \in EventsOf(f)
    BY <1>1, <2>1, InFlightMember DEF EventsOf, Change
  <2>3. Stamp(s) = Stamp(SlotOf(n))
    BY <1>1, <2>1 DEF Stamp, SlotOf
  <2> QED BY <1>3, <1>t, <2>1, <2>2, <2>3, ComingType DEF EventsOK
<1>4. m \in Change /\ m.rev # 0 /\ Stamp(s) <= last[f] /\ EventsOf(f) # {}
  BY <1>1, <1>2, <1>3, InFlightMember DEF Everywhere, Jobs
<1>5. s \in Slot /\ s.rev = m.rev
  BY <1>1, <1>4 DEF Change, SlotOf, Slot
<1> QED BY <1>4, <1>5, StampValue

LEMMA HeardType ==
    ASSUME IInv, NEW c \in Clients, NEW f \in Flags, Streams(c), at[c] \in Instances
    PROVE  /\ Of(Queued(c) \cup Jobs, f) \subseteq Of(Everywhere, f)
           /\ \A s \in Heard(c, f) : s \in Slot /\ Stamp(s) \in Nat /\ Stamp(s) <= last[f]
           /\ Held(c)[f].rev = 0 => Held(c)[f] = Unknown
<1>1. Queued(c) \cup Jobs \subseteq Everywhere
  BY DEF Queued, Everywhere
<1>2. Of(Queued(c) \cup Jobs, f) \subseteq Of(Everywhere, f)
  BY <1>1, OfUnion
<1>3. /\ Held(c)[f] \in Slot /\ Stamp(Held(c)[f]) \in Nat /\ Stamp(Held(c)[f]) <= last[f]
      /\ Held(c)[f].rev = 0 => Held(c)[f] = Unknown
  <2>t. /\ view[c][f] \in Slot /\ boot[c][f] \in Slot
        /\ last[f] \in Nat /\ seen[c][f] \in Nat /\ HoldsOK(c, f)
    BY DEF IInv, TypeOK, ClientsOK
  <2>1. CASE phase[c] = "live"
    <3>1. Held(c)[f] = view[c][f]
      BY <2>1 DEF Held
    <3> QED BY <2>t, <3>1, StampValue DEF HoldsOK
  <2>2. CASE phase[c] = "boot"
    <3>1. Held(c)[f] = boot[c][f]
      BY <2>2 DEF Held
    <3> QED BY <2>2, <2>t, <3>1, StampValue DEF HoldsOK
  <2> QED BY <2>1, <2>2 DEF Streams
<1> QED BY <1>2, <1>3, EverywhereType DEF Heard

\* Of several states of a flag that are committed, one is the latest.
LEMMA LatestExists ==
    ASSUME NEW S, S # {}, NEW n \in Nat, \A s \in S : Stamp(s) \in Nat /\ Stamp(s) <= n
    PROVE  \E s \in S : \A t \in S : Stamp(t) <= Stamp(s)
<1> DEFINE T == {n - Stamp(s) : s \in S}
<1>1. T \subseteq Nat /\ T # {}
  OBVIOUS
<1>2. PICK x \in T : \A y \in T : ~(<<y, x>> \in OpToRel(<, Nat))
  <2> HIDE DEF T
  <2> QED BY <1>1, WFMin, NatLessThanWellFounded, Zenon
<1>3. \A y \in T : ~(y < x)
  <2> HIDE DEF T
  <2> QED BY <1>1, <1>2 DEF OpToRel
<1>4. PICK s \in S : x = n - Stamp(s)
  OBVIOUS
<1>5. ASSUME NEW t \in S PROVE Stamp(t) <= Stamp(s)
  <2>1. ~(n - Stamp(t) < n - Stamp(s))
    BY <1>3, <1>4
  <2> QED BY <2>1
<1> QED BY <1>5

\* The rule of the SDK, by the position in the history.
LEMMA StaleByStamp ==
    ASSUME NEW h \in Slot, NEW m \in Change, Stamp(h) <= Stamp(SlotOf(m))
    PROVE  ~IsStale(h, m)
<1>1. SlotOf(m) \in Slot /\ SlotOf(m).rev = m.rev /\ SlotOf(m).val = m.val
  BY DEF Change, SlotOf, Slot
<1>2. h.rev \in Nat /\ Stamp(h) = (IF h.val = Absent THEN 2 * h.rev + 1 ELSE 2 * h.rev)
  BY StampValue
<1>3. m.rev \in Nat /\ Stamp(SlotOf(m)) = (IF m.val = Absent THEN 2 * m.rev + 1 ELSE 2 * m.rev)
  BY <1>1, StampValue
<1> QED BY <1>2, <1>3 DEF IsStale

LEMMA DeliveredIsOnItsWay ==
    ASSUME IInv, DeliveryInv
    PROVE  NothingLost
<1> SUFFICES ASSUME NEW c \in Clients, NEW f \in Reliable, Streams(c), ~StreamEnds(c),
                    Held(c)[f].val # DbSlot(f).val
             PROVE  \/ \E m \in ToSet(rx[c]) \cup ToSet(inbox[at[c]]) : Repairs(m, f, Held(c)[f])
                    \/ \E w \in Writers : \E m \in job[w].todo :
                          Repairs(IF job[w].pc = "expand"
                                    THEN [m EXCEPT !.val = Expand(m.val.data, segment)] ELSE m,
                                  f, Held(c)[f])
  BY DEF NothingLost, OnItsWay, Streams, StreamEnds, Queued
<1>1. LatestRight(c, f) /\ at[c] \in Instances /\ f \in Flags
  BY DEF DeliveryInv, ServersOK, Delivered, Streams, Reliable
<1>2. PICK s \in Heard(c, f) : \A t \in Heard(c, f) : Stamp(t) <= Stamp(s)
  <2>1. last[f] \in Nat /\ Heard(c, f) # {}
    BY <1>1 DEF IInv, TypeOK, Heard
  <2>2. \A s \in Heard(c, f) : Stamp(s) \in Nat /\ Stamp(s) <= last[f]
    BY <1>1, HeardType
  <2> QED BY <2>1, <2>2, LatestExists
<1>3. s.val = DbSlot(f).val
  BY <1>1, <1>2 DEF LatestRight
<1>4. PICK m \in Queued(c) \cup Jobs : m.type = "change" /\ m.key = f /\ s = SlotOf(m)
  BY <1>3 DEF Heard, Of
<1>5. m \in Change
  <2>1. s \in Of(Everywhere, f)
    BY <1>1, <1>4, HeardType DEF Of
  <2>2. ASSUME NEW w \in Writers, m \in ComingOf(job[w], segment) PROVE m \in Change
    BY <2>2, ComingType DEF IInv, TypeOK
  <2>3. CASE m \in Queued(c)
    <3>1. m \in EventsOf(f)
      BY <1>1, <1>4, <2>3, InFlightMember DEF Queued, EventsOf
    <3> QED BY <1>1, <3>1, EventType DEF IInv
  <2> QED BY <2>2, <2>3 DEF Jobs
<1>6. Repairs(m, f, Held(c)[f])
  <2>1. Held(c)[f] \in Heard(c, f)
    BY DEF Heard
  <2>2. Held(c)[f] \in Slot /\ Stamp(Held(c)[f]) <= Stamp(SlotOf(m))
    BY <1>1, <1>2, <1>4, <2>1, HeardType
  <2>3. m.val = DbSlot(f).val
    BY <1>3, <1>4 DEF SlotOf
  <2> QED BY <1>4, <1>5, <2>2, <2>3, StaleByStamp DEF Repairs
<1>7. CASE m \in Queued(c)
  BY <1>6, <1>7 DEF Queued
<1>8. CASE m \in Jobs
  <2>1. PICK w \in Writers : m \in ComingOf(job[w], segment)
    BY <1>8 DEF Jobs
  <2>2. PICK n \in job[w].todo :
           m = IF job[w].pc = "expand" THEN [n EXCEPT !.val = Expand(n.val.data, segment)] ELSE n
    BY <2>1 DEF ComingOf
  <2> QED BY <1>6, <2>2
<1> QED BY <1>4, <1>7, <1>8

-----------------------------------------------------------------------------
(* How what is under way may change.                                       *)

\* What t brings after a step is what s brought before it, and if s brought v,
\* so does t.
Kin(s, t, v) ==
    /\ t.rev = s.rev
    /\ t.val = Absent <=> s.val = Absent
    /\ s.val = v => t.val = v

LEMMA KinStamp ==
    ASSUME NEW s, NEW t, NEW v, Kin(s, t, v)
    PROVE  Stamp(t) = Stamp(s)
BY DEF Kin, Stamp

\* A stream on which nothing late is lost, and nothing is added.
LEMMA StreamKept ==
    ASSUME IInv, DeliveryInv, NEW c \in Clients, NEW f \in Reliable,
           Streams(c)' => Streams(c),
           StreamEnds(c) => StreamEnds(c)',
           \/ StreamEnds(c)'
           \/ /\ DbSlot(f)'.val = DbSlot(f).val
              /\ \A t \in Heard(c, f)' : \E s \in Heard(c, f) : Kin(s, t, DbSlot(f).val)
              /\ \A s \in Heard(c, f) : \E t \in Heard(c, f)' : Stamp(s) <= Stamp(t)
    PROVE  Delivered(c, f)'
<1> SUFFICES ASSUME Streams(c)', ~StreamEnds(c)' PROVE LatestRight(c, f)'
  BY DEF Delivered
<1>1. Streams(c) /\ LatestRight(c, f) /\ at[c] \in Instances /\ f \in Flags
  BY DEF DeliveryInv, Delivered, ServersOK, Streams, Reliable
<1>2. ASSUME NEW t \in Heard(c, f)', \A u \in Heard(c, f)' : Stamp(u) <= Stamp(t)
      PROVE  t.val = DbSlot(f)'.val
  <2>1. PICK s \in Heard(c, f) : Kin(s, t, DbSlot(f).val)
    OBVIOUS
  <2>2. Stamp(t) = Stamp(s) /\ Stamp(s) \in Nat
    BY <1>1, <2>1, KinStamp, HeardType
  <2>3. ASSUME NEW r \in Heard(c, f) PROVE Stamp(r) <= Stamp(s)
    <3>1. PICK u \in Heard(c, f)' : Stamp(r) <= Stamp(u)
      OBVIOUS
    <3>2. PICK q \in Heard(c, f) : Kin(q, u, DbSlot(f).val)
      OBVIOUS
    <3>3. Stamp(u) = Stamp(q) /\ Stamp(q) \in Nat /\ Stamp(r) \in Nat
      BY <1>1, <3>2, KinStamp, HeardType
    <3>4. Stamp(u) <= Stamp(t)
      BY <1>2
    <3> QED BY <2>2, <3>1, <3>3, <3>4
  <2>4. s.val = DbSlot(f).val
    BY <1>1, <2>3 DEF LatestRight
  <2> QED BY <2>1, <2>4 DEF Kin
<1> QED BY <1>2 DEF LatestRight, Stamp

\* A stream to which the newest state of the flag is added.
LEMMA StreamGains ==
    ASSUME IInv, DeliveryInv, NEW c \in Clients, NEW f \in Flags, NEW n,
           Streams(c)' => Streams(c),
           Held(c)'[f] = Held(c)[f],
           \A t \in Of(Queued(c) \cup Jobs, f)' : t = n \/ Stamp(t) <= last[f],
           \A t \in Of(Queued(c) \cup Jobs, f)' : Stamp(t) \in Nat,
           n \in Of(Queued(c) \cup Jobs, f)', Stamp(n) > last[f], n.val = DbSlot(f)'.val
    PROVE  Delivered(c, f)'
<1> SUFFICES ASSUME Streams(c)' PROVE LatestRight(c, f)'
  BY DEF Delivered
<1>1. Streams(c) /\ at[c] \in Instances /\ last[f] \in Nat
  BY DEF DeliveryInv, ServersOK, Streams, IInv, TypeOK
<1>2. Heard(c, f)' = {Held(c)'[f]} \cup Of(Queued(c) \cup Jobs, f)'
  BY DEF Heard
<1>3. Stamp(Held(c)[f]) \in Nat /\ Stamp(Held(c)[f]) <= last[f]
  BY <1>1, HeardType DEF Heard
<1>4. ASSUME NEW t \in Heard(c, f)', \A u \in Heard(c, f)' : Stamp(u) <= Stamp(t)
      PROVE  t.val = DbSlot(f)'.val
  <2>1. Stamp(n) <= Stamp(t) /\ Stamp(n) \in Nat
    BY <1>2, <1>4
  <2>2. t # n => Stamp(t) <= last[f] /\ Stamp(t) \in Nat
    BY <1>2, <1>3
  <2>3. t = n
    BY <1>1, <2>1, <2>2
  <2> QED BY <2>3
<1> QED BY <1>4 DEF LatestRight, Stamp

\* Events that bring the revision of a row still bring what it says.
LEMMA NamesKept ==
    ASSUME NEW f \in Flags, NamesRow(f), row'[f] = row[f], DbSlot(f)'.val = DbSlot(f).val,
           \A t \in Of(Everywhere, f)' : \E s \in Of(Everywhere, f) : Kin(s, t, DbSlot(f).val)
    PROVE  NamesRow(f)'
<1> SUFFICES ASSUME row'[f].data # Absent, NEW t \in Of(Everywhere, f)',
                    t.val # Absent, t.rev = row'[f].rev
             PROVE  t.val = DbSlot(f)'.val
  BY DEF NamesRow
<1>1. PICK s \in Of(Everywhere, f) : Kin(s, t, DbSlot(f).val)
  OBVIOUS
<1>2. s.val = DbSlot(f).val
  BY <1>1 DEF NamesRow, Kin
<1> QED BY <1>1, <1>2 DEF Kin

LEMMA KinSame == \A s, v : Kin(s, s, v)
BY DEF Kin

\* A step that moves the events of f, and brings none.
LEMMA FlagMoves ==
    ASSUME IInv, DeliveryInv, NEW f \in Reliable,
           UNCHANGED <<row, tomb, segment>>,
           Of(Everywhere, f)' \subseteq Of(Everywhere, f),
           \A c \in Clients : Streams(c)' =>
              /\ Streams(c)
              /\ Held(c)'[f] = Held(c)[f]
              /\ StreamEnds(c) => StreamEnds(c)'
              /\ StreamEnds(c)' \/ Of(Queued(c) \cup Jobs, f)' = Of(Queued(c) \cup Jobs, f)
    PROVE  NamesRow(f)' /\ \A c \in Clients : Delivered(c, f)'
<1>d. f \in Flags /\ row'[f] = row[f] /\ DbSlot(f)' = DbSlot(f)
  BY DEF DbSlot, Reliable
<1>1. NamesRow(f)'
  BY <1>d, KinSame, NamesKept DEF DeliveryInv
<1>2. ASSUME NEW c \in Clients PROVE Delivered(c, f)'
  <2>1. CASE ~Streams(c)'
    BY <2>1 DEF Delivered
  <2>2. CASE Streams(c)' /\ StreamEnds(c)'
    BY <2>2 DEF Delivered
  <2>3. CASE Streams(c)' /\ ~StreamEnds(c)'
    <3>1. Heard(c, f)' = {Held(c)'[f]} \cup Of(Queued(c) \cup Jobs, f)'
      BY DEF Heard
    <3>2. Heard(c, f)' = Heard(c, f)
      BY <2>3, <3>1 DEF Heard
    <3>3. at[c] \in Instances /\ Streams(c)
      BY <2>3 DEF DeliveryInv, ServersOK, Streams
    <3>4. ASSUME NEW s \in Heard(c, f) PROVE Stamp(s) <= Stamp(s)
      <4>1. Stamp(s) \in Nat
        BY <1>d, <3>3, HeardType
      <4> QED BY <4>1
    <3> QED BY <1>d, <2>3, <3>2, <3>4, KinSame, StreamKept
  <2> QED BY <2>1, <2>2, <2>3
<1> QED BY <1>1, <1>2

\* A step that moves events, and brings none.
LEMMA DeliveryMoves ==
    ASSUME IInv, DeliveryInv, ServersOK',
           UNCHANGED <<row, tomb, segment, last, overtaken, unheard>>,
           Everywhere' \subseteq Everywhere \cup Signals,
           \A c \in Clients : Streams(c)' =>
              /\ Streams(c)
              /\ \A f \in Flags : Held(c)'[f] = Held(c)[f]
              /\ StreamEnds(c) => StreamEnds(c)'
              /\ \/ StreamEnds(c)'
                 \/ /\ (Queued(c) \cup Jobs)' \subseteq Queued(c) \cup Jobs \cup Signals
                    /\ Queued(c) \cup Jobs \subseteq (Queued(c) \cup Jobs)' \cup Signals
    PROVE  DeliveryInv'
<1>r. Reliable' = Reliable
  BY DEF Reliable, InOrder
<1>1. ASSUME NEW f \in Reliable PROVE NamesRow(f)' /\ \A c \in Clients : Delivered(c, f)'
  <2>1. Of(Everywhere, f)' \subseteq Of(Everywhere, f)
    <3>1. Of(Everywhere, f)' = Of(Everywhere', f)
      BY DEF Of, SlotOf
    <3> QED BY <3>1, OfUnion
  <2>2. ASSUME NEW c \in Clients, Streams(c)', ~StreamEnds(c)'
        PROVE  Of(Queued(c) \cup Jobs, f)' = Of(Queued(c) \cup Jobs, f)
    <3>1. Of(Queued(c) \cup Jobs, f)' = Of((Queued(c) \cup Jobs)', f)
      BY DEF Of, SlotOf
    <3>2. /\ (Queued(c) \cup Jobs)' \subseteq Queued(c) \cup Jobs \cup Signals
          /\ Queued(c) \cup Jobs \subseteq (Queued(c) \cup Jobs)' \cup Signals
      BY <2>2
    <3>3. Of((Queued(c) \cup Jobs)', f) = Of(Queued(c) \cup Jobs, f)
      BY <3>2, OfSame
    <3> QED BY <3>1, <3>3
  <2>3. f \in Flags
    BY DEF Reliable
  <2> QED BY <2>1, <2>2, <2>3, FlagMoves
<1> QED BY <1>r, <1>1 DEF DeliveryInv

\* What is under way after a step, from what each place holds.
LEMMA EverywhereAfter ==
    ASSUME NEW N,
           Jobs' \subseteq Everywhere \cup N,
           \A i \in Instances : ToSet(inbox'[i]) \subseteq Everywhere \cup N,
           \A c \in Clients : ToSet(rx'[c]) \subseteq Everywhere \cup N
    PROVE  Everywhere' \subseteq Everywhere \cup N
<1>1. Everywhere' = Jobs' \cup (UNION {ToSet(inbox'[i]) : i \in Instances})
                         \cup (UNION {ToSet(rx'[c]) : c \in Clients})
  BY DEF Everywhere, ToSet
<1> HIDE DEF Everywhere
<1> QED BY <1>1

LEMMA EverywhereMember ==
    /\ Jobs \subseteq Everywhere
    /\ \A i \in Instances : ToSet(inbox[i]) \subseteq Everywhere
    /\ \A c \in Clients : ToSet(rx[c]) \subseteq Everywhere
BY DEF Everywhere

LEMMA QueueHead ==
    ASSUME NEW S, NEW q \in Seq(S), q # <<>>
    PROVE  ToSet(q) = {Head(q)} \cup ToSet(Tail(q))
<1>1. Len(q) \in Nat \ {0} /\ DOMAIN q = 1 .. Len(q) /\ Head(q) = q[1]
  BY EmptySeq, LenProperties
<1>2. /\ Len(Tail(q)) = Len(q) - 1
      /\ DOMAIN Tail(q) = 1 .. Len(Tail(q))
      /\ \A k \in 1 .. Len(Tail(q)) : Tail(q)[k] = q[k + 1]
  BY HeadTailProperties, LenProperties
<1>3. ASSUME NEW k \in DOMAIN q PROVE q[k] \in {Head(q)} \cup ToSet(Tail(q))
  <2>1. CASE k = 1
    BY <1>1, <2>1
  <2>2. CASE k # 1
    <3>1. k - 1 \in 1 .. Len(Tail(q)) /\ (k - 1) + 1 = k
      BY <1>1, <1>2, <2>2
    <3>2. Tail(q)[k - 1] = q[k]
      BY <1>2, <3>1
    <3> QED BY <1>2, <3>1, <3>2 DEF ToSet
  <2> QED BY <2>1, <2>2
<1>4. Head(q) \in ToSet(q) /\ ToSet(Tail(q)) \subseteq ToSet(q)
  BY <1>1, <1>2 DEF ToSet
<1>5. ToSet(q) \subseteq {Head(q)} \cup ToSet(Tail(q))
  BY <1>3 DEF ToSet
<1> QED BY <1>4, <1>5

\* A receiver that gets m has it in its queue, or is told that it lags.
LEMMA PushBrings ==
    ASSUME NEW q \in Seq(Message \cup {Lagged}), NEW m \in Message
    PROVE  Lagged \in ToSet(Push(q, m)) \/ ToSet(Push(q, m)) = ToSet(q) \cup {m}
<1>1. Lagged \in ToSet(<<Lagged>>)
  <2>1. \A x : <<x>> \in Seq({x}) /\ Len(<<x>>) = 1 /\ <<x>>[1] = x
    OBVIOUS
  <2>2. DOMAIN <<Lagged>> = 1 .. 1
    BY <2>1, LenProperties
  <2> QED BY <2>1, <2>2 DEF ToSet
<1>2. ToSet(Append(q, m)) = ToSet(q) \cup {m}
  BY QueueSets
<1>3. Push(q, m) = <<Lagged>> \/ Push(q, m) = Append(q, m)
  BY DEF Push
<1>4. CASE Push(q, m) = <<Lagged>>
  <2>1. ToSet(Push(q, m)) = ToSet(<<Lagged>>)
    BY <1>4
  <2> QED BY <1>1, <2>1
<1>5. CASE Push(q, m) = Append(q, m)
  BY <1>2, <1>5
<1> QED BY <1>3, <1>4, <1>5

-----------------------------------------------------------------------------
(* The servers.                                                            *)

\* A stream that ends still does when its queues and signals only grow.
LEMMA EndsStill ==
    ASSUME NEW c \in Clients, StreamEnds(c), at'[c] = at[c],
           sub'[at[c]] = sub[at[c]],
           \A i \in Instances : resync[i] = "pending" => resync'[i] = "pending",
           ToSet(rx[c]) \subseteq ToSet(rx'[c]),
           ToSet(inbox[at[c]]) \subseteq ToSet(inbox'[at[c]])
    PROVE  StreamEnds(c)'
<1>1. Queued(c)' = ToSet(rx'[c]) \cup ToSet(inbox'[at[c]])
  BY DEF Queued, ToSet
<1>2. Queued(c) \subseteq Queued(c)'
  BY <1>1 DEF Queued
<1> QED BY <1>2 DEF StreamEnds

\* What Redis publishes reaches the instances that are subscribed.
LEMMA PublishedBrings ==
    ASSUME TypeOK, NEW m \in Message, NEW i \in Instances
    PROVE  /\ ToSet(inbox[i]) \subseteq ToSet(Published(m)[i])
           /\ ToSet(Published(m)[i]) \subseteq ToSet(inbox[i]) \cup {m}
           /\ sub[i] = "up" => m \in ToSet(Published(m)[i])
<1>1. ToSet(Append(inbox[i], m)) = ToSet(inbox[i]) \cup {m}
  BY QueueSets DEF TypeOK
<1> QED BY <1>1 DEF TypeOK, Published

LEMMA QueuedAfter ==
    ASSUME NEW c \in Clients, at'[c] = at[c]
    PROVE  Queued(c)' = ToSet(rx'[c]) \cup ToSet(inbox'[at[c]])
BY DEF Queued, ToSet

LEMMA HeldSame ==
    ASSUME NEW c \in Clients, phase'[c] = phase[c], view'[c] = view[c], boot'[c] = boot[c]
    PROVE  /\ Streams(c)' = Streams(c)
           /\ \A f \in Flags : Held(c)'[f] = Held(c)[f]
BY DEF Held, Streams

LEMMA ResyncDelivers ==
    ASSUME IInv, DeliveryInv, Repaired, NEW i \in Instances,
           ResyncPublish(i) \/ ResyncFails(i)
    PROVE  DeliveryInv'
<1> USE DEF dbVars, serverVars, connVars, sdkVars
<1>t. TypeOK /\ ServersOK
  BY DEF IInv, DeliveryInv
<1>1. /\ UNCHANGED <<row, tomb, segment, last, overtaken, unheard, job, sub, rx, phase, at, view, boot>>
      /\ resync[i] = "pending"
      /\ \A j \in Instances : j # i => resync'[j] = resync[j]
      /\ \A j \in Instances : inbox'[j] = inbox[j] \/ inbox'[j] = Published(Resync)[j]
  BY <1>t DEF ResyncPublish, ResyncFails, TypeOK
<1>2. ASSUME NEW j \in Instances
      PROVE  /\ ToSet(inbox[j]) \subseteq ToSet(inbox'[j])
             /\ ToSet(inbox'[j]) \subseteq ToSet(inbox[j]) \cup Signals
  BY <1>t, <1>1, PublishedBrings, MessageType DEF Signals
<1>3. ServersOK'
  <2>1. \A j \in Instances : resync'[j] # "sent"
    BY <1>t DEF Repaired, ResyncPublish, ResyncFails, ServersOK, TypeOK
  <2> QED BY <1>1, <1>t, <2>1 DEF ServersOK
<1>4. Jobs' = Jobs
  BY <1>1 DEF Jobs
<1>5. Everywhere' \subseteq Everywhere \cup Signals
  BY <1>1, <1>2, <1>4, EverywhereMember, EverywhereAfter
<1>6. ASSUME NEW c \in Clients, Streams(c)'
      PROVE  /\ Streams(c)
             /\ \A f \in Flags : Held(c)'[f] = Held(c)[f]
             /\ StreamEnds(c)'
  <2>1. Streams(c) /\ \A f \in Flags : Held(c)'[f] = Held(c)[f]
    BY <1>1, <1>6, HeldSame
  <2>2. at[c] \in Instances /\ sub[at[c]] \in {"up", "down"}
    BY <1>t, <2>1 DEF ServersOK, Streams, TypeOK
  <2>3. CASE ResyncFails(i)
    BY <1>1, <2>1, <2>3 DEF ResyncFails, StreamEnds
  <2>4. CASE ResyncPublish(i) /\ sub[at[c]] = "down"
    BY <1>1, <2>1, <2>4 DEF StreamEnds
  <2>5. CASE ResyncPublish(i) /\ sub[at[c]] = "up"
    <3>1. inbox' = Published(Resync)
      BY <2>5 DEF ResyncPublish
    <3>2. Resync \in ToSet(inbox'[at[c]])
      BY <1>t, <2>2, <2>5, <3>1, PublishedBrings, MessageType
    <3>3. Resync \in Queued(c)'
      BY <1>1, <3>2, QueuedAfter
    <3> QED BY <2>1, <3>3 DEF StreamEnds, Resync
  <2> QED BY <2>1, <2>2, <2>3, <2>4, <2>5
<1> QED BY <1>1, <1>3, <1>5, <1>6, DeliveryMoves

LEMMA SubscriptionDelivers ==
    ASSUME IInv, DeliveryInv, NEW i \in Instances,
           Subscribe(i) \/ SubscriptionDrops(i)
    PROVE  DeliveryInv'
<1> USE DEF dbVars, serverVars, connVars, sdkVars
<1>t. TypeOK /\ ServersOK
  BY DEF IInv, DeliveryInv
<1>1. /\ UNCHANGED <<row, tomb, segment, last, overtaken, unheard, job, resync, phase, at, view, boot>>
      /\ sub'[i] # "never"
      /\ \A j \in Instances : j # i => sub'[j] = sub[j] /\ inbox'[j] = inbox[j]
      /\ inbox'[i] = inbox[i] \/ inbox'[i] = <<>>
      /\ rx' = rx \/ rx' = Broadcast(i, Resync)
  BY <1>t DEF Subscribe, SubscriptionDrops, TypeOK
<1>2. \A c \in Clients : at[c] # i => rx'[c] = rx[c]
  BY <1>1 DEF Broadcast
<1>3. ServersOK'
  BY <1>1, <1>t DEF ServersOK
<1>4. Jobs' = Jobs
  BY <1>1 DEF Jobs
<1>5. Everywhere' \subseteq Everywhere \cup Signals
  <2>1. ToSet(<<>>) = {}
    BY DEF ToSet
  <2>2. \A j \in Instances : ToSet(inbox'[j]) \subseteq Everywhere \cup Signals
    BY <1>1, <2>1, EverywhereMember
  <2>3. \A c \in Clients : ToSet(rx'[c]) \subseteq Everywhere \cup Signals
    BY <1>1, <1>t, BroadcastSet, MessageType, EverywhereMember DEF Signals
  <2> QED BY <1>4, <2>2, <2>3, EverywhereMember, EverywhereAfter
<1>6. ASSUME NEW c \in Clients, Streams(c)'
      PROVE  /\ Streams(c)
             /\ \A f \in Flags : Held(c)'[f] = Held(c)[f]
             /\ StreamEnds(c) => StreamEnds(c)'
             /\ \/ StreamEnds(c)'
                \/ (Queued(c) \cup Jobs)' = Queued(c) \cup Jobs
  <2>1. Streams(c) /\ \A f \in Flags : Held(c)'[f] = Held(c)[f]
    BY <1>1, <1>6, HeldSame
  <2>2. at[c] \in Instances /\ sub[at[c]] \in {"up", "down"}
    BY <1>t, <2>1 DEF ServersOK, Streams, TypeOK
  <2>3. CASE at[c] # i
    <3>1. Queued(c)' = Queued(c)
      BY <1>1, <1>2, <2>2, <2>3 DEF Queued
    <3> QED BY <1>1, <1>4, <2>1, <2>2, <2>3, <3>1 DEF StreamEnds
  <2>4. CASE at[c] = i /\ SubscriptionDrops(i)
    <3>1. sub'[at'[c]] = "down"
      BY <1>t, <1>1, <2>4 DEF SubscriptionDrops, TypeOK
    <3> QED BY <2>1, <3>1 DEF StreamEnds
  <2>5. CASE at[c] = i /\ Subscribe(i)
    <3>1. rx' = Broadcast(i, Resync)
      BY <2>2, <2>5 DEF Subscribe
    <3>2. rx'[c] = Push(rx[c], Resync) /\ rx[c] \in Seq(Message \cup {Lagged})
      BY <1>t, <2>5, <3>1 DEF Broadcast, TypeOK
    <3>3. Lagged \in ToSet(rx'[c]) \/ Resync \in ToSet(rx'[c])
      BY <3>2, PushBrings, MessageType
    <3>4. Lagged \in Queued(c)' \/ Resync \in Queued(c)'
      BY <1>1, <3>3, QueuedAfter
    <3> QED BY <2>1, <3>4 DEF StreamEnds, Resync, Lagged
  <2> QED BY <1>1, <2>3, <2>4, <2>5
<1> QED BY <1>1, <1>3, <1>5, <1>6, DeliveryMoves

LEMMA ForwardDelivers ==
    ASSUME IInv, DeliveryInv, NEW i \in Instances, Forward(i)
    PROVE  DeliveryInv'
<1> USE DEF dbVars, serverVars, connVars, sdkVars
<1> DEFINE m == Head(inbox[i])
<1>t. TypeOK /\ ServersOK
  BY DEF IInv, DeliveryInv
<1>1. /\ UNCHANGED <<row, tomb, segment, last, overtaken, unheard, job, resync, sub, phase, at, view, boot>>
      /\ inbox[i] # <<>> /\ inbox[i] \in Seq(Message)
      /\ \A j \in Instances : inbox'[j] = IF j = i THEN Tail(inbox[i]) ELSE inbox[j]
      /\ rx' = Broadcast(i, m)
  BY <1>t DEF Forward, TypeOK
<1>2. m \in Message /\ ToSet(inbox[i]) = {m} \cup ToSet(Tail(inbox[i]))
  BY <1>1, HeadTailProperties, QueueHead
<1> HIDE DEF m
<1>3. ServersOK'
  BY <1>1, <1>t DEF ServersOK
<1>4. Jobs' = Jobs
  BY <1>1 DEF Jobs
<1>5. Everywhere' \subseteq Everywhere \cup Signals
  <2>1. \A j \in Instances : ToSet(inbox'[j]) \subseteq Everywhere \cup Signals
    BY <1>1, <1>2, EverywhereMember
  <2>2. \A c \in Clients : ToSet(rx'[c]) \subseteq Everywhere \cup Signals
    <3>1. m \in Everywhere
      BY <1>2, EverywhereMember
    <3> QED BY <1>1, <1>2, <1>t, <3>1, BroadcastSet, EverywhereMember DEF Signals
  <2> QED BY <1>4, <2>1, <2>2, EverywhereMember, EverywhereAfter
<1>6. ASSUME NEW c \in Clients, Streams(c)'
      PROVE  /\ Streams(c)
             /\ \A f \in Flags : Held(c)'[f] = Held(c)[f]
             /\ StreamEnds(c) => StreamEnds(c)'
             /\ \/ StreamEnds(c)'
                \/ (Queued(c) \cup Jobs)' = Queued(c) \cup Jobs
  <2>1. Streams(c) /\ \A f \in Flags : Held(c)'[f] = Held(c)[f]
    BY <1>1, <1>6, HeldSame
  <2>2. at[c] \in Instances
    BY <1>t, <2>1 DEF ServersOK, Streams
  <2>3. CASE at[c] # i
    <3>1. rx'[c] = rx[c]
      BY <1>1, <2>3 DEF Broadcast
    <3>2. Queued(c)' = Queued(c)
      BY <1>1, <2>2, <2>3, <3>1 DEF Queued
    <3> QED BY <1>1, <1>4, <2>1, <3>2 DEF StreamEnds
  <2>4. CASE at[c] = i
    <3>1. rx'[c] = Push(rx[c], m) /\ rx[c] \in Seq(Message \cup {Lagged})
      BY <1>1, <1>t, <2>4 DEF Broadcast, TypeOK
    <3>2. Queued(c)' = ToSet(Push(rx[c], m)) \cup ToSet(Tail(inbox[i]))
      BY <1>1, <2>2, <2>4, <3>1, QueuedAfter
    <3>3. CASE Lagged \in ToSet(Push(rx[c], m))
      BY <2>1, <3>2, <3>3 DEF StreamEnds, Lagged
    <3>4. CASE ToSet(Push(rx[c], m)) = ToSet(rx[c]) \cup {m}
      <4>1. Queued(c)' = Queued(c)
        BY <1>2, <2>4, <3>2, <3>4 DEF Queued
      <4> QED BY <1>1, <1>4, <2>1, <4>1 DEF StreamEnds
    <3> QED BY <1>2, <3>1, <3>3, <3>4, PushBrings
  <2> QED BY <2>3, <2>4
<1> QED BY <1>1, <1>3, <1>5, <1>6, DeliveryMoves

LEMMA JobsMember == \A w \in Writers : ComingOf(job[w], segment) \subseteq Jobs
BY DEF Jobs

\* A handler is done with m.
LEMMA FinishedJobs ==
    ASSUME TypeOK, NEW w \in Writers, NEW m \in job[w].todo, job[w].pc = "publish",
           job' = Finished(w, m), segment' = segment
    PROVE  /\ Jobs = Jobs' \cup {m}
           /\ \A v \in Writers : job'[v].pc \in {"idle", "insert"} =>
                 job'[v].todo = {} \/ (v # w /\ job'[v] = job[v])
<1> DEFINE J == Working(IF job[w].todo = {m} THEN "idle" ELSE "publish", job[w].todo \ {m})
<1>0. /\ job' = [job EXCEPT ![w] = J]
      /\ J.todo = job[w].todo \ {m} /\ J.pc \in {"idle", "publish"}
      /\ J.pc = "idle" => J.todo = {}
  BY DEF Finished, Working
<1> HIDE DEF J
<1>1. \A v \in Writers :
         /\ v # w => job'[v] = job[v]
         /\ v = w => job'[v].todo = job[w].todo \ {m} /\ job'[v].pc # "expand"
         /\ v = w /\ job'[v].pc \in {"idle", "insert"} => job'[v].todo = {}
  BY <1>0 DEF TypeOK
<1>2. \A v \in Writers : ComingOf(job'[v], segment) = IF v = w THEN ComingOf(job[w], segment) \ {m}
                                                                ELSE ComingOf(job[v], segment)
  BY <1>1 DEF ComingOf
<1>3. m \in ComingOf(job[w], segment)
  BY DEF ComingOf
<1>4. Jobs' = UNION {ComingOf(job'[v], segment) : v \in Writers}
  BY DEF Jobs
<1>5. Jobs = Jobs' \cup {m}
  BY <1>2, <1>3, <1>4 DEF Jobs
<1> QED BY <1>1, <1>5

\* A step of a handler that leaves what comes of its job as it was.
LEMMA JobsKept ==
    ASSUME NEW w \in Writers, segment' = segment,
           \A v \in Writers : v # w => job'[v] = job[v],
           ComingOf(job'[w], segment) = ComingOf(job[w], segment)
    PROVE  Jobs' = Jobs
<1>1. \A v \in Writers : ComingOf(job'[v], segment) = ComingOf(job[v], segment)
  OBVIOUS
<1> QED BY <1>1 DEF Jobs

LEMMA HandlerDelivers ==
    ASSUME IInv, DeliveryInv, Repaired, NEW w \in Writers,
           \/ \E m \in job[w].todo : Publish(w, m) \/ PublishFails(w, m) \/ PublishGivesUp(w, m)
           \/ LoadSegments(w) \/ DrawDefault(w) \/ Rollback(w)
    PROVE  DeliveryInv'
<1> USE DEF dbVars, serverVars, connVars, sdkVars
<1>t. TypeOK /\ ServersOK /\ job[w] \in Job /\ Home[w] \in Instances
  BY HomeAssumption DEF IInv, DeliveryInv, TypeOK
<1>1. CASE LoadSegments(w)
  <2> DEFINE N == {[m EXCEPT !.val = Expand(m.val.data, segment)] : m \in job[w].todo}
             J == [job[w] EXCEPT !.pc = "publish", !.todo = N]
  <2>1. /\ UNCHANGED <<row, tomb, segment, last, overtaken, unheard, resync, sub, inbox, rx, phase, at, view, boot>>
        /\ job' = [job EXCEPT ![w] = J] /\ job[w].pc = "expand"
    BY <1>1 DEF LoadSegments
  <2>2. J.pc = "publish" /\ J.todo = N
    <3> HIDE DEF N
    <3> QED BY <1>t DEF Job
  <2>3. ComingOf(J, segment) = ComingOf(job[w], segment)
    BY <2>1, <2>2 DEF ComingOf
  <2> HIDE DEF N, J
  <2>4. job'[w] = J /\ \A v \in Writers : v # w => job'[v] = job[v]
    BY <1>t, <2>1 DEF TypeOK
  <2>5. Jobs' = Jobs
    BY <2>1, <2>3, <2>4, JobsKept
  <2>6. ServersOK'
    BY <1>t, <2>1, <2>2, <2>4 DEF ServersOK
  <2>7. Everywhere' \subseteq Everywhere \cup Signals
    BY <2>1, <2>5 DEF Everywhere
  <2>8. ASSUME NEW c \in Clients
        PROVE  /\ Streams(c)' = Streams(c)
               /\ \A f \in Flags : Held(c)'[f] = Held(c)[f]
               /\ StreamEnds(c)' = StreamEnds(c)
               /\ (Queued(c) \cup Jobs)' = Queued(c) \cup Jobs
    BY <2>1, <2>5 DEF Held, Streams, StreamEnds, Queued
  <2> QED BY <2>1, <2>6, <2>7, <2>8, DeliveryMoves
<1>2. ASSUME NEW m \in job[w].todo, PublishGivesUp(w, m) PROVE DeliveryInv'
  <2>1. /\ UNCHANGED <<row, tomb, segment, last, overtaken, unheard, sub, phase, at, view, boot>>
        /\ job[w].pc = "publish"
        /\ job' = Finished(w, m)
        /\ resync' = [resync EXCEPT ![Home[w]] = IF @ = "idle" THEN "pending" ELSE @]
        /\ inbox' = inbox \/ inbox' = Published(m)
        /\ rx' = Broadcast(Home[w], m)
    BY <1>2 DEF PublishGivesUp
  <2>2. m \in Message
    BY <1>t, MessageType DEF Job
  <2>3. /\ resync'[Home[w]] = "pending" /\ \A i \in Instances : resync'[i] # "sent"
    BY <1>t, <2>1 DEF ServersOK, TypeOK
  <2>4. Jobs = Jobs' \cup {m} /\ ServersOK'
    BY <1>t, <2>1, <2>3, FinishedJobs DEF ServersOK
  <2>5. Everywhere' \subseteq Everywhere \cup Signals
    <3>1. m \in Everywhere /\ Jobs' \subseteq Everywhere
      BY <2>4, EverywhereMember
    <3>2. \A i \in Instances : ToSet(inbox'[i]) \subseteq Everywhere \cup Signals
      BY <1>t, <2>1, <2>2, <3>1, PublishedSet, EverywhereMember
    <3>3. \A c \in Clients : ToSet(rx'[c]) \subseteq Everywhere \cup Signals
      BY <1>t, <2>1, <2>2, <3>1, BroadcastSet, EverywhereMember DEF Signals
    <3> QED BY <3>1, <3>2, <3>3, EverywhereAfter
  <2>6. ASSUME NEW c \in Clients
        PROVE  /\ Streams(c)' = Streams(c)
               /\ \A f \in Flags : Held(c)'[f] = Held(c)[f]
               /\ StreamEnds(c)'
    <3>1. StreamEnds(c)'
      BY <1>t, <2>3 DEF StreamEnds
    <3> QED BY <2>1, <3>1, HeldSame
  <2> QED BY <2>1, <2>4, <2>5, <2>6, DeliveryMoves
<1>3. ASSUME NEW m \in job[w].todo, Publish(w, m) \/ PublishFails(w, m) PROVE DeliveryInv'
  <2>1. /\ UNCHANGED <<row, tomb, segment, last, overtaken, unheard, resync, sub, rx, phase, at, view, boot>>
        /\ job[w].pc = "publish"
        /\ inbox' = inbox \/ inbox' = Published(m)
    BY <1>3 DEF Publish, PublishFails
  <2>2. m \in Message
    BY <1>t, MessageType DEF Job
  <2>3. /\ Jobs' \subseteq Jobs
        /\ Jobs = Jobs' \/ (Jobs = Jobs' \cup {m} /\ inbox' = Published(m))
        /\ ServersOK'
    <3>1. CASE Publish(w, m)
      <4>1. job' = Finished(w, m) /\ inbox' = Published(m)
        BY <3>1 DEF Publish
      <4> QED BY <1>t, <2>1, <4>1, FinishedJobs DEF ServersOK
    <3>2. CASE PublishFails(w, m)
      <4> DEFINE J == [job[w] EXCEPT !.retry = {m}]
      <4>1. job' = [job EXCEPT ![w] = J]
        BY <3>2 DEF PublishFails
      <4>2. J.pc = job[w].pc /\ J.todo = job[w].todo
        BY <1>t DEF Job
      <4> HIDE DEF J
      <4>3. job'[w] = J /\ \A v \in Writers : v # w => job'[v] = job[v]
        BY <1>t, <4>1 DEF TypeOK
      <4>4. ComingOf(job'[w], segment) = ComingOf(job[w], segment)
        BY <4>2, <4>3 DEF ComingOf
      <4>5. Jobs' = Jobs
        BY <2>1, <4>3, <4>4, JobsKept
      <4> QED BY <1>t, <2>1, <4>2, <4>3, <4>5 DEF ServersOK
    <3> QED BY <1>3, <3>1, <3>2
  <2>4. m \in Jobs
    BY <2>1, JobsMember DEF ComingOf
  <2>5. ASSUME NEW i \in Instances
        PROVE  /\ ToSet(inbox[i]) \subseteq ToSet(inbox'[i])
               /\ ToSet(inbox'[i]) \subseteq ToSet(inbox[i]) \cup {m}
               /\ inbox' = Published(m) /\ sub[i] = "up" => m \in ToSet(inbox'[i])
    BY <1>t, <2>1, <2>2, PublishedBrings
  <2>6. Everywhere' \subseteq Everywhere \cup Signals
    <3>1. m \in Everywhere /\ Jobs' \subseteq Everywhere
      BY <2>3, <2>4, EverywhereMember
    <3> QED BY <2>1, <2>5, <3>1, EverywhereMember, EverywhereAfter
  <2>7. ASSUME NEW c \in Clients, Streams(c)'
        PROVE  /\ Streams(c)
               /\ \A f \in Flags : Held(c)'[f] = Held(c)[f]
               /\ StreamEnds(c) => StreamEnds(c)'
               /\ StreamEnds(c)' \/ (Queued(c) \cup Jobs)' = Queued(c) \cup Jobs
    <3>1. Streams(c) /\ \A f \in Flags : Held(c)'[f] = Held(c)[f]
      BY <2>1, <2>7, HeldSame
    <3>2. at[c] \in Instances /\ sub[at[c]] \in {"up", "down"}
      BY <1>t, <3>1 DEF ServersOK, Streams, TypeOK
    <3>3. Queued(c)' = ToSet(rx[c]) \cup ToSet(inbox'[at[c]])
      BY <2>1, QueuedAfter
    <3>4. StreamEnds(c) => StreamEnds(c)'
      BY <2>1, <2>5, <3>2, EndsStill
    <3>5. CASE sub[at[c]] = "down"
      BY <2>1, <3>1, <3>4, <3>5 DEF StreamEnds
    <3>6. CASE sub[at[c]] = "up"
      <4>1. Queued(c)' \cup Jobs' = Queued(c) \cup Jobs
        BY <2>3, <2>4, <2>5, <3>2, <3>3, <3>6 DEF Queued
      <4> QED BY <3>1, <3>4, <4>1
    <3> QED BY <3>2, <3>5, <3>6
  <2> QED BY <2>1, <2>3, <2>6, <2>7, DeliveryMoves
<1>4. CASE DrawDefault(w) \/ Rollback(w)
  <2> DEFINE J == job'[w]
  <2>1. /\ UNCHANGED <<row, tomb, segment, last, overtaken, unheard, resync, sub, inbox, rx, phase, at, view, boot>>
        /\ job[w].pc \in {"idle", "insert"}
    BY <1>4 DEF DrawDefault, Rollback
  <2>2. /\ J.pc # "expand" /\ J.todo = {}
        /\ \A v \in Writers : v # w => job'[v] = job[v]
    <3>1. CASE DrawDefault(w)
      <4>1. job' = [job EXCEPT ![w] = [Working("insert", {}) EXCEPT !.draw = seq + 1]]
        BY <3>1 DEF DrawDefault
      <4>2. job \in [Writers -> Job]
        BY <1>t DEF TypeOK
      <4> QED BY <4>1, <4>2 DEF Working
    <3>2. CASE Rollback(w)
      BY <1>t, <3>2 DEF Rollback, NoJob, Working, TypeOK
    <3> QED BY <1>4, <3>1, <3>2
  <2>3. ComingOf(J, segment) = {} /\ ComingOf(job[w], segment) = {}
    BY <1>t, <2>1, <2>2 DEF ComingOf, ServersOK
  <2>4. Jobs' = Jobs
    BY <2>1, <2>2, <2>3, JobsKept
  <2>5. ServersOK'
    BY <1>t, <2>1, <2>2 DEF ServersOK
  <2>6. Everywhere' \subseteq Everywhere \cup Signals
    BY <2>1, <2>4 DEF Everywhere
  <2>7. ASSUME NEW c \in Clients
        PROVE  /\ Streams(c)' = Streams(c)
               /\ \A f \in Flags : Held(c)'[f] = Held(c)[f]
               /\ StreamEnds(c)' = StreamEnds(c)
               /\ (Queued(c) \cup Jobs)' = Queued(c) \cup Jobs
    BY <2>1, <2>4 DEF Held, Streams, StreamEnds, Queued
  <2> QED BY <2>1, <2>5, <2>6, <2>7, DeliveryMoves
<1> QED BY <1>1, <1>2, <1>3, <1>4

-----------------------------------------------------------------------------
(* Events that faults drop, or change: other flags do not notice.          *)

\* Handlers whose work changes have nothing to publish of f, before and after.
LEMMA JobsWithout ==
    ASSUME NEW f, segment' = segment,
           \A w \in Writers : \/ job'[w] = job[w]
                              \/ /\ \A m \in job[w].todo : m.key # f
                                 /\ \A m \in job'[w].todo : m.key # f,
           TypeOK, TypeOK'
    PROVE  Of(Jobs, f)' = Of(Jobs, f)
<1>t. segment \in Rules \cup {NoSegment} /\ segment' \in Rules \cup {NoSegment}
  BY DEF TypeOK
<1>1. ASSUME NEW w \in Writers, \A m \in job[w].todo : m.key # f
      PROVE  \A m \in ComingOf(job[w], segment) : m.key # f
  BY <1>1, <1>t, ComingType
<1>2. ASSUME NEW w \in Writers, \A m \in job'[w].todo : m.key # f
      PROVE  \A m \in ComingOf(job'[w], segment) : m.key # f
  <2>1. job'[w] \in Job /\ \A m \in job'[w].todo : m \in Change
    BY DEF TypeOK, Job
  <2>2. \A m \in job'[w].todo : [m EXCEPT !.val = Expand(m.val.data, segment)].key = m.key
    BY <2>1 DEF Change
  <2> QED BY <1>2, <2>2 DEF ComingOf
<1>3. Jobs' = UNION {ComingOf(job'[w], segment) : w \in Writers}
  BY DEF Jobs
<1>4. {m \in Jobs' : m.key = f} = {m \in Jobs : m.key = f}
  BY <1>1, <1>2, <1>3 DEF Jobs
<1>5. Of(Jobs, f)' = Of(Jobs', f)
  BY DEF Of, SlotOf
<1> QED BY <1>4, <1>5 DEF Of

\* Events that are published, and have not reached their clients.
Travelling == (UNION {ToSet(inbox[i]) : i \in Instances}) \cup (UNION {ToSet(rx[c]) : c \in Clients})

LEMMA OfEverywhere ==
    ASSUME NEW f
    PROVE  /\ Of(Everywhere, f) = Of(Jobs, f) \cup Of(Travelling, f)
           /\ Of(Everywhere, f)' = Of(Jobs, f)' \cup Of(Travelling, f)'
           /\ \A c \in Clients :
                /\ Of(Queued(c) \cup Jobs, f) = Of(Jobs, f) \cup Of(Queued(c), f)
                /\ Of(Queued(c) \cup Jobs, f)' = Of(Jobs, f)' \cup Of(Queued(c), f)'
<1>1. Of(Everywhere, f) = Of(Jobs, f) \cup Of(Travelling, f)
  <2>1. Everywhere = Jobs \cup Travelling
    BY DEF Everywhere, Travelling
  <2> QED BY <2>1, OfUnion
<1>2. Of(Everywhere, f)' = Of(Jobs, f)' \cup Of(Travelling, f)'
  <2>1. Everywhere' = Jobs' \cup Travelling'
    BY DEF Everywhere, Travelling
  <2>2. /\ Of(Everywhere, f)' = Of(Everywhere', f) /\ Of(Jobs, f)' = Of(Jobs', f)
        /\ Of(Travelling, f)' = Of(Travelling', f)
    BY DEF Of, SlotOf
  <2> QED BY <2>1, <2>2, OfUnion
<1>3. ASSUME NEW c \in Clients
      PROVE  /\ Of(Queued(c) \cup Jobs, f) = Of(Jobs, f) \cup Of(Queued(c), f)
             /\ Of(Queued(c) \cup Jobs, f)' = Of(Jobs, f)' \cup Of(Queued(c), f)'
  <2>1. /\ Of(Queued(c) \cup Jobs, f)' = Of(Queued(c)' \cup Jobs', f)
        /\ Of(Jobs, f)' = Of(Jobs', f) /\ Of(Queued(c), f)' = Of(Queued(c)', f)
    BY DEF Of, SlotOf
  <2> QED BY <2>1, OfUnion
<1> QED BY <1>1, <1>2, <1>3

\* A request is dropped, or the segments of an expansion are missing.
LEMMA MishapDelivers ==
    ASSUME IInv, DeliveryInv, TypeOK', NEW w \in Writers,
           AbandonRequest(w) \/ LoadSegmentsFails(w)
    PROVE  DeliveryInv'
<1> USE DEF dbVars, serverVars, connVars, sdkVars
<1>t. TypeOK /\ ServersOK /\ job[w] \in Job
  BY DEF IInv, DeliveryInv, TypeOK
<1>1. /\ UNCHANGED <<row, tomb, segment, last, overtaken, resync, sub, inbox, rx, phase, at, view, boot>>
      /\ unheard' = unheard \cup Unpublished(w)
      /\ \A v \in Writers : v # w => job'[v] = job[v]
      /\ job'[w].todo \subseteq job[w].todo
      /\ job'[w].pc \in {"idle", "insert"} => job'[w].todo = {}
  <2>1. CASE AbandonRequest(w)
    BY <1>t, <2>1 DEF AbandonRequest, Missed, NoJob, Working, TypeOK
  <2>2. CASE LoadSegmentsFails(w)
    <3> DEFINE J == [job[w] EXCEPT !.pc = "publish"]
    <3>1. job' = [job EXCEPT ![w] = J]
      BY <2>2 DEF LoadSegmentsFails
    <3>2. J.pc = "publish" /\ J.todo = job[w].todo
      BY <1>t DEF Job
    <3> HIDE DEF J
    <3> QED BY <1>t, <2>2, <3>1, <3>2 DEF LoadSegmentsFails, Missed, TypeOK
  <2> QED BY <2>1, <2>2
<1>2. ServersOK'
  BY <1>t, <1>1 DEF ServersOK
<1>3. ASSUME NEW f \in Reliable' PROVE NamesRow(f)' /\ \A c \in Clients : Delivered(c, f)'
  <2>1. f \in Reliable /\ f \notin Unpublished(w)
    BY <1>1, <1>3 DEF Reliable, InOrder
  <2>2. Of(Jobs, f)' = Of(Jobs, f)
    BY <1>t, <1>1, <2>1, JobsWithout DEF Unpublished
  <2>3. Travelling' = Travelling /\ \A c \in Clients : Queued(c)' = Queued(c)
    BY <1>1 DEF Travelling, Queued
  <2>4. /\ Of(Travelling, f)' = Of(Travelling, f)
        /\ \A c \in Clients : Of(Queued(c), f)' = Of(Queued(c), f)
    BY <2>3 DEF Of, SlotOf
  <2>5. \A c \in Clients : /\ Streams(c)' = Streams(c)
                           /\ Held(c)'[f] = Held(c)[f]
                           /\ StreamEnds(c)' = StreamEnds(c)
    BY <1>1, <2>3 DEF Streams, Held, StreamEnds
  <2> QED BY <1>1, <2>1, <2>2, <2>4, <2>5, OfEverywhere, FlagMoves
<1> QED BY <1>2, <1>3 DEF DeliveryInv

\* An instance dies: of the flags it had nothing to publish of, all others still
\* publish and forward what they did.
LEMMA CrashDelivers ==
    ASSUME IInv, DeliveryInv, TypeOK', NEW i \in Instances, Crash(i)
    PROVE  DeliveryInv'
<1> USE DEF dbVars, serverVars, connVars, sdkVars
<1>t. TypeOK /\ ServersOK
  BY DEF IInv, DeliveryInv
<1>1. /\ UNCHANGED <<row, tomb, segment, last, overtaken, view>>
      /\ unheard' = unheard \cup (IF resync[i] = "pending" THEN Flags
                      ELSE UNION {Unpublished(w) : w \in {v \in Writers : Home[v] = i}})
      /\ \A w \in Writers : job'[w] = IF Home[w] = i THEN NoJob ELSE job[w]
      /\ resync'[i] = "idle" /\ inbox'[i] = <<>>
      /\ \A j \in Instances : j # i => /\ resync'[j] = resync[j] /\ sub'[j] = sub[j]
                                      /\ inbox'[j] = inbox[j]
      /\ \A c \in Clients : IF at[c] = i THEN phase'[c] = "closed" /\ rx'[c] = <<>>
                             ELSE /\ phase'[c] = phase[c] /\ rx'[c] = rx[c]
                                  /\ boot'[c] = boot[c] /\ at'[c] = at[c]
  BY <1>t DEF Crash, Missed, Closed, TypeOK
<1>2. ServersOK'
  <2>1. \A w \in Writers : job'[w].pc \in {"idle", "insert"} => job'[w].todo = {}
    BY <1>t, <1>1 DEF ServersOK, NoJob, Working
  <2>2. \A j \in Instances : resync'[j] # "sent"
    BY <1>t, <1>1 DEF ServersOK
  <2> QED BY <1>t, <1>1, <2>1, <2>2 DEF ServersOK
<1>3. ASSUME NEW f \in Reliable' PROVE NamesRow(f)' /\ \A c \in Clients : Delivered(c, f)'
  <2>1. /\ f \in Reliable /\ f \in Flags /\ resync[i] # "pending"
        /\ \A w \in Writers : Home[w] = i => f \notin Unpublished(w)
    BY <1>1, <1>3 DEF Reliable, InOrder
  <2>2. Of(Jobs, f)' = Of(Jobs, f)
    BY <1>t, <1>1, <2>1, JobsWithout DEF Unpublished, NoJob, Working
  <2>3. Of(Travelling, f)' \subseteq Of(Travelling, f)
    <3>1. ToSet(<<>>) = {}
      BY DEF ToSet
    <3>2. Travelling' = (UNION {ToSet(inbox'[j]) : j \in Instances})
                           \cup (UNION {ToSet(rx'[c]) : c \in Clients})
      BY DEF Travelling, ToSet
    <3>3. Travelling' \subseteq Travelling
      BY <1>1, <3>1, <3>2 DEF Travelling
    <3>4. Of(Travelling, f)' = Of(Travelling', f)
      BY DEF Of, SlotOf
    <3> QED BY <3>3, <3>4, OfUnion
  <2>4. ASSUME NEW c \in Clients, Streams(c)'
        PROVE  /\ Streams(c)
               /\ Held(c)'[f] = Held(c)[f]
               /\ StreamEnds(c) => StreamEnds(c)'
               /\ Of(Queued(c) \cup Jobs, f)' = Of(Queued(c) \cup Jobs, f)
    <3>1. at[c] # i /\ at'[c] = at[c] /\ phase'[c] = phase[c] /\ boot'[c] = boot[c] /\ rx'[c] = rx[c]
      BY <1>1, <2>4 DEF Streams
    <3>2. Streams(c) /\ Held(c)'[f] = Held(c)[f]
      BY <1>1, <2>1, <2>4, <3>1, HeldSame
    <3>3. at[c] \in Instances
      BY <1>t, <3>2 DEF ServersOK, Streams
    <3>4. Queued(c)' = Queued(c)
      BY <1>1, <3>1, <3>3, QueuedAfter DEF Queued
    <3>5. StreamEnds(c) => StreamEnds(c)'
      BY <1>1, <2>1, <3>1, <3>3, <3>4 DEF StreamEnds
    <3>6. Of(Queued(c), f)' = Of(Queued(c), f)
      BY <3>4 DEF Of, SlotOf
    <3> QED BY <2>2, <3>2, <3>5, <3>6, OfEverywhere
  <2>5. Of(Everywhere, f)' \subseteq Of(Everywhere, f)
    BY <2>2, <2>3, OfEverywhere
  <2> QED BY <1>1, <2>1, <2>4, <2>5, FlagMoves
<1> QED BY <1>2, <1>3 DEF DeliveryInv

-----------------------------------------------------------------------------
(* The connections.                                                        *)

\* Connections open, replay and close; none of them starts a stream.
LEMMA ConnectionDelivers ==
    ASSUME IInv, DeliveryInv, Repaired, NEW c \in Clients,
           \/ \E i \in Instances : Connect(c, i)
           \/ \E f \in Flags : Replay(c, f)
           \/ EndStream(c) \/ ConnectionDrops(c)
    PROVE  DeliveryInv'
<1> USE DEF dbVars, serverVars, connVars, sdkVars
<1>t. TypeOK /\ ServersOK
  BY DEF IInv, DeliveryInv
<1>1. /\ UNCHANGED <<row, tomb, segment, last, overtaken, unheard, job, resync, sub, inbox, view>>
      /\ \A b \in Clients : phase'[b] # "closed" =>
            \/ phase'[b] = phase[b] /\ at'[b] = at[b] /\ boot'[b] = boot[b]
            \/ phase'[b] = "subscribed" /\ at'[b] \in Instances /\ sub[at'[b]] # "never"
      /\ \A b \in Clients : ToSet(rx'[b]) \subseteq ToSet(rx[b])
      /\ \A b \in Clients : phase'[b] = "closed" \/ rx'[b] = rx[b]
  <2>1. CASE EndStream(c) \/ ConnectionDrops(c)
    <3>1. Closed({c})
      BY <2>1 DEF EndStream, ConnectionDrops
    <3>2. ToSet(<<>>) = {}
      BY DEF ToSet
    <3> QED BY <2>1, <3>1, <3>2 DEF EndStream, ConnectionDrops, Closed
  <2>2. ASSUME NEW f \in Flags, Replay(c, f)
        PROVE  UNCHANGED <<row, tomb, segment, last, overtaken, unheard, job, resync, sub, inbox, view, phase, at, boot, rx>>
    BY <2>2 DEF Replay
  <2>3. ASSUME NEW i \in Instances, Connect(c, i)
        PROVE  /\ UNCHANGED <<row, tomb, segment, last, overtaken, unheard, job, resync, sub, inbox, view, boot, rx>>
               /\ phase' = [phase EXCEPT ![c] = "subscribed"] /\ at' = [at EXCEPT ![c] = i]
               /\ sub[i] # "never"
    BY <2>3 DEF Connect, Repaired
  <2> QED BY <1>t, <2>1, <2>2, <2>3 DEF TypeOK
<1>2. ServersOK'
  BY <1>1, <1>t DEF ServersOK
<1>3. Jobs' = Jobs
  BY <1>1 DEF Jobs
<1>4. Everywhere' \subseteq Everywhere \cup Signals
  BY <1>1, <1>3, EverywhereMember, EverywhereAfter
<1>5. ASSUME NEW b \in Clients, Streams(b)'
      PROVE  /\ Streams(b)
             /\ \A f \in Flags : Held(b)'[f] = Held(b)[f]
             /\ StreamEnds(b)' = StreamEnds(b)
             /\ (Queued(b) \cup Jobs)' = Queued(b) \cup Jobs
  <2>1. phase'[b] \in {"boot", "live"}
    BY <1>5 DEF Streams
  <2>2. phase'[b] = phase[b] /\ at'[b] = at[b] /\ boot'[b] = boot[b] /\ rx'[b] = rx[b]
    BY <1>1, <2>1
  <2>3. Streams(b) /\ \A f \in Flags : Held(b)'[f] = Held(b)[f]
    BY <1>1, <1>5, <2>2, HeldSame
  <2>4. Queued(b)' = Queued(b)
    BY <1>1, <2>2 DEF Queued
  <2> QED BY <1>1, <1>3, <2>2, <2>3, <2>4 DEF StreamEnds
<1> QED BY <1>1, <1>2, <1>4, <1>5, DeliveryMoves

\* "ready" changes where the flags are held, and nothing else.
LEMMA ReadyDelivers ==
    ASSUME IInv, DeliveryInv, NEW c \in Clients, Ready(c)
    PROVE  DeliveryInv'
<1> USE DEF dbVars, serverVars, connVars, sdkVars
<1>t. TypeOK /\ ServersOK /\ ReplayOK
  BY DEF IInv, DeliveryInv
<1>1. /\ UNCHANGED <<row, tomb, segment, last, overtaken, unheard, job, resync, sub, inbox, rx, at>>
      /\ \A b \in Clients \ {c} : /\ phase'[b] = phase[b] /\ boot'[b] = boot[b]
                                   /\ view'[b] = view[b]
      /\ phase[c] = "boot" /\ phase'[c] = "live" /\ todo[c] = {}
      /\ view'[c] = staged[c]
  BY <1>t DEF Ready, TypeOK
<1>2. ServersOK'
  BY <1>1, <1>t DEF ServersOK
<1>3. Jobs' = Jobs
  BY <1>1 DEF Jobs
<1>4. Everywhere' \subseteq Everywhere \cup Signals
  BY <1>1, <1>3 DEF Everywhere
<1>5. ASSUME NEW b \in Clients
      PROVE  /\ Streams(b)' = Streams(b)
             /\ \A f \in Flags : Held(b)'[f] = Held(b)[f]
             /\ StreamEnds(b)' = StreamEnds(b)
             /\ (Queued(b) \cup Jobs)' = Queued(b) \cup Jobs
  <2>1. Queued(b)' = Queued(b)
    BY <1>1 DEF Queued
  <2>2. StreamEnds(b)' = StreamEnds(b) /\ (Queued(b) \cup Jobs)' = Queued(b) \cup Jobs
    BY <1>1, <1>3, <2>1 DEF StreamEnds
  <2>3. CASE b # c
    BY <1>1, <2>2, <2>3, HeldSame
  <2>4. CASE b = c
    <3>1. \A f \in Flags : Held(c)'[f] = Held(c)[f]
      BY <1>1, <1>t DEF Held, ReplayOK
    <3> QED BY <1>1, <2>2, <2>4, <3>1 DEF Streams
  <2> QED BY <2>3, <2>4
<1> QED BY <1>1, <1>2, <1>4, <1>5, DeliveryMoves

\* What the database holds is the latest there is of a flag.
LEMMA SnapshotIsLatest ==
    ASSUME IInv, NEW f \in Reliable, NamesRow(f), NEW s \in Of(Everywhere, f),
           Stamp(DbSlot(f)) <= Stamp(s)
    PROVE  s.val = DbSlot(f).val
<1>f. f \in Flags /\ last[f] > overtaken[f]
  BY DEF Reliable, InOrder
<1>t. /\ TypeOK /\ last[f] \in Nat /\ row[f].rev \in Nat /\ tomb[f] \in Nat
      /\ row[f].data = Absent /\ tomb[f] = 0 => EventsOf(f) = {}
      /\ row[f].data # Absent => last[f] = 2 * row[f].rev
      /\ row[f].data = Absent /\ tomb[f] # 0 => last[f] = 2 * tomb[f] + 1
  BY <1>f, HistoryFacts DEF IInv
<1>s. /\ s \in Slot /\ s.rev # 0 /\ Stamp(s) \in Nat /\ Stamp(s) <= last[f]
      /\ EventsOf(f) # {}
  BY <1>f, EverywhereType
<1>v. s.rev \in Nat /\ Stamp(s) = (IF s.val = Absent THEN 2 * s.rev + 1 ELSE 2 * s.rev)
  BY <1>s, StampValue
<1>d. DbSlot(f) \in Slot
  BY <1>f, <1>t, DbSlotType
<1>e. /\ DbSlot(f).rev \in Nat
      /\ Stamp(DbSlot(f)) = (IF DbSlot(f).val = Absent THEN 2 * DbSlot(f).rev + 1 ELSE 2 * DbSlot(f).rev)
  BY <1>d, StampValue
<1>1. CASE row[f].data # Absent
  <2>1. Expand(row[f].data, segment) # Absent
    BY <1>1, <1>f, <1>t, ExpandType DEF TypeOK
  <2>2. DbSlot(f).val # Absent /\ DbSlot(f).rev = row[f].rev
    BY <1>1, <2>1 DEF DbSlot
  <2>3. last[f] = 2 * row[f].rev /\ row[f].rev \in Nat
    BY <1>1, <1>t
  <2>4. s.val # Absent /\ s.rev = row[f].rev
    BY <1>s, <1>v, <1>e, <2>2, <2>3
  <2> QED BY <1>1, <2>4 DEF NamesRow
<1>2. CASE row[f].data = Absent
  <2>1. tomb[f] # 0
    BY <1>2, <1>s, <1>t
  <2>2. DbSlot(f).val = Absent /\ DbSlot(f).rev = tomb[f]
    BY <1>2 DEF DbSlot
  <2>3. last[f] = 2 * tomb[f] + 1 /\ tomb[f] \in Nat
    BY <1>2, <1>t, <2>1
  <2>4. s.val = Absent
    BY <1>s, <1>v, <1>e, <2>2, <2>3
  <2> QED BY <2>2, <2>4
<1> QED BY <1>1, <1>2

LEMMA SnapshotDelivers ==
    ASSUME IInv, DeliveryInv, NEW c \in Clients, ReadSnapshot(c)
    PROVE  DeliveryInv'
<1> USE DEF dbVars, serverVars, connVars, sdkVars
<1>t. TypeOK /\ ServersOK
  BY DEF IInv, DeliveryInv
<1>1. /\ UNCHANGED <<row, tomb, segment, last, overtaken, unheard, job, resync, sub, inbox, rx, at, view>>
      /\ \A b \in Clients \ {c} : phase'[b] = phase[b] /\ boot'[b] = boot[b]
      /\ phase[c] = "subscribed" /\ phase'[c] = "boot"
      /\ boot'[c] = [f \in Flags |-> DbSlot(f)]
  BY <1>t DEF ReadSnapshot, TypeOK
<1>r. Reliable' = Reliable /\ Reliable \subseteq Flags
  BY <1>1 DEF Reliable, InOrder
<1>2. ServersOK'
  BY <1>1, <1>t DEF ServersOK
<1>3. Jobs' = Jobs /\ \A b \in Clients : Queued(b)' = Queued(b)
  BY <1>1 DEF Jobs, Queued
<1>4. Everywhere' = Everywhere
  BY <1>1, <1>3 DEF Everywhere
<1>5. ASSUME NEW f \in Flags
      PROVE  /\ DbSlot(f)' = DbSlot(f) /\ Of(Everywhere, f)' = Of(Everywhere, f)
             /\ \A b \in Clients : Of(Queued(b) \cup Jobs, f)' = Of(Queued(b) \cup Jobs, f)
  BY <1>1, <1>3, <1>4 DEF DbSlot, Of, SlotOf
<1>6. ASSUME NEW f \in Reliable PROVE NamesRow(f)'
  <2>1. NamesRow(f)
    BY DEF DeliveryInv
  <2> QED BY <1>1, <1>5, <1>r, <2>1 DEF NamesRow
<1>7. ASSUME NEW b \in Clients, NEW f \in Reliable PROVE Delivered(b, f)'
  <2>1. CASE b # c
    <3>1. Streams(b)' = Streams(b) /\ StreamEnds(b)' = StreamEnds(b)
      BY <1>1, <1>3, <2>1 DEF Streams, StreamEnds
    <3>2. Held(b)' = Held(b)
      BY <1>1, <2>1 DEF Held
    <3>3. Heard(b, f)' = Heard(b, f)
      BY <1>5, <1>r, <3>2 DEF Heard
    <3>4. LatestRight(b, f)' = LatestRight(b, f)
      BY <1>5, <1>r, <3>3 DEF LatestRight, Stamp
    <3> QED BY <3>1, <3>4 DEF DeliveryInv, Delivered
  <2>2. CASE b = c
    <3>1. Heard(c, f)' = {DbSlot(f)} \cup Of(Queued(c) \cup Jobs, f)
      <4>1. Held(c)'[f] = DbSlot(f)
        BY <1>1, <1>r DEF Held
      <4>2. Heard(c, f)' = {Held(c)'[f]} \cup Of(Queued(c) \cup Jobs, f)'
        BY DEF Heard
      <4> QED BY <1>5, <1>r, <4>1, <4>2
    <3>2. Of(Queued(c) \cup Jobs, f) \subseteq Of(Everywhere, f)
      <4>1. at[c] \in Instances
        BY <1>1, <1>t DEF ServersOK
      <4>2. Queued(c) \cup Jobs \subseteq Everywhere
        BY <4>1 DEF Queued, Everywhere
      <4> QED BY <4>2, OfUnion
    <3>3. ASSUME NEW s \in Heard(c, f)', \A t \in Heard(c, f)' : Stamp(t) <= Stamp(s)
          PROVE  s.val = DbSlot(f).val
      <4>1. Stamp(DbSlot(f)) <= Stamp(s)
        BY <3>1, <3>3
      <4>2. NamesRow(f)
        BY DEF DeliveryInv
      <4> QED BY <3>1, <3>2, <4>1, <4>2, SnapshotIsLatest
    <3>4. LatestRight(c, f)'
      BY <1>5, <1>r, <3>3 DEF LatestRight, Stamp
    <3> QED BY <2>2, <3>4 DEF Delivered
  <2> QED BY <2>1, <2>2
<1> QED BY <1>2, <1>6, <1>7, <1>r DEF DeliveryInv

\* The client reads an event: it takes it, or it held something later.
LEMMA ReceiveDelivers ==
    ASSUME IInv, DeliveryInv, NEW c \in Clients, Receive(c)
    PROVE  DeliveryInv'
<1> USE DEF dbVars, serverVars, connVars, sdkVars
<1> DEFINE m == Head(rx[c])
<1>t. TypeOK /\ ServersOK
  BY DEF IInv, DeliveryInv
<1>1. /\ UNCHANGED <<row, tomb, segment, last, overtaken, unheard, job, resync, sub, inbox, phase, at, boot>>
      /\ phase[c] = "live" /\ rx[c] # <<>> /\ m.type = "change"
      /\ rx[c] \in Seq(Message \cup {Lagged})
      /\ \A b \in Clients : rx'[b] = IF b = c THEN Tail(rx[c]) ELSE rx[b]
      /\ Apply(c, m)
  BY <1>t DEF Receive, TypeOK
<1>2. ToSet(rx[c]) = {m} \cup ToSet(Tail(rx[c]))
  BY <1>1, QueueHead
<1>3. m \in Change /\ m.key \in Flags
  <2>1. m \in Message \cup {Lagged}
    BY <1>1, HeadTailProperties
  <2>2. m \in Change
    BY <1>1, <2>1 DEF Message, Resync, Lagged
  <2> QED BY <2>2 DEF Change
<1> HIDE DEF m
<1>4. /\ \A b \in Clients \ {c} : view'[b] = view[b]
      /\ \A f \in Flags : f # m.key => view'[c][f] = view[c][f]
      /\ IF IsStale(view[c][m.key], m) THEN view'[c][m.key] = view[c][m.key]
                                       ELSE view'[c][m.key] = SlotOf(m)
  <2> DEFINE s == SlotOf(m)
             k == m.key
  <2>1. IF IsStale(view[c][k], m) THEN view' = view
                                  ELSE view' = [view EXCEPT ![c] = [view[c] EXCEPT ![k] = s]]
    BY <1>1 DEF Apply
  <2>2. view \in [Clients -> [Flags -> Slot]] /\ k \in Flags
    BY <1>t, <1>3 DEF TypeOK
  <2> HIDE DEF s, k
  <2>3. /\ \A b \in Clients \ {c} : view'[b] = view[b]
        /\ \A f \in Flags : f # k => view'[c][f] = view[c][f]
        /\ IF IsStale(view[c][k], m) THEN view'[c][k] = view[c][k] ELSE view'[c][k] = s
    BY <2>1, <2>2
  <2> QED BY <2>3 DEF s, k
<1>r. Reliable' = Reliable /\ Reliable \subseteq Flags
  BY <1>1 DEF Reliable, InOrder
<1>5. ServersOK'
  BY <1>1, <1>t DEF ServersOK
<1>6. Jobs' = Jobs
  BY <1>1 DEF Jobs
<1>7. Everywhere' \subseteq Everywhere \cup Signals
  BY <1>1, <1>2, <1>6, EverywhereMember, EverywhereAfter
<1>d. \A f \in Flags : row'[f] = row[f] /\ DbSlot(f)' = DbSlot(f)
  BY <1>1 DEF DbSlot
<1>8. ASSUME NEW f \in Reliable PROVE NamesRow(f)'
  <2>1. Of(Everywhere, f)' \subseteq Of(Everywhere, f)
    <3>1. Of(Everywhere, f)' = Of(Everywhere', f)
      BY DEF Of, SlotOf
    <3> QED BY <1>7, <3>1, OfUnion
  <2> QED BY <1>d, <1>r, <2>1, KinSame, NamesKept DEF DeliveryInv
<1>9. ASSUME NEW f \in Reliable PROVE Delivered(c, f)'
  <2>1. Queued(c) = Queued(c)' \cup {m}
    <3>1. Queued(c)' = ToSet(Tail(rx[c])) \cup ToSet(inbox[at[c]])
      BY <1>1, QueuedAfter
    <3> QED BY <1>2, <3>1 DEF Queued
  <2>2. Streams(c) /\ Streams(c)' /\ at[c] \in Instances /\ f \in Flags
    BY <1>1, <1>r, <1>t DEF Streams, ServersOK
  <2>3. StreamEnds(c) => StreamEnds(c)'
    BY <1>1, <2>1 DEF StreamEnds
  <2>4. Of(Queued(c) \cup Jobs, f)' \subseteq Of(Queued(c) \cup Jobs, f)
    <3>1. Of(Queued(c) \cup Jobs, f)' = Of(Queued(c)' \cup Jobs', f)
      BY DEF Of, SlotOf
    <3>2. Queued(c)' \cup Jobs' \subseteq Queued(c) \cup Jobs
      BY <1>6, <2>1
    <3> QED BY <3>1, <3>2, OfUnion
  <2>5. \A s \in Of(Queued(c) \cup Jobs, f) :
           s \in Of(Queued(c) \cup Jobs, f)' \/ (m.key = f /\ s = SlotOf(m))
    <3>1. Of(Queued(c) \cup Jobs, f)' = Of(Queued(c)' \cup Jobs', f)
      BY DEF Of, SlotOf
    <3>2. Queued(c) \cup Jobs = (Queued(c)' \cup Jobs') \cup {m}
      BY <1>6, <2>1
    <3>3. Of(Queued(c) \cup Jobs, f) = Of(Queued(c)' \cup Jobs', f) \cup Of({m}, f)
      BY <3>2, OfUnion
    <3>4. \A s \in Of({m}, f) : m.key = f /\ s = SlotOf(m)
      BY DEF Of
    <3> QED BY <3>1, <3>3, <3>4
  <2>6. /\ Heard(c, f) = {view[c][f]} \cup Of(Queued(c) \cup Jobs, f)
        /\ Heard(c, f)' = {view'[c][f]} \cup Of(Queued(c) \cup Jobs, f)'
    BY <1>1 DEF Heard, Held
  <2>7. view'[c][f] = view[c][f] \/ (m.key = f /\ view'[c][f] = SlotOf(m))
    BY <1>4, <2>2
  <2>8. m.key = f => SlotOf(m) \in Of(Queued(c) \cup Jobs, f)
    <3>1. m \in Queued(c) \cup Jobs
      BY <2>1
    <3> QED BY <1>1, <3>1 DEF Of
  <2>9. Heard(c, f)' \subseteq Heard(c, f)
    BY <2>4, <2>6, <2>7, <2>8
  <2>10. ASSUME NEW s \in Heard(c, f) PROVE \E t \in Heard(c, f)' : Stamp(s) <= Stamp(t)
    <3>0. Stamp(s) \in Nat
      BY <2>2, HeardType
    <3>1. CASE s \in Heard(c, f)'
      <4>1. Stamp(s) <= Stamp(s)
        BY <3>0
      <4> QED BY <3>1, <4>1
    <3>2. CASE s \notin Heard(c, f)'
      <4>1. m.key = f /\ (s = view[c][f] \/ s = SlotOf(m))
        BY <2>5, <2>6, <2>7, <3>2
      <4>2. /\ view[c][f] \in Slot /\ SlotOf(m) \in Slot
            /\ SlotOf(m).rev = m.rev /\ SlotOf(m).val = m.val
            /\ view[c][f].rev = 0 => view[c][f] = Unknown
            /\ m.rev # 0
        <5>1. view[c][f].rev = 0 => view[c][f] = Unknown
          BY <1>1, <2>2, HeardType DEF Held
        <5>2. SlotOf(m).rev # 0
          BY <2>2, <2>8, <4>1, EverywhereType, HeardType
        <5> QED BY <1>3, <1>t, <2>2, <5>1, <5>2 DEF TypeOK, Change, Slot, SlotOf
      <4> DEFINE h == view[c][f]
                 e == SlotOf(m)
      <4>3. /\ h.rev \in Nat /\ Stamp(h) = (IF h.val = Absent THEN 2 * h.rev + 1 ELSE 2 * h.rev)
            /\ e.rev \in Nat /\ Stamp(e) = (IF e.val = Absent THEN 2 * e.rev + 1 ELSE 2 * e.rev)
        BY <4>2, StampValue
      <4>4. CASE IsStale(view[c][m.key], m)
        <5>1. h \in Heard(c, f)'
          BY <1>4, <2>6, <4>1, <4>4
        <5>2. IsStale(h, m)
          BY <4>1, <4>4
        <5>3. Stamp(e) <= Stamp(h)
          <6> HIDE DEF h, e
          <6>1. /\ h.rev # 0
                /\ IF m.val # Absent /\ h.val = Absent THEN m.rev <= h.rev ELSE m.rev < h.rev
            BY <5>2 DEF IsStale
          <6>2. e.rev = m.rev /\ e.val = m.val
            BY <4>2 DEF e
          <6> QED BY <4>3, <6>1, <6>2
        <5>4. s = e
          BY <3>2, <4>1, <5>1
        <5> QED BY <5>1, <5>3, <5>4
      <4>5. CASE ~IsStale(view[c][m.key], m)
        <5>1. e \in Heard(c, f)'
          BY <1>4, <2>6, <4>1, <4>5
        <5>2. ~IsStale(h, m)
          BY <4>1, <4>5
        <5>3. Stamp(h) <= Stamp(e)
          <6>1. CASE h.rev = 0
            <7>1. Stamp(h) = 1
              BY <4>2, <6>1 DEF Unknown, Stamp
            <7>2. e.rev # 0
              BY <4>2
            <7> HIDE DEF h, e
            <7> QED BY <4>3, <7>1, <7>2
          <6>2. CASE h.rev # 0
            <7>1. e.rev = m.rev /\ e.val = m.val
              BY <4>2
            <7> HIDE DEF h, e
            <7>2. IF m.val # Absent /\ h.val = Absent THEN ~(m.rev <= h.rev) ELSE ~(m.rev < h.rev)
              BY <5>2, <6>2 DEF IsStale
            <7> QED BY <4>3, <7>1, <7>2
          <6> QED BY <6>1, <6>2
        <5>4. s = h
          BY <3>2, <4>1, <5>1
        <5> QED BY <5>1, <5>3, <5>4
      <4> QED BY <4>4, <4>5
    <3> QED BY <3>1, <3>2
  <2> QED BY <1>d, <2>2, <2>3, <2>9, <2>10, KinSame, StreamKept
<1>10. ASSUME NEW b \in Clients \ {c}, NEW f \in Reliable PROVE Delivered(b, f)'
  <2>1. Queued(b)' = Queued(b)
    BY <1>1 DEF Queued
  <2>2. Streams(b)' = Streams(b) /\ StreamEnds(b)' = StreamEnds(b)
    BY <1>1, <2>1 DEF Streams, StreamEnds
  <2>3. Held(b)' = Held(b)
    BY <1>1, <1>4 DEF Held
  <2>4. Of(Queued(b) \cup Jobs, f)' = Of(Queued(b) \cup Jobs, f)
    BY <1>6, <2>1 DEF Of, SlotOf
  <2>5. Heard(b, f)' = Heard(b, f)
    BY <2>3, <2>4 DEF Heard
  <2>6. LatestRight(b, f)' = LatestRight(b, f)
    BY <1>d, <1>r, <2>5 DEF LatestRight, Stamp
  <2> QED BY <2>2, <2>6 DEF DeliveryInv, Delivered
<1> QED BY <1>5, <1>8, <1>9, <1>10, <1>r DEF DeliveryInv

-----------------------------------------------------------------------------
(* The transactions.                                                       *)

\* Handler w commits, and has J to do.
Commits(w, J) ==
    /\ job[w].pc \in {"idle", "insert"}
    /\ job' = [job EXCEPT ![w] = J]
    /\ J.pc \in {"idle", "insert"} => J.todo = {}
    /\ segment' \in Rules \cup {NoSegment}
    /\ UNCHANGED <<resync, sub, inbox, rx, phase, at, view, boot>>

\* Other segments change what an expansion brings, and not whose it is.
LEMMA ComingShift ==
    ASSUME TypeOK, NEW v \in Writers,
           NEW r \in Rules \cup {NoSegment}, NEW s \in Rules \cup {NoSegment},
           NEW m \in ComingOf(job[v], r)
    PROVE  \E n \in ComingOf(job[v], s) :
              /\ n.type = m.type /\ n.key = m.key /\ n.rev = m.rev
              /\ n.val = Absent <=> m.val = Absent
              /\ n.val = m.val \/ \E d \in Data : m.val = Expand(d, r) /\ n.val = Expand(d, s)
<1>t. job[v] \in Job /\ job[v].todo \subseteq Change
  BY DEF TypeOK, Job
<1>1. CASE job[v].pc = "expand"
  <2>1. PICK k \in job[v].todo : m = [k EXCEPT !.val = Expand(k.val.data, r)]
    BY <1>1 DEF ComingOf
  <2> DEFINE n == [k EXCEPT !.val = Expand(k.val.data, s)]
  <2>2. k \in Change /\ k.val \in Content /\ k.val.data \in Data
    <3>1. k \in Change /\ k.val # Absent
      BY <1>1, <1>t DEF TypeOK
    <3> QED BY <3>1 DEF Change, Content
  <2>3. n \in ComingOf(job[v], s)
    BY <1>1 DEF ComingOf
  <2>4. /\ n.type = m.type /\ n.key = m.key /\ n.rev = m.rev
        /\ m.val = Expand(k.val.data, r) /\ n.val = Expand(k.val.data, s)
    BY <2>1, <2>2 DEF Change
  <2>5. m.val # Absent /\ n.val # Absent
    BY <2>2, <2>4, ExpandType
  <2> QED BY <2>2, <2>3, <2>4, <2>5
<1>2. CASE job[v].pc # "expand"
  BY <1>2 DEF ComingOf
<1> QED BY <1>1, <1>2

\* What will be published of f after a commit: what would have been, and what
\* the commit brings.
LEMMA JobsAfter ==
    ASSUME TypeOK, ServersOK, NEW w \in Writers, NEW J, Commits(w, J), NEW f \in Flags,
           NEW x, \A d \in Data : Expand(d, segment) = x => Expand(d, segment') = x
    PROVE  /\ \A t \in Of(Jobs, f)' : \/ t \in Of(ComingOf(J, segment'), f)
                                      \/ \E s \in Of(Jobs, f) : Kin(s, t, x)
           /\ \A s \in Of(Jobs, f) : \E t \in Of(Jobs, f)' : Stamp(s) = Stamp(t)
           /\ Of(ComingOf(J, segment'), f) \subseteq Of(Jobs, f)'
<1>t. segment \in Rules \cup {NoSegment} /\ segment' \in Rules \cup {NoSegment}
  BY DEF TypeOK, Commits
<1>j. job'[w] = J /\ \A v \in Writers : v # w => job'[v] = job[v]
  BY DEF TypeOK, Commits
<1>e. ComingOf(job[w], segment) = {}
  BY DEF ServersOK, Commits, ComingOf
<1>1. Jobs' = UNION {ComingOf(job'[v], segment') : v \in Writers}
  BY DEF Jobs, ComingOf
<1>2. Of(Jobs, f)' = Of(Jobs', f)
  BY DEF Of, SlotOf
<1>3. Of(ComingOf(J, segment'), f) \subseteq Of(Jobs, f)'
  <2>1. ComingOf(J, segment') \subseteq Jobs'
    BY <1>1, <1>j
  <2> QED BY <1>2, <2>1, OfUnion
<1>4. ASSUME NEW t \in Of(Jobs, f)', t \notin Of(ComingOf(J, segment'), f)
      PROVE  \E s \in Of(Jobs, f) : Kin(s, t, x)
  <2>1. PICK n \in Jobs' : n.type = "change" /\ n.key = f /\ t = SlotOf(n)
    BY <1>2 DEF Of
  <2>2. PICK v \in Writers : n \in ComingOf(job'[v], segment')
    BY <1>1, <2>1
  <2>3. v # w
    BY <1>4, <1>j, <2>1, <2>2 DEF Of
  <2>4. n \in ComingOf(job[v], segment')
    BY <1>j, <2>2, <2>3
  <2>5. PICK m \in ComingOf(job[v], segment) :
              /\ m.type = n.type /\ m.key = n.key /\ m.rev = n.rev
              /\ m.val = Absent <=> n.val = Absent
              /\ \/ m.val = n.val
                 \/ \E d \in Data : n.val = Expand(d, segment') /\ m.val = Expand(d, segment)
    BY <1>t, <2>4, ComingShift
  <2>6. SlotOf(m) \in Of(Jobs, f)
    BY <2>1, <2>5, JobsMember DEF Of
  <2>7. Kin(SlotOf(m), t, x)
    BY <2>1, <2>5 DEF Kin, SlotOf
  <2> QED BY <2>6, <2>7
<1>5. ASSUME NEW s \in Of(Jobs, f)
      PROVE  \E t \in Of(Jobs, f)' : Stamp(s) = Stamp(t)
  <2>1. PICK m \in Jobs : m.type = "change" /\ m.key = f /\ s = SlotOf(m)
    BY DEF Of
  <2>2. PICK v \in Writers : m \in ComingOf(job[v], segment)
    BY <2>1 DEF Jobs
  <2>3. v # w
    BY <1>e, <2>2
  <2>4. PICK n \in ComingOf(job[v], segment') :
              /\ n.type = m.type /\ n.key = m.key /\ n.rev = m.rev
              /\ n.val = Absent <=> m.val = Absent
              /\ \/ n.val = m.val
                 \/ \E d \in Data : m.val = Expand(d, segment) /\ n.val = Expand(d, segment')
    BY <1>t, <2>2, ComingShift
  <2>5. SlotOf(n) \in Of(Jobs', f)
    <3>1. n \in Jobs'
      BY <1>1, <1>j, <2>3, <2>4
    <3> QED BY <2>1, <2>4, <3>1 DEF Of
  <2>6. Stamp(s) = Stamp(SlotOf(n))
    BY <2>1, <2>4 DEF Stamp, SlotOf
  <2> QED BY <1>2, <2>5, <2>6
<1> QED BY <1>3, <1>4, <1>5

LEMMA CommitServers ==
    ASSUME TypeOK, ServersOK, NEW w \in Writers, NEW J, Commits(w, J)
    PROVE  ServersOK'
<1>1. /\ UNCHANGED <<resync, sub, phase, at>>
      /\ job'[w] = J /\ \A v \in Writers : v # w => job'[v] = job[v]
      /\ J.pc \in {"idle", "insert"} => J.todo = {}
  BY DEF Commits, TypeOK
<1> QED BY <1>1 DEF ServersOK

\* Whoever is reliable after a commit was so before it, or is written above all
\* that was committed of it.
LEMMA ReliableAfter ==
    ASSUME TypeOK, NEW S \in SUBSET Flags, NEW stamp \in [S -> Nat], Committed(stamp),
           NEW f \in Reliable'
    PROVE  f \in Flags /\ IF f \in S THEN stamp[f] > last[f] ELSE f \in Reliable
<1>1. f \in Flags /\ last'[f] > overtaken'[f] /\ f \notin unheard'
  BY DEF Reliable, InOrder
<1>2. last[f] \in Nat
  BY <1>1 DEF TypeOK
<1>3. CASE f \in S
  <2>1. ~(stamp[f] > last[f]) => last'[f] = last[f] /\ overtaken'[f] = last[f]
    BY <1>3, CommittedFacts
  <2> QED BY <1>1, <1>2, <1>3, <2>1
<1>4. CASE f \notin S
  <2>1. last'[f] = last[f] /\ overtaken'[f] = overtaken[f] /\ unheard' = unheard \ S
    BY <1>1, <1>4, CommittedFacts
  <2> QED BY <1>1, <1>4, <2>1 DEF Reliable, InOrder
<1> QED BY <1>1, <1>3, <1>4

\* What a commit leaves alone.
LEMMA CommitFrame ==
    ASSUME NEW w \in Writers, NEW J, Commits(w, J), NEW f \in Flags
    PROVE  /\ Of(Everywhere, f)' = Of(Jobs, f)' \cup Of(Travelling, f)
           /\ Of(Everywhere, f) = Of(Jobs, f) \cup Of(Travelling, f)
           /\ \A c \in Clients :
                /\ Streams(c)' = Streams(c)
                /\ StreamEnds(c)' = StreamEnds(c)
                /\ Held(c)'[f] = Held(c)[f]
                /\ Of(Queued(c) \cup Jobs, f)' = Of(Jobs, f)' \cup Of(Queued(c), f)
                /\ Of(Queued(c) \cup Jobs, f) = Of(Jobs, f) \cup Of(Queued(c), f)
<1>c. UNCHANGED <<resync, sub, inbox, rx, phase, at, view, boot>>
  BY DEF Commits
<1>2. Everywhere = Jobs \cup Travelling /\ Everywhere' = Jobs' \cup Travelling
  <2>1. Travelling' = Travelling
    BY <1>c DEF Travelling
  <2>2. Everywhere = Jobs \cup Travelling
    BY DEF Everywhere, Travelling
  <2>3. Everywhere' = Jobs' \cup Travelling'
    BY DEF Everywhere, Travelling
  <2> QED BY <2>1, <2>2, <2>3
<1>3. Of(Everywhere, f)' = Of(Everywhere', f) /\ Of(Jobs, f)' = Of(Jobs', f)
  BY DEF Of, SlotOf
<1>4. ASSUME NEW c \in Clients
      PROVE  /\ Streams(c)' = Streams(c)
             /\ StreamEnds(c)' = StreamEnds(c)
             /\ Held(c)'[f] = Held(c)[f]
             /\ Of(Queued(c) \cup Jobs, f)' = Of(Jobs, f)' \cup Of(Queued(c), f)
             /\ Of(Queued(c) \cup Jobs, f) = Of(Jobs, f) \cup Of(Queued(c), f)
  <2>1. Queued(c)' = Queued(c)
    BY <1>c DEF Queued
  <2>2. Of(Queued(c) \cup Jobs, f)' = Of(Queued(c)' \cup Jobs', f)
    BY DEF Of, SlotOf
  <2>3. /\ Streams(c)' = Streams(c) /\ StreamEnds(c)' = StreamEnds(c)
        /\ Held(c)'[f] = Held(c)[f]
    BY <1>c, <2>1, HeldSame DEF StreamEnds
  <2>4. Of(Queued(c) \cup Jobs, f)' = Of(Jobs, f)' \cup Of(Queued(c), f)
    <3>1. Of(Queued(c) \cup Jobs, f)' = Of(Queued(c) \cup Jobs', f)
      BY <2>1, <2>2
    <3> QED BY <1>3, <3>1, OfUnion
  <2>5. Of(Queued(c) \cup Jobs, f) = Of(Jobs, f) \cup Of(Queued(c), f)
    BY OfUnion
  <2> QED BY <2>3, <2>4, <2>5
<1>5. /\ Of(Everywhere, f)' = Of(Jobs, f)' \cup Of(Travelling, f)
      /\ Of(Everywhere, f) = Of(Jobs, f) \cup Of(Travelling, f)
  BY <1>2, <1>3, OfUnion
<1> QED BY <1>4, <1>5

\* A flag the commit does not touch.
LEMMA CommitLeaves ==
    ASSUME IInv, DeliveryInv, NEW w \in Writers, NEW J, Commits(w, J), NEW f \in Reliable,
           \A d \in Data : Expand(d, segment) = DbSlot(f).val => Expand(d, segment') = DbSlot(f).val,
           Of(ComingOf(J, segment'), f) = {},
           row'[f] = row[f], DbSlot(f)'.val = DbSlot(f).val
    PROVE  NamesRow(f)' /\ \A c \in Clients : Delivered(c, f)'
<1>t. TypeOK /\ ServersOK /\ NamesRow(f) /\ f \in Flags
  BY DEF IInv, DeliveryInv, Reliable
<1>1. /\ \A t \in Of(Jobs, f)' : \E s \in Of(Jobs, f) : Kin(s, t, DbSlot(f).val)
      /\ \A s \in Of(Jobs, f) : \E t \in Of(Jobs, f)' : Stamp(s) = Stamp(t)
  BY <1>t, JobsAfter
<1>2. NamesRow(f)'
  <2>1. \A t \in Of(Everywhere, f)' : \E s \in Of(Everywhere, f) : Kin(s, t, DbSlot(f).val)
    BY <1>t, <1>1, CommitFrame, KinSame
  <2> QED BY <1>t, <2>1, NamesKept
<1>3. ASSUME NEW c \in Clients PROVE Delivered(c, f)'
  <2>1. /\ Streams(c)' = Streams(c) /\ StreamEnds(c)' = StreamEnds(c)
        /\ Held(c)'[f] = Held(c)[f]
        /\ Of(Queued(c) \cup Jobs, f)' = Of(Jobs, f)' \cup Of(Queued(c), f)
        /\ Of(Queued(c) \cup Jobs, f) = Of(Jobs, f) \cup Of(Queued(c), f)
    BY <1>t, CommitFrame
  <2>2. CASE ~Streams(c)
    BY <2>1, <2>2 DEF Delivered
  <2>3. CASE Streams(c)
    <3>1. at[c] \in Instances
      BY <1>t, <2>3 DEF ServersOK, Streams
    <3>2. /\ Heard(c, f)' = {Held(c)[f]} \cup Of(Jobs, f)' \cup Of(Queued(c), f)
          /\ Heard(c, f) = {Held(c)[f]} \cup Of(Jobs, f) \cup Of(Queued(c), f)
      BY <2>1 DEF Heard
    <3>3. \A s \in Heard(c, f) : Stamp(s) \in Nat
      BY <1>t, <2>3, <3>1, HeardType
    <3>4. \A t \in Heard(c, f)' : \E s \in Heard(c, f) : Kin(s, t, DbSlot(f).val)
      BY <1>1, <3>2, KinSame
    <3>5. ASSUME NEW s \in Heard(c, f) PROVE \E t \in Heard(c, f)' : Stamp(s) <= Stamp(t)
      <4>1. \E t \in Heard(c, f)' : Stamp(s) = Stamp(t)
        BY <1>1, <3>2
      <4> QED BY <3>3, <4>1
    <3> QED BY <2>1, <3>4, <3>5, StreamKept
  <2> QED BY <2>2, <2>3
<1> QED BY <1>2, <1>3

\* A flag the commit writes: what it brings of it is the newest there is.
LEMMA CommitBrings ==
    ASSUME IInv, DeliveryInv, NEW w \in Writers, NEW J, Commits(w, J), NEW f \in Flags,
           NEW n, Of(ComingOf(J, segment'), f) = {n}, n \in Slot, Stamp(n) > last[f],
           n.val = DbSlot(f)'.val,
           row'[f].data # Absent => n.val # Absent /\ n.rev = row'[f].rev
    PROVE  NamesRow(f)' /\ \A c \in Clients : Delivered(c, f)'
<1>t. TypeOK /\ ServersOK /\ last[f] \in Nat /\ Stamp(n) \in Nat
  BY StampValue DEF IInv, DeliveryInv, TypeOK
<1>1. /\ \A t \in Of(Jobs, f)' : t = n \/ \E s \in Of(Jobs, f) : Kin(s, t, Absent)
      /\ n \in Of(Jobs, f)'
  <2>1. \A d \in Data : Expand(d, segment) = Absent => Expand(d, segment') = Absent
    BY <1>t, ExpandType DEF TypeOK
  <2> QED BY <1>t, <2>1, JobsAfter
<1>2. ASSUME NEW t \in Of(Everywhere, f)', t # n
      PROVE  \E s \in Of(Everywhere, f) : Kin(s, t, Absent)
  BY <1>t, <1>1, <1>2, CommitFrame, KinSame
<1>3. ASSUME NEW t \in Of(Everywhere, f)', t # n
      PROVE  /\ Stamp(t) \in Nat /\ Stamp(t) <= last[f]
             /\ t.val # Absent /\ n.val # Absent => t.rev # n.rev
  <2>1. PICK s \in Of(Everywhere, f) : Kin(s, t, Absent)
    BY <1>2, <1>3
  <2>2. Stamp(t) = Stamp(s) /\ Stamp(s) \in Nat /\ Stamp(s) <= last[f]
    BY <2>1, KinStamp, EverywhereType
  <2>3. ASSUME t.val # Absent, n.val # Absent PROVE t.rev # n.rev
    <3>1. Stamp(t) # Stamp(n)
      BY <1>t, <2>2
    <3> QED BY <2>3, <3>1 DEF Stamp
  <2> QED BY <2>2, <2>3
<1>4. NamesRow(f)'
  BY <1>3 DEF NamesRow
<1>5. ASSUME NEW c \in Clients PROVE Delivered(c, f)'
  <2>1. /\ Streams(c)' = Streams(c) /\ Held(c)'[f] = Held(c)[f]
        /\ Of(Queued(c) \cup Jobs, f)' = Of(Jobs, f)' \cup Of(Queued(c), f)
    BY <1>t, CommitFrame
  <2>2. CASE ~Streams(c)
    BY <2>1, <2>2 DEF Delivered
  <2>3. CASE Streams(c)
    <3>1. Of(Queued(c), f) \subseteq Of(Travelling, f)
      <4>1. at[c] \in Instances
        BY <1>t, <2>3 DEF ServersOK, Streams
      <4>2. Queued(c) \subseteq Travelling
        BY <4>1 DEF Queued, Travelling
      <4> QED BY <4>2, OfUnion
    <3>2. Of(Queued(c) \cup Jobs, f)' \subseteq Of(Everywhere, f)'
      BY <1>t, <2>1, <3>1, CommitFrame
    <3>3. \A t \in Of(Queued(c) \cup Jobs, f)' : t = n \/ Stamp(t) <= last[f]
      BY <1>3, <3>2
    <3>4. \A t \in Of(Queued(c) \cup Jobs, f)' : Stamp(t) \in Nat
      BY <1>3, <1>t, <3>2
    <3>5. n \in Of(Queued(c) \cup Jobs, f)'
      BY <1>1, <2>1
    <3> QED BY <2>1, <3>3, <3>4, <3>5, StreamGains
  <2> QED BY <2>2, <2>3
<1> QED BY <1>4, <1>5

LEMMA FlagDelivers ==
    ASSUME IInv, DeliveryInv, NEW w \in Writers, NEW g \in Flags, NEW d \in Data, NEW r \in Revision,
           StoreFlag(w, g, d, r), job[w].pc \in {"idle", "insert"}
    PROVE  DeliveryInv'
<1> USE DEF dbVars, serverVars, connVars, sdkVars
<1> DEFINE e == ChangeOf(g, [val |-> Expand(d, NoSegment), rev |-> r])
           J == Working("expand", {e})
           n == [val |-> Expand(d, segment), rev |-> r]
           stamp == [f \in {g} |-> 2 * r]
<1>t. TypeOK /\ ServersOK /\ segment \in Rules \cup {NoSegment} /\ r \in Nat
  BY BoundsAssumption DEF IInv, DeliveryInv, TypeOK
<1>1. /\ row' = [row EXCEPT ![g] = [data |-> d, rev |-> r]]
      /\ UNCHANGED segment
      /\ \A f \in Flags \ {g} : row'[f] = row[f] /\ tomb'[f] = tomb[f]
  BY <1>t DEF StoreFlag, TypeOK
<1>2. Commits(w, J)
  BY <1>t DEF StoreFlag, Commits, Working
<1>3. ServersOK'
  BY <1>t, <1>2, CommitServers
<1>4. \A f \in Flags : Of(ComingOf(J, segment'), f) = IF f = g THEN {n} ELSE {}
  <2> DEFINE x == [e EXCEPT !.val = Expand(e.val.data, segment)]
  <2>1. x.type = "change" /\ x.key = g /\ SlotOf(x) = n
    BY DEF ChangeOf, SlotOf, Expand
  <2>2. ComingOf(J, segment') = {x}
    <3> HIDE DEF x
    <3>1. ComingOf(J, segment) = {[m EXCEPT !.val = Expand(m.val.data, segment)] : m \in {e}}
      BY DEF ComingOf, Working
    <3> HIDE DEF e, J
    <3> QED BY <1>1, <3>1 DEF x
  <2> HIDE DEF x, n
  <2> QED BY <2>1, <2>2 DEF Of
<1>c. stamp \in [{g} -> Nat] /\ Committed(stamp) /\ {g} \in SUBSET Flags
  <2>1. 2 * r \in Nat
    BY <1>t
  <2> QED BY <2>1 DEF StoreFlag
<1>r. \A f \in Reliable' : f \in Flags /\ IF f = g THEN 2 * r > last[g] ELSE f \in Reliable
  <2>1. stamp[g] = 2 * r
    OBVIOUS
  <2> HIDE DEF stamp
  <2> QED BY <1>c, <1>t, <2>1, ReliableAfter
<1>5. ASSUME NEW f \in Reliable', f # g PROVE NamesRow(f)' /\ \A c \in Clients : Delivered(c, f)'
  <2>1. DbSlot(f)' = DbSlot(f) /\ row'[f] = row[f]
    BY <1>1, <1>5, <1>r DEF DbSlot
  <2> HIDE DEF J
  <2> QED BY <1>1, <1>2, <1>4, <1>5, <1>r, <2>1, CommitLeaves
<1>6. ASSUME g \in Reliable' PROVE NamesRow(g)' /\ \A c \in Clients : Delivered(c, g)'
  <2>1. row'[g].data = d /\ row'[g].rev = r /\ d # Absent
    BY <1>1, <1>t, DataAssumption DEF TypeOK
  <2>2. n \in Slot /\ n.val # Absent
    BY <1>1, <1>t, ExpandType DEF Slot
  <2>3. DbSlot(g)'.val = n.val
    BY <1>1, <2>1 DEF DbSlot
  <2>4. Stamp(n) > last[g]
    <3>1. Stamp(n) = 2 * r
      BY <2>2, StampValue
    <3> QED BY <1>6, <1>r, <3>1
  <2>5. n.rev = row'[g].rev
    BY <2>1
  <2>6. Of(ComingOf(J, segment'), g) = {n}
    BY <1>4
  <2> HIDE DEF J, n
  <2> QED BY <1>2, <2>2, <2>3, <2>4, <2>5, <2>6, CommitBrings
<1> QED BY <1>3, <1>5, <1>6 DEF DeliveryInv

\* What an INSERT or an UPDATE stores is on its way, unless it was stored below an
\* earlier revision.
LEMMA StoreDelivers ==
    ASSUME IInv, DeliveryInv, NEW w \in Writers, NEW g \in Flags, NEW d \in Data,
           \/ InsertFlag(w, g, d)
           \/ UpdateFlag(w, g, d) /\ job[w].pc \in {"idle", "insert"}
    PROVE  DeliveryInv'
<1>1. job[w].draw \in Revision /\ seq \in Revision
  BY DEF IInv, TypeOK, Job
<1>2. CASE InsertFlag(w, g, d)
  BY <1>1, <1>2, FlagDelivers DEF InsertFlag
<1>3. CASE UpdateFlag(w, g, d) /\ job[w].pc \in {"idle", "insert"}
  <2>1. seq + 1 \in Revision /\ StoreFlag(w, g, d, seq + 1)
    BY <1>1, <1>3, BoundsAssumption DEF UpdateFlag
  <2> QED BY <1>3, <2>1, FlagDelivers
<1> QED BY <1>2, <1>3

LEMMA DeletionDelivers ==
    ASSUME IInv, DeliveryInv, NEW w \in Writers, NEW g \in Flags, NEW old \in SUBSET Flags,
           DeleteFlag(w, g, old)
    PROVE  DeliveryInv'
<1> USE DEF dbVars, serverVars, connVars, sdkVars
<1> DEFINE e == ChangeOf(g, [val |-> Absent, rev |-> row[g].rev])
           J == Working("publish", {e})
           n == [val |-> Absent, rev |-> row[g].rev]
           stamp == [f \in {g} |-> 2 * row[g].rev + 1]
<1>t. TypeOK /\ ServersOK /\ segment \in Rules \cup {NoSegment} /\ row[g].rev \in Revision
  BY BoundsAssumption DEF IInv, DeliveryInv, TypeOK
<1>1. /\ row' = [row EXCEPT ![g] = [data |-> Absent, rev |-> 0]]
      /\ row[g].data # Absent
      /\ UNCHANGED segment
      /\ \A f \in Flags \ {g} : row'[f] = row[f]
  BY <1>t DEF DeleteFlag, TypeOK
<1>2. Commits(w, J)
  BY <1>t DEF DeleteFlag, Commits, Working
<1>3. ServersOK'
  BY <1>t, <1>2, CommitServers
<1>4. \A f \in Flags : Of(ComingOf(J, segment'), f) = IF f = g THEN {n} ELSE {}
  <2>1. e.type = "change" /\ e.key = g /\ SlotOf(e) = n
    BY DEF ChangeOf, SlotOf
  <2>2. ComingOf(J, segment') = {e}
    BY DEF ComingOf, Working
  <2> HIDE DEF e, n, J
  <2> QED BY <2>1, <2>2 DEF Of
<1>c. stamp \in [{g} -> Nat] /\ Committed(stamp) /\ {g} \in SUBSET Flags
  <2>1. 2 * row[g].rev + 1 \in Nat
    BY <1>t, BoundsAssumption
  <2> QED BY <2>1 DEF DeleteFlag
<1>r. \A f \in Reliable' : f \in Flags /\ IF f = g THEN 2 * row[g].rev + 1 > last[g] ELSE f \in Reliable
  <2>1. stamp[g] = 2 * row[g].rev + 1
    OBVIOUS
  <2> HIDE DEF stamp
  <2> QED BY <1>c, <1>t, <2>1, ReliableAfter
<1>5. ASSUME NEW f \in Reliable', f # g PROVE NamesRow(f)' /\ \A c \in Clients : Delivered(c, f)'
  <2>1. DbSlot(f)'.val = DbSlot(f).val /\ row'[f] = row[f]
    BY <1>1, <1>5, <1>r DEF DbSlot
  <2> HIDE DEF J
  <2> QED BY <1>1, <1>2, <1>4, <1>5, <1>r, <2>1, CommitLeaves
<1>6. ASSUME g \in Reliable' PROVE NamesRow(g)' /\ \A c \in Clients : Delivered(c, g)'
  <2>1. row'[g].data = Absent
    BY <1>1, <1>t DEF TypeOK
  <2>2. n \in Slot
    BY <1>t DEF Slot
  <2>3. DbSlot(g)'.val = n.val
    BY <2>1 DEF DbSlot
  <2>4. Stamp(n) > last[g]
    <3>1. Stamp(n) = 2 * row[g].rev + 1
      BY <2>2, StampValue
    <3> QED BY <1>6, <1>r, <3>1
  <2>6. Of(ComingOf(J, segment'), g) = {n}
    BY <1>4
  <2> HIDE DEF J, n
  <2> QED BY <1>2, <2>1, <2>2, <2>3, <2>4, <2>6, CommitBrings
<1> QED BY <1>3, <1>5, <1>6 DEF DeliveryInv

\* Archiving brings nothing, and changes nothing that a client shows.
LEMMA ArchiveDelivers ==
    ASSUME IInv, DeliveryInv, NEW g \in Flags, ArchiveFlag(g)
    PROVE  DeliveryInv'
<1> USE DEF dbVars, serverVars, connVars, sdkVars
<1>t. TypeOK /\ ServersOK /\ seq \in Nat /\ row[g] \in [data : Data \cup {Absent}, rev : Revision]
  BY BoundsAssumption DEF IInv, DeliveryInv, TypeOK
<1>1. /\ UNCHANGED <<tomb, segment, job, resync, sub, inbox, rx, phase, at, view, boot>>
      /\ row' = [row EXCEPT ![g] = [row[g] EXCEPT !.rev = seq + 1]]
  BY DEF ArchiveFlag
<1>r. Reliable' \subseteq Reliable /\ Reliable \subseteq Flags
  <2>1. /\ \A f \in Flags \ {g} : last'[f] = last[f] /\ overtaken'[f] = overtaken[f]
        /\ last'[g] = 2 * (seq + 1)
        /\ overtaken'[g] = IF InOrder(g) THEN overtaken[g] ELSE 2 * (seq + 1)
        /\ unheard' = unheard
    BY <1>t DEF ArchiveFlag, TypeOK
  <2>2. ~InOrder(g) => ~InOrder(g)'
    BY <1>t, <2>1 DEF InOrder
  <2>3. \A f \in Flags \ {g} : InOrder(f)' = InOrder(f)
    BY <2>1 DEF InOrder
  <2>4. \A f \in Flags : InOrder(f)' => InOrder(f)
    BY <2>2, <2>3
  <2>5. Reliable' = {f \in Flags : InOrder(f)'} \ unheard'
    BY DEF Reliable, InOrder
  <2> QED BY <2>1, <2>4, <2>5 DEF Reliable
<1>2. row'[g].data = row[g].data /\ row'[g].rev = seq + 1
  <2>1. [row[g] EXCEPT !.rev = seq + 1].data = row[g].data
        /\ [row[g] EXCEPT !.rev = seq + 1].rev = seq + 1
    BY <1>t
  <2> QED BY <1>1, <1>t, <2>1 DEF TypeOK
<1>3. \A f \in Flags \ {g} : row'[f] = row[f]
  BY <1>1, <1>t DEF TypeOK
<1>4. ServersOK'
  BY <1>1, <1>t DEF ServersOK
<1>5. ASSUME NEW f \in Flags
      PROVE  /\ DbSlot(f)'.val = DbSlot(f).val
             /\ Of(Everywhere, f)' = Of(Everywhere, f)
             /\ \A c \in Clients : Heard(c, f)' = Heard(c, f)
  <2>1. Jobs' = Jobs /\ \A c \in Clients : Queued(c)' = Queued(c)
    BY <1>1 DEF Jobs, Queued
  <2>2. Everywhere' = Everywhere
    BY <1>1, <2>1 DEF Everywhere
  <2>3. DbSlot(f)'.val = DbSlot(f).val
    BY <1>1, <1>2, <1>3 DEF DbSlot
  <2> QED BY <1>1, <2>1, <2>2, <2>3 DEF Of, SlotOf, Heard, Held
<1>6. ASSUME NEW f \in Reliable PROVE NamesRow(f)'
  <2>1. CASE f # g
    <3>1. row'[f] = row[f] /\ NamesRow(f)
      BY <1>3, <1>r, <2>1 DEF DeliveryInv
    <3> QED BY <1>5, <1>r, <3>1 DEF NamesRow
  <2>2. CASE f = g
    <3>1. ASSUME NEW s \in Of(Everywhere, g), s.val # Absent PROVE s.rev # row'[g].rev
      <4>1. s \in Slot /\ Stamp(s) <= last[g]
        BY EverywhereType
      <4>2. Stamp(s) = 2 * s.rev /\ s.rev \in Nat
        BY <3>1, <4>1, StampValue
      <4>3. last[g] <= 2 * seq + 1 /\ last[g] \in Nat
        BY HistoryFacts
      <4> QED BY <1>2, <1>t, <4>1, <4>2, <4>3
    <3> QED BY <1>5, <2>2, <3>1 DEF NamesRow
  <2> QED BY <2>1, <2>2
<1>7. ASSUME NEW c \in Clients, NEW f \in Reliable PROVE Delivered(c, f)'
  <2>1. Delivered(c, f)
    BY DEF DeliveryInv
  <2>2. Streams(c)' = Streams(c) /\ StreamEnds(c)' = StreamEnds(c)
    BY <1>1 DEF Streams, StreamEnds, Queued
  <2>3. LatestRight(c, f)' = LatestRight(c, f)
    BY <1>5, <1>r DEF LatestRight, Stamp
  <2> QED BY <2>1, <2>2, <2>3 DEF Delivered
<1> QED BY <1>4, <1>6, <1>7, <1>r DEF DeliveryInv

LEMMA SegmentDelivers ==
    ASSUME IInv, DeliveryInv, NEW w \in Writers, NEW s \in Rules \cup {NoSegment},
           CommitSegment(w, s)
    PROVE  DeliveryInv'
<1> USE DEF dbVars, serverVars, connVars, sdkVars
<1> DEFINE users == {g \in Flags : row[g].data \in Targeted}
<1>t. TypeOK /\ ServersOK /\ seq \in Nat /\ segment \in Rules \cup {NoSegment}
  BY BoundsAssumption DEF IInv, DeliveryInv, TypeOK
<1>n. Cardinality(users) \in Nat
  <2>1. IsFiniteSet(users)
    BY FlagsAssumption, FS_Subset
  <2> QED BY <2>1, FS_CardinalityType
<1>1. PICK rank \in Rankings(users) :
        /\ row' = [g \in Flags |->
                     IF g \in users
                       THEN [data |-> row[g].data, rev |-> seq + rank[g]]
                       ELSE row[g]]
        /\ Committed([g \in users |-> 2 * (seq + rank[g])])
        /\ job' = [job EXCEPT ![w] =
                     Working(IF users = {} THEN "idle" ELSE "publish",
                             {ChangeOf(g, [val |-> Expand(row[g].data, s),
                                           rev |-> seq + rank[g]]) : g \in users})]
  BY DEF CommitSegment
<1> DEFINE n(g) == [val |-> Expand(row[g].data, s), rev |-> seq + rank[g]]
           e(g) == ChangeOf(g, n(g))
           J == Working(IF users = {} THEN "idle" ELSE "publish", {e(g) : g \in users})
           stamp == [g \in users |-> 2 * (seq + rank[g])]
<1>2. /\ segment' = s /\ job' = [job EXCEPT ![w] = J] /\ job[w].pc = "idle"
      /\ UNCHANGED <<tomb, resync, sub, inbox, rx, phase, at, view, boot>>
      /\ seq + Cardinality(users) <= MaxRevision
  BY <1>1 DEF CommitSegment
<1>3. J.pc \in {"idle", "publish"} /\ J.todo = {e(g) : g \in users} /\ (J.pc = "idle" => J.todo = {})
  BY DEF Working
<1>4. Commits(w, J)
  <2> HIDE DEF J
  <2> QED BY <1>2, <1>3 DEF Commits
<1>5. ServersOK'
  <2> HIDE DEF J
  <2> QED BY <1>t, <1>4, CommitServers
<1>6. \A f \in Flags : Of(ComingOf(J, segment'), f) = IF f \in users THEN {n(f)} ELSE {}
  <2>1. \A g : e(g).type = "change" /\ e(g).key = g /\ SlotOf(e(g)) = n(g)
    BY DEF ChangeOf, SlotOf
  <2> HIDE DEF e, n, J
  <2>2. ComingOf(J, segment') = {e(g) : g \in users}
    BY <1>3 DEF ComingOf
  <2> HIDE DEF users
  <2> QED BY <2>1, <2>2 DEF Of
<1>c. stamp \in [users -> Nat] /\ Committed(stamp) /\ users \in SUBSET Flags
  <2>1. \A g \in users : 2 * (seq + rank[g]) \in Nat
    <3>1. \A g \in users : rank[g] \in 1 .. Cardinality(users)
      BY DEF Rankings
    <3> HIDE DEF users
    <3> QED BY <1>t, <1>n, <3>1
  <2> QED BY <1>1, <2>1
<1>r. \A f \in Reliable' : f \in Flags /\ (f \notin users => f \in Reliable)
  <2> HIDE DEF stamp, users
  <2> QED BY <1>c, <1>t, ReliableAfter
<1>7. ASSUME NEW f \in Reliable', f \notin users PROVE NamesRow(f)' /\ \A c \in Clients : Delivered(c, f)'
  <2>1. row'[f] = row[f] /\ row[f].data \notin Targeted /\ f \in Reliable
    BY <1>1, <1>7, <1>r
  <2>2. DbSlot(f)'.val = DbSlot(f).val
    BY <1>2, <2>1 DEF DbSlot, Expand
  <2>3. ASSUME NEW d \in Data, Expand(d, segment) = DbSlot(f).val
        PROVE  Expand(d, segment') = DbSlot(f).val
    <3>1. DbSlot(f).val # Absent
      BY <1>t, <2>3, ExpandType
    <3>2. DbSlot(f).val = Expand(row[f].data, segment)
      BY <3>1 DEF DbSlot
    <3>3. d = row[f].data
      BY <2>3, <3>2 DEF Expand
    <3> QED BY <2>1, <2>3, <3>3 DEF Expand
  <2>4. Of(ComingOf(J, segment'), f) = {}
    BY <1>6, <1>7, <1>r
  <2> HIDE DEF J
  <2> QED BY <1>4, <2>1, <2>2, <2>3, <2>4, CommitLeaves
<1>8. ASSUME NEW f \in Flags, f \in users PROVE NamesRow(f)' /\ \A c \in Clients : Delivered(c, f)'
  <2> DEFINE k == n(f)
  <2>1. /\ row'[f].data = row[f].data /\ row'[f].rev = seq + rank[f]
        /\ row[f].data \in Data /\ row[f].data # Absent
    BY <1>1, <1>8, DataAssumption
  <2>2. seq + rank[f] \in Revision /\ seq + rank[f] > seq
    <3>1. rank[f] \in 1 .. Cardinality(users)
      BY <1>8 DEF Rankings
    <3> DEFINE size == Cardinality(users)
               r == rank[f]
    <3>2. r \in 1 .. size /\ size \in Nat /\ seq + size <= MaxRevision
      BY <1>2, <1>n, <3>1
    <3> HIDE DEF size, r
    <3>3. seq + r \in Revision /\ seq + r > seq
      BY <1>t, <3>2, BoundsAssumption
    <3> QED BY <3>3 DEF r
  <2>3. k \in Slot /\ k.val # Absent /\ k.rev = row'[f].rev
    BY <2>1, <2>2, ExpandType DEF Slot
  <2>4. DbSlot(f)'.val = k.val
    BY <1>2, <2>1 DEF DbSlot
  <2>5. Stamp(k) > last[f]
    <3>1. Stamp(k) = 2 * (seq + rank[f])
      BY <2>3, StampValue
    <3>2. last[f] <= 2 * seq + 1 /\ last[f] \in Nat
      BY <1>8, HistoryFacts
    <3>3. seq + rank[f] \in Nat
      BY <2>2, BoundsAssumption
    <3> QED BY <1>t, <2>2, <3>1, <3>2, <3>3
  <2>6. Of(ComingOf(J, segment'), f) = {k}
    BY <1>6, <1>8
  <2> HIDE DEF J, k
  <2> QED BY <1>4, <2>3, <2>4, <2>5, <2>6, CommitBrings
<1> HIDE DEF users
<1> QED BY <1>5, <1>7, <1>8, <1>r DEF DeliveryInv

-----------------------------------------------------------------------------
LEMMA DeliveryStutter ==
    ASSUME IInv, DeliveryInv, UNCHANGED vars
    PROVE  DeliveryInv'
<1> USE DEF dbVars, serverVars, connVars, sdkVars
<1>1. UNCHANGED <<row, tomb, segment, last, overtaken, unheard, job, resync, sub, inbox, rx, phase, at, view, boot>>
  BY DEF vars
<1>2. Jobs' = Jobs /\ \A c \in Clients : Queued(c)' = Queued(c)
  BY <1>1 DEF Jobs, Queued
<1>3. Everywhere' \subseteq Everywhere \cup Signals
  BY <1>1, <1>2 DEF Everywhere
<1>4. ServersOK'
  BY <1>1 DEF DeliveryInv, ServersOK
<1>5. ASSUME NEW c \in Clients
      PROVE  /\ Streams(c)' = Streams(c)
             /\ \A f \in Flags : Held(c)'[f] = Held(c)[f]
             /\ StreamEnds(c)' = StreamEnds(c)
             /\ (Queued(c) \cup Jobs)' = Queued(c) \cup Jobs
  BY <1>1, <1>2, HeldSame DEF StreamEnds
<1> QED BY <1>1, <1>3, <1>4, <1>5, DeliveryMoves

LEMMA DeliveryInit == Init => DeliveryInv
<1> SUFFICES ASSUME Init PROVE DeliveryInv
  OBVIOUS
<1>1. ServersOK /\ \A c \in Clients : ~Streams(c)
  BY DEF Init, NothingUnderWay, NoJob, Working, ServersOK, Streams
<1>2. \A f \in Reliable : NamesRow(f)
  BY DEF Init, NothingUnderWay, NamesRow, Reliable
<1> QED BY <1>1, <1>2 DEF DeliveryInv, Delivered

LEMMA DeliveryNext ==
    ASSUME IInv, DeliveryInv, Repaired, [Next]_vars
    PROVE  DeliveryInv'
<1>t. TypeOK'
  BY NextTypeOK DEF IInv
<1>1. CASE \/ \E w \in Writers, f \in Flags, d \in Data :
                \/ InsertFlag(w, f, d)
                \/ UpdateFlag(w, f, d) /\ job[w].pc \in {"idle", "insert"}
           \/ \E w \in Writers, f \in Flags, old \in SUBSET Flags : DeleteFlag(w, f, old)
           \/ \E f \in Flags : ArchiveFlag(f)
           \/ \E w \in Writers, s \in Rules \cup {NoSegment} : CommitSegment(w, s)
  BY <1>1, StoreDelivers, DeletionDelivers, ArchiveDelivers, SegmentDelivers
<1>2. ASSUME NEW w \in Writers, Emit(w) \/ AbandonRequest(w) \/ DrawDefault(w) \/ Rollback(w)
      PROVE  DeliveryInv'
  BY <1>2, <1>t, HandlerDelivers, MishapDelivers DEF Emit
<1>3. ASSUME NEW i \in Instances, Server(i)
      PROVE  DeliveryInv'
  <2>1. ~ResyncClear(i)
    BY DEF ResyncClear, DeliveryInv, ServersOK
  <2> QED BY <1>3, <1>t, <2>1, ResyncDelivers, SubscriptionDelivers, ForwardDelivers, CrashDelivers
          DEF Server
<1>4. ASSUME NEW c \in Clients, Client(c)
      PROVE  DeliveryInv'
  BY <1>4, ConnectionDelivers, ReadyDelivers, SnapshotDelivers, ReceiveDelivers DEF Client
<1>5. CASE UNCHANGED vars
  BY <1>5, DeliveryStutter
<1> QED
  BY <1>1, <1>2, <1>3, <1>4, <1>5
  DEF Next, Write, CreateFlag, PatchFlag, PromoteFlag, UpsertFlag, CreateSegment, PatchSegment,
      DeleteSegment

\* No change is lost silently: a client with an outdated flag on an open stream
\* has the event that repairs it under way, or the end of its stream, unless the
\* flag was created again at an old revision or a crash, a dropped request or an
\* expansion without segments did away with its last event - and then it is so
\* again from its next change on.  It takes only that no client streams from an
\* instance before its first subscription, and that resync_pending is cleared with
\* the RESYNC.
THEOREM NoChangeLost ==
    ASSUME "early_connect" \notin Faults, "late_clear" \notin Faults
    PROVE  Spec => []NothingLost
<1>1. IInv /\ DeliveryInv /\ [Next]_vars => DeliveryInv'
  BY DeliveryNext DEF Repaired
<1>2. IInv /\ DeliveryInv => NothingLost
  BY DeliveredIsOnItsWay
<1> QED BY <1>1, <1>2, DeliveryInit, Invariant, PTL DEF Spec
===============================================================================
