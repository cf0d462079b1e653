--------------------------- MODULE PublicationsProofs ---------------------------
(***************************************************************************)
(* What holds of acknowledgements and notifications for any runs,          *)
(* employees, channels and clients.                                        *)
(***************************************************************************)
EXTENDS Publications, TLAPS

-----------------------------------------------------------------------------
(* Types, with what the requests remember.                                 *)

PubFields == {"status", "roster", "changed"}
NoteFields == {"type", "created", "status", "attempts"}
DispatchFields == {"op", "todo", "seen", "attempts", "outcome"}
Keys == Runs \X Employees \X ({"in_app"} \cup Channels)

ResultOK ==
  /\ result \in [Runs -> UNION {Results[r] : r \in Runs}]
  /\ \A r \in Runs : result[r] \in Results[r]

PubsOK ==
  /\ DOMAIN pubs \subseteq Runs
  /\ \A r \in DOMAIN pubs :
       DOMAIN pubs[r] = PubFields /\ pubs[r].status \in {"published", "archived"}

AcksOK ==
  /\ DOMAIN acks \subseteq (DOMAIN pubs) \X Employees
  /\ \A k \in DOMAIN acks : acks[k] \in {"pending", "acknowledged"}

NoteOK(n) ==
  /\ DOMAIN n = NoteFields
  /\ n.created \in Nat /\ n.created <= clock
  /\ n.status \in {"pending_recorded", "sent", "failed", "suppressed"}
  /\ n.attempts \in Nat
  /\ n.status # "pending_recorded" => n.attempts > 0

NotesOK ==
  /\ clock \in Nat
  /\ DOMAIN notes \subseteq (DOMAIN pubs) \X Employees \X ({"in_app"} \cup Channels)
  /\ \A k \in DOMAIN notes : NoteOK(notes[k])
  /\ DOMAIN delivered = {k \in DOMAIN notes : k[3] # "in_app"}
  /\ \A k \in DOMAIN delivered : delivered[k] \in Nat

PublishOK(p) ==
  /\ p.run \in Runs /\ p.now \in Nat /\ p.now <= clock
  /\ \A k \in p.roster : k[1] \in Employees

RecordOK(p) ==
  /\ p.key \in Keys /\ p.key[3] \in Channels /\ p.key[1] \in DOMAIN pubs
  /\ p.now \in Nat /\ p.now <= clock

DispatchOK(d) ==
  /\ DOMAIN d = DispatchFields
  /\ d.seen \subseteq DOMAIN notes
  /\ d.todo \subseteq DOMAIN notes /\ DOMAIN d.outcome \subseteq DOMAIN notes
  /\ d.todo \cup DOMAIN d.outcome \subseteq DOMAIN d.attempts
  /\ d.todo \cap DOMAIN d.outcome = {}
  /\ \A k \in DOMAIN d.attempts : d.attempts[k] \in Nat
  /\ \A k \in DOMAIN d.outcome : d.outcome[k] \in {"sent", "failed", "suppressed"}

CallOK(c) ==
  /\ call[c].op \in {"none", "publish", "record", "dispatch"}
  /\ call[c].op = "publish" => PublishOK(call[c])
  /\ call[c].op = "record" => RecordOK(call[c])
  /\ call[c].op = "dispatch" => DispatchOK(call[c])

CallsOK == DOMAIN call = Clients /\ \A c \in Clients : CallOK(c)

Types == ResultOK /\ PubsOK /\ AcksOK /\ NotesOK /\ CallsOK

LEMMA InitTypes == ASSUME Init PROVE Types
<1>1. ResultOK
  BY DEF Init, ResultOK
<1>2. PubsOK /\ AcksOK
  BY DEF Init, PubsOK, AcksOK
<1>3. NotesOK
  BY DEF Init, NotesOK
<1>4. CallsOK
  BY DEF Init, CallsOK, CallOK, NoCall
<1>5. QED
  BY <1>1, <1>2, <1>3, <1>4 DEF Types

\* What one client's step does to the others' calls, if the notes are kept or grow.
LEMMA OthersOK ==
  ASSUME CallsOK, clock \in Nat, clock' \in Nat, clock <= clock', DOMAIN notes \subseteq DOMAIN notes',
         DOMAIN pubs \subseteq DOMAIN pubs',
         NEW c \in Clients, NEW new, call' = [call EXCEPT ![c] = new],
         CallOK(c)'
  PROVE  CallsOK'
<1>1. DOMAIN call' = Clients
  BY DEF CallsOK
<1>2. ASSUME NEW d \in Clients, d # c PROVE CallOK(d)'
  <2>1. call'[d] = call[d] /\ CallOK(d)
    BY <1>2 DEF CallsOK
  <2>2. call[d].op = "publish" => PublishOK(call[d])'
    BY <2>1 DEF CallOK, PublishOK
  <2>3. call[d].op = "dispatch" => DispatchOK(call[d])'
    BY <2>1 DEF CallOK, DispatchOK
  <2>4. call[d].op = "record" => RecordOK(call[d])'
    BY <2>1 DEF CallOK, RecordOK
  <2>5. QED
    BY <2>1, <2>2, <2>3, <2>4 DEF CallOK, PublishOK, RecordOK, DispatchOK
<1>3. QED
  BY <1>1, <1>2 DEF CallsOK

LEMMA CallsKept ==
  ASSUME CallsOK, clock \in Nat, clock' \in Nat, clock <= clock', DOMAIN notes \subseteq DOMAIN notes',
         DOMAIN pubs \subseteq DOMAIN pubs',
         call' = call
  PROVE  CallsOK'
<1>1. ASSUME NEW d \in Clients PROVE CallOK(d)'
  <2>1. call'[d] = call[d] /\ CallOK(d)
    BY DEF CallsOK
  <2>2. call[d].op = "publish" => PublishOK(call[d])'
    BY <2>1 DEF CallOK, PublishOK
  <2>3. call[d].op = "dispatch" => DispatchOK(call[d])'
    BY <2>1 DEF CallOK, DispatchOK
  <2>4. call[d].op = "record" => RecordOK(call[d])'
    BY <2>1 DEF CallOK, RecordOK
  <2>5. QED
    BY <2>1, <2>2, <2>3, <2>4 DEF CallOK, PublishOK, RecordOK, DispatchOK
<1>2. QED
  BY <1>1 DEF CallsOK

LEMMA CommitPublishTypes ==
  ASSUME Types, NEW c \in Clients, CommitPublish(c)
  PROVE  Types'
<1> DEFINE p == call[c]
           new == [status |-> "published", roster |-> p.roster, changed |-> p.archived # {}]
           staff == Affected(p)
           old == [r \in DOMAIN pubs |->
                     IF r \in p.archived THEN [pubs[r] EXCEPT !.status = "archived"] ELSE pubs[r]]
           note == [type |-> IF new.changed THEN "changed" ELSE "published", created |-> p.now,
                    status |-> "pending_recorded", attempts |-> 0]
<1>1. PublishOK(p) /\ p.run \in Runs /\ staff \subseteq Employees
  <2>1. PublishOK(p)
    BY DEF CommitPublish, Types, CallsOK, CallOK
  <2>2. QED
    BY <2>1 DEF PublishOK, Affected, Staff
<1>2. clock \in Nat /\ clock' = clock + 1
  BY DEF CommitPublish, Types, NotesOK
<1>3. ResultOK'
  BY DEF CommitPublish, Types, ResultOK
<1>4. /\ DOMAIN pubs' = DOMAIN pubs \cup {p.run}
      /\ PubsOK'
  <2>1. pubs' = [r \in DOMAIN old \cup {p.run} |-> IF r \in {p.run} THEN new ELSE old[r]]
    BY DEF CommitPublish, With
  <2>2. \A r \in DOMAIN pubs : DOMAIN old[r] = PubFields /\ old[r].status \in {"published", "archived"}
    BY DEF Types, PubsOK, PubFields
  <2>3. DOMAIN new = PubFields /\ new.status = "published" /\ DOMAIN old = DOMAIN pubs
    BY DEF PubFields
  <2> HIDE DEF old, new
  <2>4. /\ DOMAIN pubs' = DOMAIN old \cup {p.run}
        /\ \A r \in DOMAIN pubs' : pubs'[r] = new \/ (r \in DOMAIN old /\ pubs'[r] = old[r])
    BY <2>1
  <2>5. QED
    BY <1>1, <2>2, <2>3, <2>4 DEF Types, PubsOK
<1>5. AcksOK'
  <2> DEFINE S == {p.run} \X staff
  <2>1. acks' = [k \in DOMAIN acks \cup S |-> IF k \in S THEN "pending" ELSE acks[k]]
    BY DEF CommitPublish, With
  <2>2. S \subseteq (DOMAIN pubs') \X Employees
    BY <1>1, <1>4
  <2> HIDE DEF S
  <2>3. /\ DOMAIN acks' = DOMAIN acks \cup S
        /\ \A k \in DOMAIN acks' : acks'[k] = "pending" \/ (k \in DOMAIN acks /\ acks'[k] = acks[k])
    BY <2>1
  <2>4. QED
    BY <1>4, <2>2, <2>3 DEF Types, AcksOK
<1>6. DOMAIN notes \subseteq DOMAIN notes' /\ NotesOK'
  <2> DEFINE S == {p.run} \X staff \X {"in_app"}
  <2>1. PICK m : m = note
    OBVIOUS
  <2>2. S \subseteq (DOMAIN pubs') \X Employees \X {"in_app"}
    BY <1>1, <1>4
  <2>3. notes' = [k \in DOMAIN notes \cup S |-> IF k \in S THEN m ELSE notes[k]]
    BY <2>1 DEF CommitPublish, With
  <2>4. NoteOK(m)'
    <3>1. m.created \in Nat /\ m.created <= clock'
      BY <1>1, <1>2, <2>1 DEF PublishOK
    <3>2. DOMAIN m = NoteFields /\ m.status = "pending_recorded" /\ m.attempts = 0
      BY <2>1 DEF NoteFields
    <3>3. QED
      BY <3>1, <3>2 DEF NoteOK
  <2> HIDE DEF S, note
  <2>5. /\ DOMAIN notes' = DOMAIN notes \cup S
        /\ \A k \in DOMAIN notes' : notes'[k] = m \/ (k \in DOMAIN notes /\ notes'[k] = notes[k])
    BY <2>3
  <2>6. \A k \in DOMAIN notes' : NoteOK(notes[k])'
    <3> SUFFICES ASSUME NEW k \in DOMAIN notes' PROVE NoteOK(notes[k])'
      OBVIOUS
    <3>1. CASE notes'[k] = m
      BY <2>4, <3>1 DEF NoteOK
    <3>2. CASE k \in DOMAIN notes /\ notes'[k] = notes[k]
      <4>1. NoteOK(notes[k])
        BY <3>2 DEF Types, NotesOK
      <4>2. QED
        BY <1>2, <3>2, <4>1 DEF NoteOK
    <3>3. QED
      BY <2>5, <3>1, <3>2
  <2>7. DOMAIN delivered' = {k \in DOMAIN notes' : k[3] # "in_app"}
    BY <2>2, <2>5 DEF CommitPublish, Types, NotesOK
  <2>8. DOMAIN notes' \subseteq (DOMAIN pubs') \X Employees \X ({"in_app"} \cup Channels)
    BY <1>4, <2>2, <2>5 DEF Types, NotesOK
  <2>9. delivered' = delivered /\ \A k \in DOMAIN delivered : delivered[k] \in Nat
    BY DEF CommitPublish, Types, NotesOK
  <2>10. QED
    BY <1>2, <2>5, <2>6, <2>7, <2>8, <2>9 DEF NotesOK
<1>7. CallsOK'
  <2>1. call' = [call EXCEPT ![c] = NoCall] /\ CallsOK
    BY DEF CommitPublish, Types
  <2>2. CallOK(c)'
    BY <2>1 DEF CallsOK, CallOK, NoCall
  <2>3. clock' \in Nat /\ clock <= clock'
    BY <1>2
  <2>4. DOMAIN pubs \subseteq DOMAIN pubs'
    BY <1>4
  <2>5. QED
    BY <1>2, <1>6, <2>1, <2>2, <2>3, <2>4, OthersOK
<1>8. QED
  BY <1>3, <1>4, <1>5, <1>6, <1>7 DEF Types

LEMMA CommitRecordTypes ==
  ASSUME Types, NEW c \in Clients, CommitRecord(c)
  PROVE  Types'
<1> DEFINE k == call[c].key
           note == [type |-> "published", created |-> call[c].now,
                    status |-> "pending_recorded", attempts |-> 0]
<1>1. PICK m : m = note
  OBVIOUS
<1>2. /\ clock \in Nat /\ clock' = clock + 1 /\ k \notin DOMAIN notes
      /\ UNCHANGED <<result, pubs, acks>>
      /\ call' = [call EXCEPT ![c] = NoCall] /\ RecordOK(call[c])
  BY DEF CommitRecord, Types, NotesOK, CallsOK, CallOK
<1>3. notes' = [n \in DOMAIN notes \cup {k} |-> IF n \in {k} THEN m ELSE notes[n]]
  BY <1>1 DEF CommitRecord, With
<1>4. delivered' = [n \in DOMAIN delivered \cup {k} |-> IF n \in {k} THEN 0 ELSE delivered[n]]
  BY DEF CommitRecord, With
<1>5. k[3] # "in_app" /\ k[1] \in DOMAIN pubs /\ k \in Keys
  BY <1>2, PublicationsAssumption DEF RecordOK
<1>6. NoteOK(m)'
  BY <1>1, <1>2 DEF NoteOK, NoteFields, RecordOK
<1> HIDE DEF note, k
<1>7. \A n \in DOMAIN notes' : NoteOK(notes[n])'
  <2> SUFFICES ASSUME NEW n \in DOMAIN notes' PROVE NoteOK(notes[n])'
    OBVIOUS
  <2>1. CASE n = k
    BY <1>3, <1>6, <2>1 DEF NoteOK
  <2>2. CASE n # k
    <3>1. NoteOK(notes[n]) /\ notes'[n] = notes[n]
      BY <1>3, <2>2 DEF Types, NotesOK
    <3>2. QED
      BY <1>2, <3>1 DEF NoteOK
  <2>3. QED
    BY <2>1, <2>2
<1>8. NotesOK'
  <2>1. DOMAIN notes' \subseteq (DOMAIN pubs') \X Employees \X ({"in_app"} \cup Channels)
    BY <1>2, <1>3, <1>5 DEF Types, NotesOK, Keys
  <2>2. DOMAIN delivered' = {n \in DOMAIN notes' : n[3] # "in_app"}
    BY <1>3, <1>4, <1>5 DEF Types, NotesOK
  <2>3. \A n \in DOMAIN delivered' : delivered'[n] \in Nat
    BY <1>4 DEF Types, NotesOK
  <2>4. QED
    BY <1>2, <1>7, <2>1, <2>2, <2>3 DEF NotesOK
<1>9. CallsOK'
  <2>1. CallOK(c)'
    BY <1>2 DEF Types, CallsOK, CallOK, NoCall
  <2>2. DOMAIN notes \subseteq DOMAIN notes' /\ DOMAIN pubs \subseteq DOMAIN pubs'
    BY <1>2, <1>3
  <2>3. clock' \in Nat /\ clock <= clock'
    BY <1>2
  <2>4. QED
    BY <1>2, <2>1, <2>2, <2>3, OthersOK DEF Types
<1>10. QED
  BY <1>2, <1>8, <1>9 DEF Types, ResultOK, PubsOK, AcksOK

\* A step of a client's own that leaves the tables alone.
LEMMA CallTypes ==
  ASSUME Types, NEW c \in Clients, NEW new, call' = [call EXCEPT ![c] = new],
         UNCHANGED <<pubs, clock, acks, notes>>, ResultOK',
         DOMAIN delivered' = DOMAIN delivered,
         \A k \in DOMAIN delivered' : delivered'[k] \in Nat, CallOK(c)'
  PROVE  Types'
<1>1. NotesOK'
  BY DEF Types, NotesOK, NoteOK
<1>2. CallsOK'
  <2>1. /\ clock \in Nat /\ clock' \in Nat /\ clock <= clock'
        /\ DOMAIN notes \subseteq DOMAIN notes' /\ DOMAIN pubs \subseteq DOMAIN pubs'
    BY DEF Types, NotesOK
  <2>2. QED
    BY <2>1, OthersOK DEF Types
<1>3. QED
  BY <1>1, <1>2 DEF Types, PubsOK, AcksOK

LEMMA BeginPublishTypes ==
  ASSUME Types, NEW c \in Clients, NEW r \in Runs, NEW replace, BeginPublish(c, r, replace)
  PROVE  Types'
<1> DEFINE new == [op |-> "publish", run |-> r, roster |-> result[r],
                   archived |-> Overlapping(r), now |-> clock]
<1>1. call' = [call EXCEPT ![c] = new] /\ UNCHANGED <<result, pubs, clock, acks, notes, delivered>>
  BY DEF BeginPublish
<1>2. CallOK(c)'
  <2>1. call'[c] = new
    BY <1>1 DEF Types, CallsOK
  <2>2. \A k \in result[r] : k[1] \in Employees
    BY PublicationsAssumption DEF Types, ResultOK
  <2>3. clock' = clock /\ clock \in Nat
    BY <1>1 DEF Types, NotesOK
  <2>4. QED
    BY <2>1, <2>2, <2>3 DEF CallOK, PublishOK
<1> HIDE DEF new
<1>3. QED
  BY <1>1, <1>2, CallTypes DEF Types, ResultOK, NotesOK

LEMMA BeginRecordTypes ==
  ASSUME Types, NEW c \in Clients, NEW k \in Runs \X Employees \X Channels, BeginRecord(c, k)
  PROVE  Types'
<1> DEFINE new == [op |-> "record", key |-> k, now |-> clock]
<1>1. call' = [call EXCEPT ![c] = new] /\ UNCHANGED <<result, pubs, clock, acks, notes, delivered>>
  BY DEF BeginRecord
<1>2. CallOK(c)'
  <2>1. call'[c] = new
    BY <1>1 DEF Types, CallsOK
  <2>2. k[1] \in DOMAIN pubs /\ k \in Keys /\ k[3] \in Channels
    BY DEF BeginRecord, Types, NotesOK, Keys
  <2>3. clock' = clock /\ clock \in Nat /\ pubs' = pubs
    BY <1>1 DEF Types, NotesOK
  <2>4. QED
    BY <2>1, <2>2, <2>3 DEF CallOK, RecordOK
<1> HIDE DEF new
<1>3. QED
  BY <1>1, <1>2, CallTypes DEF Types, ResultOK, NotesOK

LEMMA BeginDispatchTypes ==
  ASSUME Types, NEW c \in Clients, BeginDispatch(c)
  PROVE  Types'
<1>1. PICK S \in Batches :
        call' = [call EXCEPT ![c] = [op |-> "dispatch", todo |-> S, seen |-> Pending,
                   attempts |-> [k \in S |-> notes[k].attempts], outcome |-> [k \in {} |-> ""]]]
  BY DEF BeginDispatch
<1> DEFINE new == [op |-> "dispatch", todo |-> S, seen |-> Pending,
                   attempts |-> [k \in S |-> notes[k].attempts], outcome |-> [k \in {} |-> ""]]
<1>2. UNCHANGED <<result, pubs, clock, acks, notes, delivered>>
  BY DEF BeginDispatch
<1>3. S \subseteq DOMAIN notes
  BY DEF Batches, Pending
<1>4. CallOK(c)'
  <2>1. call'[c] = new
    BY <1>1 DEF Types, CallsOK
  <2>2. \A k \in S : notes[k].attempts \in Nat
    BY <1>3 DEF Types, NotesOK, NoteOK
  <2>3. /\ DOMAIN new = DispatchFields /\ new.op = "dispatch" /\ new.seen = Pending
        /\ new.todo = S /\ DOMAIN new.attempts = S /\ DOMAIN new.outcome = {}
    BY DEF DispatchFields
  <2>4. \A k \in S : new.attempts[k] \in Nat
    BY <2>2
  <2> HIDE DEF new
  <2>5. /\ DOMAIN call'[c] = DispatchFields /\ call'[c].op = "dispatch" /\ call'[c].seen = Pending
        /\ call'[c].todo = S /\ DOMAIN call'[c].attempts = S /\ DOMAIN call'[c].outcome = {}
        /\ \A k \in S : call'[c].attempts[k] \in Nat
    BY <2>1, <2>3, <2>4
  <2>6. Pending \subseteq DOMAIN notes
    BY DEF Pending
  <2>7. QED
    BY <1>2, <1>3, <2>5, <2>6 DEF CallOK, DispatchOK
<1>5. call' = [call EXCEPT ![c] = new]
  BY <1>1
<1> HIDE DEF new
<1>6. QED
  BY <1>2, <1>4, <1>5, CallTypes DEF Types, ResultOK, NotesOK

\* A delivery, as the requests see it.
LEMMA DeliverFacts ==
  ASSUME Types, NEW c \in Clients, NEW k \in DOMAIN notes, Deliver(c, k)
  PROVE  \E fate \in Fates(k) :
           /\ fate.status \in {"sent", "failed", "suppressed"}
           /\ call'[c].op = "dispatch" /\ DOMAIN call'[c] = DispatchFields
           /\ call'[c].todo = call[c].todo \ {k}
           /\ call'[c].attempts = call[c].attempts /\ call'[c].seen = call[c].seen
           /\ DOMAIN call'[c].outcome = DOMAIN call[c].outcome \cup {k}
           /\ call'[c].outcome[k] = fate.status
           /\ \A n \in DOMAIN call[c].outcome : n # k => call'[c].outcome[n] = call[c].outcome[n]
           /\ call' = [call EXCEPT ![c] = call'[c]]
           /\ delivered' = IF fate.out THEN [delivered EXCEPT ![k] = @ + 1] ELSE delivered
<1>1. PICK fate \in Fates(k) :
        /\ call' = [call EXCEPT ![c].todo = @ \ {k},
                                ![c].outcome = With(@, [n \in {k} |-> fate.status])]
        /\ delivered' = IF fate.out THEN [delivered EXCEPT ![k] = @ + 1] ELSE delivered
  BY DEF Deliver
<1>2. call[c].op = "dispatch" /\ DOMAIN call[c] = DispatchFields /\ DOMAIN call = Clients
  BY DEF Deliver, Types, CallsOK, CallOK, DispatchOK
<1>3. fate.status \in {"sent", "failed", "suppressed"}
  BY DEF Fates
<1>4. /\ call'[c] = [call[c] EXCEPT !.todo = @ \ {k},
                                   !.outcome = With(@, [n \in {k} |-> fate.status])]
      /\ call' = [call EXCEPT ![c] = call'[c]]
  BY <1>1, <1>2
<1>5. /\ call'[c].op = "dispatch" /\ DOMAIN call'[c] = DispatchFields
      /\ call'[c].todo = call[c].todo \ {k} /\ call'[c].attempts = call[c].attempts
      /\ call'[c].seen = call[c].seen
      /\ call'[c].outcome = With(call[c].outcome, [n \in {k} |-> fate.status])
  BY <1>2, <1>4 DEF DispatchFields
<1>6. call'[c].outcome = [n \in DOMAIN call[c].outcome \cup {k} |->
                            IF n \in {k} THEN fate.status ELSE call[c].outcome[n]]
  BY <1>5 DEF With
<1>7. /\ DOMAIN call'[c].outcome = DOMAIN call[c].outcome \cup {k}
      /\ call'[c].outcome[k] = fate.status
      /\ \A n \in DOMAIN call[c].outcome : n # k => call'[c].outcome[n] = call[c].outcome[n]
  BY <1>6
<1>8. WITNESS fate \in Fates(k)
<1>9. QED
  BY <1>1, <1>3, <1>4, <1>5, <1>7

LEMMA DeliverTypes ==
  ASSUME Types, NEW c \in Clients, NEW k \in DOMAIN notes, Deliver(c, k)
  PROVE  Types'
<1>1. PICK fate \in Fates(k) :
        /\ fate.status \in {"sent", "failed", "suppressed"}
        /\ call'[c].op = "dispatch" /\ DOMAIN call'[c] = DispatchFields
        /\ call'[c].todo = call[c].todo \ {k}
        /\ call'[c].attempts = call[c].attempts /\ call'[c].seen = call[c].seen
        /\ DOMAIN call'[c].outcome = DOMAIN call[c].outcome \cup {k}
        /\ call'[c].outcome[k] = fate.status
        /\ \A n \in DOMAIN call[c].outcome : n # k => call'[c].outcome[n] = call[c].outcome[n]
        /\ call' = [call EXCEPT ![c] = call'[c]]
        /\ delivered' = IF fate.out THEN [delivered EXCEPT ![k] = @ + 1] ELSE delivered
  BY DeliverFacts
<1>2. UNCHANGED <<result, pubs, clock, acks, notes>> /\ k \in call[c].todo
  BY DEF Deliver
<1>3. DispatchOK(call[c])
  BY DEF Deliver, Types, CallsOK, CallOK
<1>4. DispatchOK(call[c])'
  BY <1>1, <1>2, <1>3 DEF DispatchOK
<1>5. CallOK(c)'
  BY <1>1, <1>4 DEF CallOK
<1>6. DOMAIN delivered' = DOMAIN delivered /\ \A n \in DOMAIN delivered' : delivered'[n] \in Nat
  BY <1>1 DEF Types, NotesOK
<1>7. ResultOK'
  BY <1>2 DEF Types, ResultOK
<1>8. PICK new : new = call'[c]
  OBVIOUS
<1>9. call' = [call EXCEPT ![c] = new]
  BY <1>1, <1>8
<1>10. QED
  BY <1>2, <1>5, <1>6, <1>7, <1>9, CallTypes

LEMMA CommitDispatchTypes ==
  ASSUME Types, NEW c \in Clients, CommitDispatch(c)
  PROVE  Types'
<1>1. /\ notes' = [k \in DOMAIN notes |->
                     IF k \in DOMAIN call[c].outcome THEN Handled(c, k) ELSE notes[k]]
      /\ call' = [call EXCEPT ![c] = NoCall]
      /\ UNCHANGED <<result, pubs, clock, acks, delivered>>
  BY DEF CommitDispatch
<1>2. DispatchOK(call[c])
  BY DEF CommitDispatch, Types, CallsOK, CallOK
<1>3. ASSUME NEW k \in DOMAIN notes PROVE NoteOK(notes'[k])
  <2>1. NoteOK(notes[k])
    BY DEF Types, NotesOK
  <2>2. CASE k \in DOMAIN call[c].outcome
    <3>1. notes'[k] = [notes[k] EXCEPT !.status = call[c].outcome[k],
                                      !.attempts = call[c].attempts[k] + 1]
      BY <1>1, <2>2 DEF Handled
    <3>2. call[c].attempts[k] \in Nat /\ call[c].outcome[k] \in {"sent", "failed", "suppressed"}
      BY <1>2, <2>2 DEF DispatchOK
    <3>3. QED
      BY <2>1, <3>1, <3>2 DEF NoteOK, NoteFields
  <2>3. CASE k \notin DOMAIN call[c].outcome
    BY <1>1, <2>1, <2>3
  <2>4. QED
    BY <2>2, <2>3
<1>4. NotesOK'
  BY <1>1, <1>3 DEF Types, NotesOK, NoteOK
<1>5. CallsOK'
  <2>1. CallOK(c)'
    BY <1>1 DEF Types, CallsOK, CallOK, NoCall
  <2>2. /\ clock \in Nat /\ clock' \in Nat /\ clock <= clock'
        /\ DOMAIN notes \subseteq DOMAIN notes' /\ DOMAIN pubs \subseteq DOMAIN pubs'
    BY <1>1 DEF Types, NotesOK
  <2>3. QED
    BY <1>1, <2>1, <2>2, OthersOK DEF Types
<1>6. QED
  BY <1>1, <1>4, <1>5 DEF Types, ResultOK, PubsOK, AcksOK

LEMMA TypesNext ==
  ASSUME Types, [Next]_vars
  PROVE  Types'
<1>1. ASSUME NEW r \in Runs, Rework(r) PROVE Types'
  <2>1. ResultOK'
    BY <1>1 DEF Rework, Types, ResultOK
  <2>2. UNCHANGED <<pubs, clock, acks, notes, call, delivered>>
    BY <1>1 DEF Rework
  <2>3. CallsOK'
    BY <2>2, CallsKept DEF Types, NotesOK
  <2>4. QED
    BY <2>1, <2>2, <2>3 DEF Types, PubsOK, AcksOK, NotesOK, NoteOK
<1>2. ASSUME NEW r \in Runs, NEW e \in Employees, AcknowledgeByLink(r, e) \/ Acknowledge(r, e)
      PROVE  Types'
  <2>1. /\ acks' = [acks EXCEPT ![<<r, e>>] = "acknowledged"]
        /\ UNCHANGED <<result, pubs, clock, notes, call, delivered>>
    BY <1>2 DEF AcknowledgeByLink, Acknowledge, Acknowledged
  <2>2. AcksOK'
    BY <2>1 DEF Types, AcksOK
  <2>3. CallsOK'
    BY <2>1, CallsKept DEF Types, NotesOK
  <2>4. QED
    BY <2>1, <2>2, <2>3 DEF Types, ResultOK, PubsOK, NotesOK, NoteOK
<1>3. ASSUME NEW c \in Clients, Die(c) PROVE Types'
  <2>1. call' = [call EXCEPT ![c] = NoCall] /\ UNCHANGED <<result, pubs, clock, acks, notes, delivered>>
    BY <1>3 DEF Die
  <2>2. CallOK(c)'
    BY <2>1 DEF Types, CallsOK, CallOK, NoCall
  <2>3. QED
    BY <2>1, <2>2, CallTypes DEF Types, ResultOK, NotesOK
<1>4. CASE UNCHANGED vars
  BY <1>4 DEF vars, Types, ResultOK, PubsOK, AcksOK, NotesOK, NoteOK, CallsOK, CallOK,
              PublishOK, RecordOK, DispatchOK
<1>5. QED
  BY <1>1, <1>2, <1>3, <1>4, BeginPublishTypes, CommitPublishTypes, BeginRecordTypes,
     CommitRecordTypes, BeginDispatchTypes, DeliverTypes, CommitDispatchTypes DEF Next

LEMMA TypesHold == Spec => []Types
<1>1. Init => Types
  BY InitTypes
<1>2. Types /\ [Next]_vars => Types'
  BY TypesNext
<1>3. QED
  BY <1>1, <1>2, PTL DEF Spec

\* The tables stay as their keys and checks want them, whatever publications,
\* acknowledgements and dispatches do at once.
THEOREM TypeOKHolds == Spec => []TypeOK
<1>1. Types => TypeOK
  BY DEF Types, PubsOK, AcksOK, NotesOK, NoteOK, TypeOK
<1>2. QED
  BY <1>1, TypesHold, PTL

-----------------------------------------------------------------------------
(* Acknowledgements.                                                       *)

LEMMA AskedNext ==
  ASSUME Types, AskedForWhatTheySee, [Next]_vars
  PROVE  AskedForWhatTheySee'
<1>1. ASSUME NEW c \in Clients, CommitPublish(c) PROVE AskedForWhatTheySee'
  <2> DEFINE p == call[c]
             new == [status |-> "published", roster |-> p.roster, changed |-> p.archived # {}]
             old == [r \in DOMAIN pubs |->
                       IF r \in p.archived THEN [pubs[r] EXCEPT !.status = "archived"] ELSE pubs[r]]
             S == {p.run} \X Affected(p)
  <2>1. p.run \notin DOMAIN pubs
    BY <1>1 DEF CommitPublish
  <2>2. pubs' = [r \in DOMAIN old \cup {p.run} |-> IF r \in {p.run} THEN new ELSE old[r]]
    BY <1>1 DEF CommitPublish, With
  <2>3. \A r \in DOMAIN pubs : old[r].roster = pubs[r].roster
    BY DEF Types, PubsOK, PubFields
  <2>4. new.roster = p.roster /\ DOMAIN old = DOMAIN pubs
    OBVIOUS
  <2>5. acks' = [k \in DOMAIN acks \cup S |-> IF k \in S THEN "pending" ELSE acks[k]]
    BY <1>1 DEF CommitPublish, With
  <2>6. DOMAIN acks' = DOMAIN acks \cup S
    BY <2>5
  <2> HIDE DEF new, old
  <2>7. SUFFICES ASSUME NEW r \in DOMAIN pubs', NEW e \in Employees
                 PROVE  <<r, e>> \in DOMAIN acks' <=> \E k \in pubs'[r].roster : k[1] = e
    BY DEF AskedForWhatTheySee, Cards
  <2>8. CASE r = p.run
    <3>1. pubs'[r].roster = p.roster
      BY <2>2, <2>4, <2>8
    <3>2. <<r, e>> \notin DOMAIN acks
      BY <2>1, <2>8 DEF Types, AcksOK
    <3>3. <<r, e>> \in S <=> \E k \in p.roster : k[1] = e
      BY <2>8 DEF Affected, Staff
    <3>4. QED
      BY <2>6, <3>1, <3>2, <3>3
  <2>9. CASE r # p.run
    <3>1. r \in DOMAIN pubs /\ pubs'[r].roster = pubs[r].roster
      BY <2>2, <2>3, <2>4, <2>9
    <3>2. <<r, e>> \notin S
      BY <2>9
    <3>3. <<r, e>> \in DOMAIN acks <=> \E k \in pubs[r].roster : k[1] = e
      BY <3>1 DEF AskedForWhatTheySee, Cards
    <3>4. QED
      BY <2>6, <3>1, <3>2, <3>3
  <2>10. QED
    BY <2>8, <2>9
<1>2. ASSUME NEW r \in Runs, NEW e \in Employees, AcknowledgeByLink(r, e) \/ Acknowledge(r, e)
      PROVE  AskedForWhatTheySee'
  <2>1. pubs' = pubs /\ DOMAIN acks' = DOMAIN acks
    BY <1>2 DEF AcknowledgeByLink, Acknowledge, Acknowledged
  <2>2. QED
    BY <2>1 DEF AskedForWhatTheySee, Cards
<1>3. ASSUME UNCHANGED <<pubs, acks>> PROVE AskedForWhatTheySee'
  BY <1>3 DEF AskedForWhatTheySee, Cards
<1>4. QED
  BY <1>1, <1>2, <1>3 DEF Next, vars, Rework, BeginPublish, BeginRecord, CommitRecord, BeginDispatch,
     Deliver, CommitDispatch, Die

\* Who is asked to acknowledge a publication finds something on its page, and
\* the other way round: the rows come from the snapshot, not from the result.
THEOREM AskedForWhatTheySeeHolds == Spec => []AskedForWhatTheySee
<1>1. Init => AskedForWhatTheySee
  BY DEF Init, AskedForWhatTheySee
<1>2. Types /\ AskedForWhatTheySee /\ [Next]_vars => AskedForWhatTheySee'
  BY AskedNext
<1>3. QED
  BY <1>1, <1>2, TypesHold, PTL DEF Spec

-----------------------------------------------------------------------------
(* Notifications.                                                          *)

\* A step that handles no notification: new ones are pending.
Quiet ==
  /\ \A k \in DOMAIN notes : k \in DOMAIN notes' /\ notes'[k] = notes[k]
  /\ \A k \in DOMAIN notes' \ DOMAIN notes : notes'[k].status = "pending_recorded"
  /\ \A k \in DOMAIN delivered : delivered'[k] = delivered[k]
  /\ \A k \in DOMAIN delivered' \ DOMAIN delivered :
       k \notin DOMAIN notes /\ delivered'[k] = 0
  /\ \A c \in Clients : call'[c].op = "dispatch" => call'[c] = call[c]
  /\ ~disturbed' =>
       ~disturbed /\ \A c \in Clients : call[c].op = "dispatch" => call'[c] = call[c]

LEMMA CommitPublishIsQuiet ==
  ASSUME Types, NEW c \in Clients, CommitPublish(c)
  PROVE  Quiet
<1> DEFINE p == call[c]
           S == {p.run} \X Affected(p) \X {"in_app"}
<1>1. PICK m :
        /\ m.status = "pending_recorded"
        /\ notes' = [k \in DOMAIN notes \cup S |-> IF k \in S THEN m ELSE notes[k]]
  <2> DEFINE note == [type |-> IF p.archived # {} THEN "changed" ELSE "published",
                      created |-> p.now, status |-> "pending_recorded", attempts |-> 0]
  <2>1. PICK m : m = note
    OBVIOUS
  <2>2. m.status = "pending_recorded"
    BY <2>1
  <2>3. notes' = [k \in DOMAIN notes \cup S |-> IF k \in S THEN m ELSE notes[k]]
    BY <2>1 DEF CommitPublish, With
  <2>4. QED
    BY <2>2, <2>3
<1>2. S \cap DOMAIN notes = {}
  BY DEF CommitPublish, Types, NotesOK
<1>3. call' = [call EXCEPT ![c] = NoCall] /\ UNCHANGED <<delivered, disturbed>> /\ p.op = "publish"
  BY DEF CommitPublish
<1>4. \A d \in Clients : d # c => call'[d] = call[d]
  BY <1>3 DEF Types, CallsOK
<1>5. call'[c].op = "none"
  BY <1>3 DEF Types, CallsOK, NoCall
<1> HIDE DEF S
<1>6. QED
  BY <1>1, <1>2, <1>3, <1>4, <1>5 DEF Quiet

LEMMA CommitRecordIsQuiet ==
  ASSUME Types, NEW c \in Clients, CommitRecord(c)
  PROVE  Quiet
<1> DEFINE k == call[c].key
<1>1. PICK m :
        /\ m.status = "pending_recorded"
        /\ notes' = [n \in DOMAIN notes \cup {k} |-> IF n \in {k} THEN m ELSE notes[n]]
  <2> DEFINE note == [type |-> "published", created |-> call[c].now,
                      status |-> "pending_recorded", attempts |-> 0]
  <2>1. PICK m : m = note
    OBVIOUS
  <2>2. m.status = "pending_recorded"
    BY <2>1
  <2>3. notes' = [n \in DOMAIN notes \cup {k} |-> IF n \in {k} THEN m ELSE notes[n]]
    BY <2>1 DEF CommitRecord, With
  <2>4. QED
    BY <2>2, <2>3
<1>2. delivered' = [n \in DOMAIN delivered \cup {k} |-> IF n \in {k} THEN 0 ELSE delivered[n]]
  BY DEF CommitRecord, With
<1>3. /\ k \notin DOMAIN notes /\ disturbed' = disturbed /\ call[c].op = "record"
      /\ call' = [call EXCEPT ![c] = NoCall]
  BY DEF CommitRecord
<1>4. k \notin DOMAIN delivered
  BY <1>3 DEF Types, NotesOK
<1>5. call'[c].op = "none" /\ \A d \in Clients : d # c => call'[d] = call[d]
  BY <1>3 DEF Types, CallsOK, NoCall
<1> HIDE DEF k
<1>6. QED
  BY <1>1, <1>2, <1>3, <1>4, <1>5 DEF Quiet

\* The steps of a client that leave notes and deliveries alone.
LEMMA CallIsQuiet ==
  ASSUME Types, NEW c \in Clients, NEW new, call' = [call EXCEPT ![c] = new],
         new.op # "dispatch", UNCHANGED <<notes, delivered>>,
         ~disturbed' => ~disturbed /\ call[c].op # "dispatch"
  PROVE  Quiet
<1>1. \A d \in Clients : d # c => call'[d] = call[d]
  BY DEF Types, CallsOK
<1>2. call'[c] = new
  BY DEF Types, CallsOK
<1>3. QED
  BY <1>1, <1>2 DEF Quiet

LEMMA StepIsQuiet ==
  ASSUME Types, [Next]_vars
  PROVE  \/ Quiet
         \/ \E c \in Clients : BeginDispatch(c) \/ CommitDispatch(c)
         \/ \E c \in Clients : \E k \in DOMAIN notes : Deliver(c, k)
<1>1. ASSUME UNCHANGED <<notes, call, delivered, disturbed>> PROVE Quiet
  BY <1>1 DEF Quiet
<1>2. ASSUME NEW c \in Clients, NEW r \in Runs, NEW replace \in BOOLEAN, BeginPublish(c, r, replace)
      PROVE  Quiet
  <2>1. PICK new : new = [op |-> "publish", run |-> r, roster |-> result[r],
                          archived |-> Overlapping(r), now |-> clock]
    OBVIOUS
  <2>2. call' = [call EXCEPT ![c] = new] /\ UNCHANGED <<notes, delivered, disturbed>>
    BY <1>2, <2>1 DEF BeginPublish
  <2>3. new.op # "dispatch" /\ call[c].op # "dispatch"
    BY <1>2, <2>1 DEF BeginPublish, NoCall
  <2>4. QED
    BY <2>2, <2>3, CallIsQuiet
<1>3. ASSUME NEW c \in Clients, Die(c) PROVE Quiet
  <2>1. NoCall.op # "dispatch"
    BY DEF NoCall
  <2>2. QED
    BY <1>3, <2>1, CallIsQuiet DEF Die
<1>4. ASSUME NEW c \in Clients, NEW k \in Runs \X Employees \X Channels, BeginRecord(c, k)
      PROVE  Quiet
  <2>1. PICK new : new = [op |-> "record", key |-> k, now |-> clock]
    OBVIOUS
  <2>2. call' = [call EXCEPT ![c] = new] /\ UNCHANGED <<notes, delivered, disturbed>>
    BY <1>4, <2>1 DEF BeginRecord
  <2>3. new.op # "dispatch" /\ call[c].op # "dispatch"
    BY <1>4, <2>1 DEF BeginRecord, NoCall
  <2>4. QED
    BY <2>2, <2>3, CallIsQuiet
<1>5. QED
  BY <1>1, <1>2, <1>3, <1>4, CommitPublishIsQuiet, CommitRecordIsQuiet
     DEF Next, vars, Rework, AcknowledgeByLink, Acknowledge

\* What has gone out is recorded, or about to be.
SentOut ==
  /\ \A k \in DOMAIN delivered : notes[k].status = "sent" => delivered[k] > 0
  /\ \A c \in Clients : call[c].op = "dispatch" =>
       \A k \in DOMAIN call[c].outcome \cap DOMAIN delivered :
         call[c].outcome[k] = "sent" => delivered[k] > 0

LEMMA SentOutNext ==
  ASSUME Types, Types', SentOut, [Next]_vars
  PROVE  SentOut'
<1>1. ASSUME Quiet PROVE SentOut'
  <2>1. \A k \in DOMAIN delivered' : notes'[k].status = "sent" => delivered'[k] > 0
    <3> SUFFICES ASSUME NEW k \in DOMAIN delivered', notes'[k].status = "sent"
                 PROVE  delivered'[k] > 0
      OBVIOUS
    <3>1. k \in DOMAIN notes'
      BY DEF Types, NotesOK
    <3>2. k \in DOMAIN notes /\ notes'[k] = notes[k]
      BY <1>1, <3>1 DEF Quiet
    <3>3. k \in DOMAIN delivered /\ delivered'[k] = delivered[k]
      BY <1>1, <3>2 DEF Quiet
    <3>4. QED
      BY <3>2, <3>3 DEF SentOut
  <2>2. ASSUME NEW c \in Clients, call'[c].op = "dispatch",
               NEW k \in DOMAIN call'[c].outcome \cap DOMAIN delivered',
               call'[c].outcome[k] = "sent"
        PROVE  delivered'[k] > 0
    <3>1. call'[c] = call[c]
      BY <1>1, <2>2 DEF Quiet
    <3>2. k \in DOMAIN notes
      BY <2>2, <3>1 DEF Types, CallsOK, CallOK, DispatchOK
    <3>3. k \in DOMAIN delivered /\ delivered'[k] = delivered[k]
      BY <1>1, <2>2, <3>2 DEF Quiet
    <3>4. QED
      BY <2>2, <3>1, <3>3 DEF SentOut
  <2>3. QED
    BY <2>1, <2>2 DEF SentOut
<1>2. ASSUME NEW c \in Clients, BeginDispatch(c) PROVE SentOut'
  <2>1. UNCHANGED <<notes, delivered>> /\ \A d \in Clients : d # c => call'[d] = call[d]
    BY <1>2 DEF BeginDispatch, Types, CallsOK
  <2>2. DOMAIN call'[c].outcome = {}
    BY <1>2 DEF BeginDispatch, Types, CallsOK
  <2>3. QED
    BY <2>1, <2>2 DEF SentOut
<1>3. ASSUME NEW c \in Clients, CommitDispatch(c) PROVE SentOut'
  <2>1. /\ notes' = [k \in DOMAIN notes |->
                       IF k \in DOMAIN call[c].outcome THEN Handled(c, k) ELSE notes[k]]
        /\ call' = [call EXCEPT ![c] = NoCall] /\ delivered' = delivered
        /\ call[c].op = "dispatch"
    BY <1>3 DEF CommitDispatch
  <2>2. \A d \in Clients : call'[d].op = "dispatch" => call'[d] = call[d]
    BY <2>1 DEF Types, CallsOK, NoCall
  <2>3. ASSUME NEW k \in DOMAIN delivered, notes'[k].status = "sent" PROVE delivered[k] > 0
    <3>1. k \in DOMAIN notes /\ DOMAIN notes[k] = NoteFields
      BY DEF Types, NotesOK, NoteOK
    <3>2. CASE k \in DOMAIN call[c].outcome
      <4>1. notes'[k].status = call[c].outcome[k]
        BY <2>1, <3>1, <3>2 DEF Handled, NoteFields
      <4>2. QED
        BY <2>1, <2>3, <3>2, <4>1 DEF SentOut
    <3>3. CASE k \notin DOMAIN call[c].outcome
      BY <2>1, <2>3, <3>1, <3>3 DEF SentOut
    <3>4. QED
      BY <3>2, <3>3
  <2>4. QED
    BY <2>1, <2>2, <2>3 DEF SentOut
<1>4. ASSUME NEW c \in Clients, NEW k \in DOMAIN notes, Deliver(c, k) PROVE SentOut'
  <2>1. PICK fate \in Fates(k) :
          /\ DOMAIN call'[c].outcome = DOMAIN call[c].outcome \cup {k}
          /\ call'[c].outcome[k] = fate.status
          /\ \A n \in DOMAIN call[c].outcome : n # k => call'[c].outcome[n] = call[c].outcome[n]
          /\ call' = [call EXCEPT ![c] = call'[c]]
          /\ delivered' = IF fate.out THEN [delivered EXCEPT ![k] = @ + 1] ELSE delivered
    BY <1>4, DeliverFacts
  <2>2. /\ call[c].op = "dispatch" /\ notes' = notes
        /\ \A d \in Clients : d # c => call'[d] = call[d]
    BY <1>4, <2>1 DEF Deliver, Types, CallsOK
  <2>3. /\ DOMAIN delivered' = DOMAIN delivered
        /\ \A n \in DOMAIN delivered :
             delivered[n] \in Nat /\ (delivered[n] > 0 => delivered'[n] > 0)
    <3>1. \A n \in DOMAIN delivered : delivered[n] \in Nat
      BY DEF Types, NotesOK
    <3>2. CASE fate.out
      BY <2>1, <3>1, <3>2
    <3>3. CASE ~fate.out
      BY <2>1, <3>1, <3>3
    <3>4. QED
      BY <3>2, <3>3
  <2>4. k \in DOMAIN delivered /\ fate.status = "sent" => delivered'[k] > 0
    <3> SUFFICES ASSUME k \in DOMAIN delivered, fate.status = "sent" PROVE delivered'[k] > 0
      OBVIOUS
    <3>1. k[3] # "in_app" /\ delivered[k] \in Nat
      BY DEF Types, NotesOK
    <3>2. fate.out = TRUE
      BY <3>1 DEF Fates
    <3>3. QED
      BY <2>1, <3>1, <3>2
  <2>5. \A n \in DOMAIN delivered' : notes'[n].status = "sent" => delivered'[n] > 0
    BY <2>2, <2>3 DEF SentOut
  <2>6. \A d \in Clients, n \in DOMAIN delivered :
          call[d].op = "dispatch" /\ n \in DOMAIN call[d].outcome /\ call[d].outcome[n] = "sent"
          => delivered'[n] > 0
    BY <2>3 DEF SentOut
  <2>7. QED
    BY <2>1, <2>2, <2>3, <2>4, <2>5, <2>6 DEF SentOut
<1>5. QED
  BY <1>1, <1>2, <1>3, <1>4, StepIsQuiet

\* Nothing is recorded as sent that did not go out, even if dispatches overlap
\* or die.
THEOREM SentWasDeliveredHolds == Spec => []SentWasDelivered
<1>1. Init => SentOut
  BY DEF Init, SentOut, NoCall
<1>2. Types /\ Types' /\ SentOut /\ [Next]_vars => SentOut'
  BY SentOutNext
<1>3. SentOut => SentWasDelivered
  BY DEF SentOut, SentWasDelivered
<1>4. QED
  BY <1>1, <1>2, <1>3, TypesHold, PTL DEF Spec

-----------------------------------------------------------------------------
(* One delivery each, while no dispatch dies or meets another.              *)

\* A notification that a dispatch has handled, whether or not it is recorded.
Touched(k) ==
  \/ notes[k].status # "pending_recorded"
  \/ \E c \in Clients : call[c].op = "dispatch" /\ k \in DOMAIN call[c].outcome

Alone == \A c, d \in Clients : call[c].op = "dispatch" /\ call[d].op = "dispatch" => c = d

\* A batch stays pending.
BatchKept ==
  \A c \in Clients : call[c].op = "dispatch" =>
    \A k \in call[c].todo \cup DOMAIN call[c].outcome : notes[k].status = "pending_recorded"

Once == \A k \in DOMAIN delivered : delivered[k] = 0 \/ (delivered[k] = 1 /\ Touched(k))

Calm == ~disturbed => Alone /\ BatchKept /\ Once

LEMMA QuietCalm ==
  ASSUME Types, Types', Calm, Quiet
  PROVE  Calm'
<1> SUFFICES ASSUME ~disturbed' PROVE (Alone /\ BatchKept /\ Once)'
  BY DEF Calm
<1>1. Alone /\ BatchKept /\ Once
  BY DEF Calm, Quiet
<1>2. \A c \in Clients :
        /\ call'[c].op = "dispatch" <=> call[c].op = "dispatch"
        /\ call[c].op = "dispatch" => call'[c] = call[c] /\ DispatchOK(call[c])
  BY DEF Quiet, Types, CallsOK, CallOK
<1>3. \A k \in DOMAIN notes : k \in DOMAIN notes' /\ notes'[k] = notes[k]
  BY DEF Quiet
<1>4. \A k \in DOMAIN notes : Touched(k)' <=> Touched(k)
  BY <1>2, <1>3 DEF Touched
<1>5. \A k \in DOMAIN delivered : k \in DOMAIN notes
  BY DEF Types, NotesOK
<1>6. Alone'
  BY <1>1, <1>2 DEF Alone
<1>7. BatchKept'
  <2> SUFFICES ASSUME NEW c \in Clients, call'[c].op = "dispatch"
      PROVE  \A k \in call'[c].todo \cup DOMAIN call'[c].outcome :
               notes'[k].status = "pending_recorded"
    BY DEF BatchKept
  <2>1. call'[c] = call[c] /\ call[c].op = "dispatch" /\ DispatchOK(call[c])
    BY <1>2
  <2>2. \A k \in call[c].todo \cup DOMAIN call[c].outcome : k \in DOMAIN notes
    BY <2>1 DEF DispatchOK
  <2>3. QED
    BY <1>1, <1>3, <2>1, <2>2 DEF BatchKept
<1>8. Once'
  BY <1>1, <1>4, <1>5 DEF Once, Quiet
<1>9. QED
  BY <1>6, <1>7, <1>8

LEMMA BeginDispatchCalm ==
  ASSUME Types, Calm, NEW c \in Clients, BeginDispatch(c)
  PROVE  Calm'
<1>1. PICK S \in Batches :
        call' = [call EXCEPT ![c] = [op |-> "dispatch", todo |-> S, seen |-> Pending,
                   attempts |-> [k \in S |-> notes[k].attempts], outcome |-> [k \in {} |-> ""]]]
  BY DEF BeginDispatch
<1>2. UNCHANGED <<notes, delivered>> /\ disturbed' = (disturbed \/ Dispatching # {})
  BY DEF BeginDispatch
<1> SUFFICES ASSUME ~disturbed' PROVE (Alone /\ BatchKept /\ Once)'
  BY DEF Calm
<1>3. Alone /\ BatchKept /\ Once /\ \A d \in Clients : call[d].op # "dispatch"
  BY <1>2 DEF Calm, Dispatching
<1>4. /\ call'[c].todo = S /\ DOMAIN call'[c].outcome = {}
      /\ \A d \in Clients : d # c => call'[d] = call[d]
  BY <1>1 DEF Types, CallsOK
<1>5. \A k \in DOMAIN notes : Touched(k)' <=> Touched(k)
  BY <1>2, <1>3, <1>4 DEF Touched
<1>6. \A k \in DOMAIN delivered : k \in DOMAIN notes
  BY DEF Types, NotesOK
<1>7. BatchKept'
  <2>1. \A k \in S : notes[k].status = "pending_recorded"
    BY DEF Batches, Pending
  <2>2. QED
    BY <1>2, <1>3, <1>4, <2>1 DEF BatchKept
<1>8. Alone'
  BY <1>3, <1>4 DEF Alone
<1>9. Once'
  BY <1>2, <1>3, <1>5, <1>6 DEF Once
<1>10. QED
  BY <1>7, <1>8, <1>9

LEMMA CommitDispatchCalm ==
  ASSUME Types, Types', Calm, NEW c \in Clients, CommitDispatch(c)
  PROVE  Calm'
<1>1. /\ notes' = [k \in DOMAIN notes |->
                     IF k \in DOMAIN call[c].outcome THEN Handled(c, k) ELSE notes[k]]
      /\ call' = [call EXCEPT ![c] = NoCall] /\ UNCHANGED <<delivered, disturbed>>
      /\ call[c].op = "dispatch" /\ DispatchOK(call[c])
  BY DEF CommitDispatch, Types, CallsOK, CallOK
<1> SUFFICES ASSUME ~disturbed' PROVE (Alone /\ BatchKept /\ Once)'
  BY DEF Calm
<1>2. Alone /\ BatchKept /\ Once
  BY <1>1 DEF Calm
<1>3. \A d \in Clients : call'[d].op # "dispatch" /\ (call[d].op = "dispatch" => d = c)
  <2>1. call'[c].op # "dispatch" /\ \A d \in Clients : d # c => call'[d] = call[d]
    BY <1>1 DEF Types, CallsOK, NoCall
  <2>2. \A d \in Clients : call[d].op = "dispatch" => d = c
    BY <1>1, <1>2 DEF Alone
  <2>3. QED
    BY <2>1, <2>2
<1>4. ASSUME NEW k \in DOMAIN notes
      PROVE  Touched(k)' <=> Touched(k)
  <2>1. DOMAIN notes[k] = NoteFields
    BY DEF Types, NotesOK, NoteOK
  <2>2. CASE k \in DOMAIN call[c].outcome
    <3>1. notes'[k].status = call[c].outcome[k]
      BY <1>1, <2>1, <2>2 DEF Handled, NoteFields
    <3>2. call[c].outcome[k] # "pending_recorded"
      BY <1>1, <2>2 DEF DispatchOK
    <3>3. QED
      BY <1>1, <2>2, <3>1, <3>2 DEF Touched
  <2>3. CASE k \notin DOMAIN call[c].outcome
    <3>1. notes'[k] = notes[k]
      BY <1>1, <2>3
    <3>2. QED
      BY <1>3, <2>3, <3>1 DEF Touched
  <2>4. QED
    BY <2>2, <2>3
<1>5. DOMAIN notes' = DOMAIN notes /\ DOMAIN delivered \subseteq DOMAIN notes
  BY <1>1 DEF Types, NotesOK
<1>6. Alone' /\ BatchKept'
  BY <1>3 DEF Alone, BatchKept
<1>7. Once'
  BY <1>1, <1>2, <1>4, <1>5 DEF Once
<1>8. QED
  BY <1>6, <1>7

LEMMA DeliverCalm ==
  ASSUME Types, Calm, NEW c \in Clients, NEW k \in DOMAIN notes, Deliver(c, k)
  PROVE  Calm'
<1>1. PICK fate \in Fates(k) :
        /\ call'[c].op = "dispatch" /\ call'[c].todo = call[c].todo \ {k}
        /\ DOMAIN call'[c].outcome = DOMAIN call[c].outcome \cup {k}
        /\ call' = [call EXCEPT ![c] = call'[c]]
        /\ delivered' = IF fate.out THEN [delivered EXCEPT ![k] = @ + 1] ELSE delivered
  BY DeliverFacts
<1>2. /\ call[c].op = "dispatch" /\ k \in call[c].todo /\ UNCHANGED <<notes, disturbed>>
      /\ DispatchOK(call[c])
  BY DEF Deliver, Types, CallsOK, CallOK
<1> SUFFICES ASSUME ~disturbed' PROVE (Alone /\ BatchKept /\ Once)'
  BY DEF Calm
<1>3. Alone /\ BatchKept /\ Once
  BY <1>2 DEF Calm
<1>4. \A d \in Clients : d # c => call'[d] = call[d] /\ call[d].op # "dispatch"
  <2>1. \A d \in Clients : d # c => call'[d] = call[d]
    BY <1>1 DEF Types, CallsOK
  <2>2. QED
    BY <1>2, <1>3, <2>1 DEF Alone
<1>5. Touched(k)' /\ \A n \in DOMAIN notes : n # k => (Touched(n)' <=> Touched(n))
  BY <1>1, <1>2, <1>4 DEF Touched
<1>6. ~Touched(k)
  BY <1>2, <1>3, <1>4 DEF Touched, BatchKept, DispatchOK
<1>7. DOMAIN delivered' = DOMAIN delivered /\ DOMAIN delivered \subseteq DOMAIN notes
  BY <1>1 DEF Types, NotesOK
<1>8. Alone'
  BY <1>4 DEF Alone
<1>9. BatchKept'
  <2>1. \A n \in call'[c].todo \cup DOMAIN call'[c].outcome : notes[n].status = "pending_recorded"
    BY <1>1, <1>2, <1>3 DEF BatchKept
  <2>2. QED
    BY <1>2, <1>4, <2>1 DEF BatchKept
<1>10. Once'
  <2>1. \A n \in DOMAIN delivered : n # k => delivered'[n] = delivered[n]
    BY <1>1
  <2>2. k \in DOMAIN delivered => delivered[k] = 0
    BY <1>3, <1>6 DEF Once
  <2>3. k \in DOMAIN delivered => delivered'[k] \in {0, 1}
    BY <1>1, <2>2
  <2>4. QED
    BY <1>3, <1>5, <1>7, <2>1, <2>3 DEF Once
<1>11. QED
  BY <1>8, <1>9, <1>10

LEMMA CalmHolds == Spec => [](Types /\ Calm)
<1>1. Init => Types /\ Calm
  <2>1. Init => Calm
    BY DEF Init, NoCall, Calm, Alone, BatchKept, Once
  <2>2. QED
    BY <2>1, InitTypes
<1>2. (Types /\ Calm) /\ [Next]_vars => (Types /\ Calm)'
  BY TypesNext, StepIsQuiet, QuietCalm, BeginDispatchCalm, CommitDispatchCalm, DeliverCalm
<1>3. QED
  BY <1>1, <1>2, PTL DEF Spec

\* While no dispatch dies or meets another, a notification goes out at most
\* once, however publications and dispatches alternate.
THEOREM DeliveredOnceHolds == Spec => []DeliveredOnce
<1>1. Calm => DeliveredOnce
  BY DEF Calm, Once, DeliveredOnce
<1>2. QED
  BY <1>1, CalmHolds, PTL

-----------------------------------------------------------------------------
(* The order within a dispatch.                                            *)

\* What was pending when a dispatch read its batch is in the batch, or not older
\* than what is still to be delivered.
BatchOldest ==
  \A c \in Clients : call[c].op = "dispatch" =>
    \A k \in call[c].todo, n \in call[c].seen :
      n \in call[c].todo \cup DOMAIN call[c].outcome \/ notes[k].created <= notes[n].created

\* A step that touches no dispatch and no time keeps it.
LEMMA BatchOldestKept ==
  ASSUME Types, BatchOldest,
         \A k \in DOMAIN notes : notes'[k].created = notes[k].created,
         NEW D \in SUBSET Clients,
         \A c \in D : call'[c] = call[c],
         \A c \in Clients \ D : call'[c].op = "dispatch" =>
           \A k \in call'[c].todo, n \in call'[c].seen :
             n \in call'[c].todo \cup DOMAIN call'[c].outcome
             \/ notes'[k].created <= notes'[n].created
  PROVE  BatchOldest'
<1> SUFFICES ASSUME NEW c \in Clients, call'[c].op = "dispatch",
                    NEW k \in call'[c].todo, NEW n \in call'[c].seen,
                    n \notin call'[c].todo \cup DOMAIN call'[c].outcome
             PROVE  notes'[k].created <= notes'[n].created
  BY DEF BatchOldest
<1>1. CASE c \in D
  <2>1. call'[c] = call[c] /\ DispatchOK(call[c])
    BY <1>1 DEF Types, CallsOK, CallOK
  <2>2. k \in DOMAIN notes /\ n \in DOMAIN notes /\ notes[k].created <= notes[n].created
    BY <2>1 DEF DispatchOK, BatchOldest
  <2>3. QED
    BY <2>2
<1>2. CASE c \notin D
  BY <1>2
<1>3. QED
  BY <1>1, <1>2

LEMMA BatchOldestNext ==
  ASSUME Types, BatchOldest, [Next]_vars
  PROVE  BatchOldest'
<1>1. ASSUME Quiet PROVE BatchOldest'
  <2> DEFINE D == {c \in Clients : call'[c] = call[c]}
  <2>1. \A c \in D : call'[c] = call[c]
    OBVIOUS
  <2>2. \A c \in Clients \ D : call'[c].op # "dispatch"
    BY <1>1 DEF Quiet
  <2>3. \A k \in DOMAIN notes : notes'[k].created = notes[k].created
    BY <1>1 DEF Quiet
  <2>4. D \in SUBSET Clients
    OBVIOUS
  <2> HIDE DEF D
  <2>5. QED
    BY <2>1, <2>2, <2>3, <2>4, BatchOldestKept
<1>2. ASSUME NEW c \in Clients, BeginDispatch(c) PROVE BatchOldest'
  <2>1. PICK S \in Batches :
          call' = [call EXCEPT ![c] = [op |-> "dispatch", todo |-> S, seen |-> Pending,
                     attempts |-> [k \in S |-> notes[k].attempts], outcome |-> [k \in {} |-> ""]]]
    BY <1>2 DEF BeginDispatch
  <2>2. notes' = notes
    BY <1>2 DEF BeginDispatch
  <2>3. /\ call'[c].todo = S /\ call'[c].seen = Pending
        /\ \A d \in Clients \ {c} : call'[d] = call[d]
    BY <2>1 DEF Types, CallsOK
  <2>4. \A k \in S, n \in Pending : n \in S \/ notes[k].created <= notes[n].created
    BY DEF Batches
  <2>5. \A k \in call'[c].todo, n \in call'[c].seen :
          n \in call'[c].todo \cup DOMAIN call'[c].outcome \/ notes'[k].created <= notes'[n].created
    BY <2>2, <2>3, <2>4
  <2>6. QED
    BY <2>2, <2>3, <2>5, BatchOldestKept
<1>3. ASSUME NEW c \in Clients, CommitDispatch(c) PROVE BatchOldest'
  <2>1. /\ notes' = [k \in DOMAIN notes |->
                       IF k \in DOMAIN call[c].outcome THEN Handled(c, k) ELSE notes[k]]
        /\ call' = [call EXCEPT ![c] = NoCall]
    BY <1>3 DEF CommitDispatch
  <2>2. ASSUME NEW k \in DOMAIN notes PROVE notes'[k].created = notes[k].created
    <3>1. DOMAIN notes[k] = NoteFields
      BY DEF Types, NotesOK, NoteOK
    <3>2. QED
      BY <2>1, <3>1 DEF Handled, NoteFields
  <2>3. call'[c].op # "dispatch" /\ \A d \in Clients \ {c} : call'[d] = call[d]
    BY <2>1 DEF Types, CallsOK, NoCall
  <2>4. QED
    BY <2>2, <2>3, BatchOldestKept
<1>4. ASSUME NEW c \in Clients, NEW k \in DOMAIN notes, Deliver(c, k) PROVE BatchOldest'
  <2>1. /\ call'[c].todo = call[c].todo \ {k} /\ call'[c].seen = call[c].seen
        /\ DOMAIN call'[c].outcome = DOMAIN call[c].outcome \cup {k}
        /\ call' = [call EXCEPT ![c] = call'[c]]
    BY <1>4, DeliverFacts
  <2>2. notes' = notes /\ call[c].op = "dispatch"
    BY <1>4 DEF Deliver
  <2>3. \A d \in Clients \ {c} : call'[d] = call[d]
    BY <2>1 DEF Types, CallsOK
  <2>4. \A m \in call'[c].todo, n \in call'[c].seen :
          n \in call'[c].todo \cup DOMAIN call'[c].outcome \/ notes'[m].created <= notes'[n].created
    BY <2>1, <2>2 DEF BatchOldest
  <2>5. QED
    BY <2>2, <2>3, <2>4, BatchOldestKept
<1>5. QED
  BY <1>1, <1>2, <1>3, <1>4, StepIsQuiet

\* The step of the property, for one notification that goes out.
LEMMA DeliveredInOrderStep ==
  ASSUME Types, BatchOldest, [Next]_vars, NEW c \in Clients, call[c].op = "dispatch",
         NEW k \in call[c].todo \cap DOMAIN delivered, NEW n \in call[c].seen,
         notes[n].created < notes[k].created,
         call'[c] # call[c], delivered'[k] > delivered[k]
  PROVE  n \in DOMAIN call[c].outcome
<1>1. delivered[k] \in Nat /\ DispatchOK(call[c])
  BY DEF Types, NotesOK, CallsOK, CallOK
<1>2. delivered'[k] # delivered[k]
  BY <1>1
<1>3. PICK d \in Clients, m \in DOMAIN notes : Deliver(d, m)
  <2>1. ~Quiet
    BY <1>2 DEF Quiet
  <2>2. ~\E d \in Clients : BeginDispatch(d) \/ CommitDispatch(d)
    BY <1>2 DEF BeginDispatch, CommitDispatch
  <2>3. QED
    BY <2>1, <2>2, StepIsQuiet
<1>4. d = c
  <2>1. call' = [call EXCEPT ![d] = call'[d]]
    BY <1>3, DeliverFacts
  <2>2. QED
    BY <2>1 DEF Types, CallsOK
<1>5. m = k
  BY <1>2, <1>3 DEF Deliver
<1>6. \A i \in call[c].todo : notes[k].created <= notes[i].created
  BY <1>3, <1>4, <1>5 DEF Deliver
<1>7. notes[k].created \in Nat /\ notes[n].created \in Nat
  BY <1>1 DEF Types, NotesOK, NoteOK, DispatchOK
<1>8. n \in call[c].todo \cup DOMAIN call[c].outcome
  BY <1>7 DEF BatchOldest
<1>9. n \notin call[c].todo
  BY <1>6, <1>7
<1>10. QED
  BY <1>8, <1>9

\* Whatever is recorded, dispatched or dies meanwhile, a dispatch delivers what
\* it found pending from the oldest on, also when that is more than its limit.
THEOREM DeliveredInOrderHolds == Spec => DeliveredInOrder
<1>1. Init => BatchOldest
  BY DEF Init, NoCall, BatchOldest
<1>2. Types /\ BatchOldest /\ [Next]_vars => BatchOldest'
  BY BatchOldestNext
<1>3. Types /\ BatchOldest /\ [Next]_vars =>
        [\A c \in Clients : call[c].op = "dispatch" =>
           \A k \in call[c].todo \cap DOMAIN delivered, n \in call[c].seen :
             /\ k[2] = n[2] /\ k[3] = n[3] /\ notes[n].created < notes[k].created
             /\ call'[c] # call[c] /\ delivered'[k] > delivered[k]
             => n \in DOMAIN call[c].outcome]_vars
  BY DeliveredInOrderStep
<1>4. QED
  BY <1>1, <1>2, <1>3, TypesHold, PTL DEF Spec, DeliveredInOrder

=============================================================================
