----------------------------- MODULE DeviceProofs -----------------------------
(***************************************************************************)
(* What one device keeps between its calls, its crashes and its upgrades:  *)
(* the status updates of a webxdc instance (StatusUpdates), the ids of the *)
(* accounts (Accounts) and the database (Migrations).                      *)
(***************************************************************************)
EXTENDS DeviceParts, SequenceTheorems, WellFoundedInduction, TLAPS

-----------------------------------------------------------------------------
(* Status updates. *)

Waits(u) == call[u].pc \in {"loaded", "recorded"}

CallRecords ==
    [Own -> [pc : {"new", "loaded", "recorded", "done", "dead"}, now : BOOLEAN, serial : Nat]]
FlushRecords ==
    [pc : {"idle", "read", "rendered", "sent", "kept"}, first : Int, last : Int,
     out : SUBSET Nat, firstNew : Int]
UpdateTypes == Update!TypeOK /\ call \in CallRecords /\ flush \in FlushRecords

(* The queued range is one of rows that exist, or it is empty. *)
RangeOK == queue = Update!NoRow \/ (queue.last \in Update!Serials /\ queue.first <= queue.last + 1)

(* Of the calls one is under way; its update has no row yet, or the last row  *)
(* of all that are or were queued.                                            *)
CallsOK ==
    /\ \A u, v \in Own : Waits(u) /\ Waits(v) => u = v
    /\ \A u \in Own : call[u].pc \in {"new", "loaded"} => \A i \in Update!Serials : rows[i] # u
    /\ \A u \in Own : call[u].pc = "loaded" => (call[u].now <=> inst # "draft")
    /\ \A u \in Own : call[u].pc = "recorded" =>
         inst # "draft" /\ call[u].serial \in Update!Serials /\ queue.last < call[u].serial

(* While the loop works on a range the range stays and only grows.  Its first *)
(* serial goes down with every resend, so it is the one the loop read only if *)
(* there was none since.                                                      *)
FlushOK ==
    /\ inst = "draft" => queue = Update!NoRow
    /\ flush.pc # "idle" => /\ queue # Update!NoRow
                            /\ queue.first <= flush.first /\ flush.last <= queue.last
    /\ flush.pc \in {"rendered", "sent", "kept"} => flush.firstNew <= flush.last + 1

(* What is due is in the range.  If there was no resend, what is due and      *)
(* below the first serial left for the next message is in this one.           *)
DueOK ==
    inst = "sent" => \A s \in due :
       /\ queue # Update!NoRow /\ queue.first <= s /\ s <= queue.last
       /\ flush.pc \in {"rendered", "sent", "kept"} /\ queue.first = flush.first =>
            s >= flush.firstNew \/ (flush.pc = "rendered" /\ s \in flush.out)

UpdateInv == UpdateTypes /\ RangeOK /\ CallsOK /\ FlushOK /\ DueOK

(* A set of numbers has a least one. *)
LEMMA Least == ASSUME NEW S \in SUBSET Nat, S # {} PROVE \E n \in S : \A k \in S : n <= k
<1> DEFINE R == OpToRel(<, Nat)
<1>1. IsWellFoundedOn(R, Nat) BY NatLessThanWellFounded
<1>2. \A a, b \in Nat : <<a, b>> \in R <=> a < b BY DEF OpToRel
<1> HIDE DEF R
<1>3. PICK n \in S : \A k \in S : ~ (<<k, n>> \in R) BY <1>1, WFMin
<1>4. ASSUME NEW k \in S PROVE n <= k
  <2>1. n \in Nat /\ k \in Nat OBVIOUS
  <2>2. ~ (k < n) BY <1>2, <1>3, <2>1
  <2> QED BY <2>1, <2>2
<1> QED BY <1>4

(* render_webxdc_status_update_object: what is asked for goes into this       *)
(* message or is left for the next.                                           *)
LEMMA RenderedOK ==
    ASSUME UpdateTypes, NEW lo \in Int, NEW hi \in Int,
           NEW r, r = Update!Rendered(lo, hi)
    PROVE  /\ r.out \subseteq Update!Serials /\ r.firstNew \in Int /\ r.firstNew <= hi + 1
           /\ \A s \in Update!Serials : lo <= s /\ s <= hi => s >= r.firstNew \/ s \in r.out
<1>1. PICK asked : asked = {s \in Update!Serials : s >= Update!AtLeast1(lo) /\ s <= hi} OBVIOUS
<1>2. PICK cut : cut = {s \in asked : Update!Cardinality({t \in asked : t < s}) >= SizeMax} OBVIOUS
<1>3. r = [out |-> asked \ cut,
           firstNew |-> IF cut = {} THEN hi + 1 ELSE CHOOSE s \in cut : \A t \in cut : s <= t]
  BY <1>1, <1>2 DEF Update!Rendered
<1>4. Len(rows) \in Nat BY LenProperties DEF UpdateTypes, Update!TypeOK
<1>5. asked \subseteq Nat /\ cut \subseteq asked /\ asked \subseteq Update!Serials
      /\ \A s \in asked : s <= hi
  BY <1>1, <1>2, <1>4 DEF Update!Serials
<1>6. \A s \in Update!Serials : lo <= s /\ s <= hi => s \in asked
  BY <1>1, <1>4 DEF Update!Serials, Update!AtLeast1
<1>7. CASE cut = {}
  <2>1. r.out = asked /\ r.firstNew = hi + 1 BY <1>3, <1>7
  <2> QED BY <1>5, <1>6, <2>1
<1>8. CASE cut # {}
  <2>1. r.out = asked \ cut /\ r.firstNew = CHOOSE s \in cut : \A t \in cut : s <= t BY <1>3, <1>8
  <2>2. \E s \in cut : \A t \in cut : s <= t BY <1>5, <1>8, Least
  <2>3. r.firstNew \in cut /\ \A t \in cut : r.firstNew <= t BY <2>1, <2>2
  <2>4. r.firstNew \in Nat /\ r.firstNew <= hi BY <1>5, <2>3
  <2>5. r.out \subseteq Update!Serials BY <1>5, <2>1
  <2>6. ASSUME NEW s \in Update!Serials, lo <= s, s <= hi PROVE s >= r.firstNew \/ s \in r.out
    <3>1. s \in asked /\ s \in Nat BY <1>5, <1>6, <2>6
    <3>2. CASE s \in cut BY <2>3, <2>4, <3>1, <3>2
    <3>3. CASE s \notin cut BY <2>1, <3>1, <3>3
    <3> QED BY <3>2, <3>3
  <2> QED BY <2>4, <2>5, <2>6
<1> QED BY <1>7, <1>8

LEMMA UpdateInit == ASSUME OneByOne PROVE Update!Init => UpdateInv
<1> SUFFICES ASSUME Update!Init PROVE UpdateInv OBVIOUS
<1>1. rows = << >> /\ rows \in Seq(Own \cup Theirs) /\ Len(rows) = 0 /\ DOMAIN rows = {}
  BY EmptySeq DEF Update!Init
<1>2. Update!Serials = {} BY <1>1 DEF Update!Serials
<1>3. UpdateTypes
  <2>1. rows \in Seq(Own \cup Theirs) /\ Update!IsInjective(rows) BY <1>1 DEF Update!IsInjective
  <2>2. inst \in {"draft", "pending", "sent"} BY DEF Update!Init, OneByOne
  <2>3. resends \in 0 .. MaxResends /\ crashes \in 0 .. MaxCrashes BY DEF Update!Init, OneByOne
  <2>4. call \in CallRecords BY DEF Update!Init, CallRecords
  <2>5. flush \in FlushRecords BY DEF Update!Init, Update!Idle, FlushRecords
  <2>6. queue \in [first : Int, last : Int] /\ due \subseteq Update!Serials BY DEF Update!Init, Update!NoRow
  <2>7. Update!TypeOK BY <2>1, <2>2, <2>3, <2>4, <2>5, <2>6 DEF Update!TypeOK, CallRecords, FlushRecords
  <2> QED BY <2>4, <2>5, <2>7 DEF UpdateTypes
<1>4. RangeOK BY DEF RangeOK, Update!Init
<1>5. CallsOK BY <1>2 DEF CallsOK, Waits, Update!Init
<1>6. FlushOK BY DEF FlushOK, Update!Init, Update!Idle
<1>7. DueOK BY DEF DueOK, Update!Init
<1> QED BY <1>3, <1>4, <1>5, <1>6, <1>7 DEF UpdateInv

(* What the proofs below need of the types. *)
LEMMA UpdateNumbers ==
    ASSUME UpdateInv
    PROVE  /\ Len(rows) \in Nat /\ DOMAIN rows = 1 .. Len(rows)
           /\ queue.first \in Int /\ queue.last \in Int
           /\ queue = [first |-> queue.first, last |-> queue.last]
           /\ flush.first \in Int /\ flush.last \in Int /\ flush.firstNew \in Int
           /\ due \subseteq 1 .. Len(rows)
           /\ Update!Serials = 1 .. Len(rows)
BY LenProperties DEF UpdateInv, UpdateTypes, Update!TypeOK, Update!Serials, FlushRecords

(* A step that leaves the rows and the instance keeps their types. *)
LEMMA KeepTypes ==
    ASSUME UpdateInv, inst' \in {"draft", "pending", "sent"}, rows' = rows,
           queue' \in [first : Int, last : Int], due' \subseteq 1 .. Len(rows),
           call' \in CallRecords,
           flush' \in FlushRecords,
           resends' \in 0 .. MaxResends, crashes' \in 0 .. MaxCrashes
    PROVE  UpdateTypes'
<1>1. rows' \in Seq(Own \cup Theirs) /\ Update!IsInjective(rows')
  BY DEF UpdateInv, UpdateTypes, Update!TypeOK
<1>2. Update!Serials' = 1 .. Len(rows) BY DEF Update!Serials
<1>3. \A u \in Own : call'[u].pc \in {"new", "loaded", "recorded", "done", "dead"} BY DEF CallRecords
<1>4. flush'.pc \in {"idle", "read", "rendered", "sent", "kept"} BY DEF FlushRecords
<1>5. Update!TypeOK' BY <1>1, <1>2, <1>3, <1>4 DEF Update!TypeOK
<1> QED BY <1>5 DEF UpdateTypes

LEMMA LoadOK ==
    ASSUME OneByOne, UpdateInv, NEW u \in Own, Update!Load(u) PROVE UpdateInv'
<1> USE DEF UpdateInv
<1>1. /\ call[u].pc = "new" /\ \A v \in Own : ~Waits(v)
      /\ call' = [call EXCEPT ![u] = [pc |-> "loaded", now |-> inst # "draft", serial |-> 0]]
      /\ inst' = inst /\ rows' = rows /\ queue' = queue /\ flush' = flush /\ due' = due
      /\ resends' = resends /\ crashes' = crashes
  BY DEF Update!Load, Update!MayCall, Update!Busy, OneByOne, Waits
<1>2. call \in CallRecords
  BY DEF UpdateTypes
<1>3. call' \in CallRecords
  BY <1>1, <1>2 DEF CallRecords
<1>4. /\ call'[u].pc = "loaded" /\ (call'[u].now <=> inst # "draft")
      /\ \A v \in Own \ {u} : call'[v] = call[v]
  BY <1>1, <1>2 DEF CallRecords
<1>5. UpdateTypes' BY <1>1, <1>3, KeepTypes DEF UpdateTypes, Update!TypeOK, Update!Serials
<1>6. RangeOK' /\ FlushOK' /\ DueOK' BY <1>1 DEF RangeOK, FlushOK, DueOK, Update!Serials, Update!NoRow
<1>7. CallsOK'
  <2>1. Update!Serials' = Update!Serials BY <1>1 DEF Update!Serials
  <2> QED BY <1>1, <1>4, <2>1 DEF CallsOK, Waits
<1> QED BY <1>5, <1>6, <1>7
(* A row is added for an update that has none. *)
LEMMA AppendRow ==
    ASSUME UpdateInv, NEW e \in Own \cup Theirs, \A i \in Update!Serials : rows[i] # e,
           rows' = Append(rows, e)
    PROVE  /\ rows' \in Seq(Own \cup Theirs) /\ Update!IsInjective(rows')
           /\ Len(rows') = Len(rows) + 1 /\ rows'[Len(rows) + 1] = e
           /\ \A i \in Update!Serials : rows'[i] = rows[i]
           /\ Update!Serials' = Update!Serials \cup {Len(rows) + 1}
           /\ Len(rows) + 1 \in Nat \ Update!Serials
<1>1. /\ rows \in Seq(Own \cup Theirs) /\ Len(rows) \in Nat
      /\ DOMAIN rows = 1 .. Len(rows) /\ Update!Serials = 1 .. Len(rows)
      /\ \A a, b \in 1 .. Len(rows) : rows[a] = rows[b] => a = b
  BY UpdateNumbers DEF UpdateInv, UpdateTypes, Update!TypeOK, Update!IsInjective
<1>2. /\ rows' \in Seq(Own \cup Theirs) /\ Len(rows') = Len(rows) + 1
      /\ rows'[Len(rows) + 1] = e /\ \A i \in 1 .. Len(rows) : rows'[i] = rows[i]
  BY <1>1, AppendProperties
<1>3. DOMAIN rows' = 1 .. Len(rows) + 1 BY <1>1, <1>2, LenProperties
<1>4. ASSUME NEW a \in DOMAIN rows', NEW b \in DOMAIN rows', rows'[a] = rows'[b] PROVE a = b
  <2>1. a \in 1 .. Len(rows) \/ a = Len(rows) + 1 BY <1>1, <1>3
  <2>2. b \in 1 .. Len(rows) \/ b = Len(rows) + 1 BY <1>1, <1>3
  <2> QED BY <1>1, <1>2, <1>4, <2>1, <2>2
<1>5. Update!IsInjective(rows') BY <1>4 DEF Update!IsInjective
<1>6. Update!Serials' = 1 .. Len(rows) + 1 BY <1>2 DEF Update!Serials
<1> QED BY <1>1, <1>2, <1>5, <1>6

LEMMA RecordOK ==
    ASSUME OneByOne, UpdateInv, NEW u \in Own, Update!Record(u) PROVE UpdateInv'
<1> DEFINE n == Len(rows) + 1
<1>1. /\ call[u].pc = "loaded" /\ rows' = Append(rows, u)
      /\ call' = [call EXCEPT ![u].pc = IF call[u].now THEN "recorded" ELSE "done",
                              ![u].serial = n]
      /\ due' = IF call[u].now THEN due ELSE due \cup {n}
      /\ inst' = inst /\ queue' = queue /\ flush' = flush
      /\ resends' = resends /\ crashes' = crashes
  BY DEF Update!Record
<1>2. call \in CallRecords /\ flush \in FlushRecords
      /\ (call[u].now <=> inst # "draft") /\ \A i \in Update!Serials : rows[i] # u
  BY <1>1 DEF UpdateInv, UpdateTypes, CallsOK, CallRecords, FlushRecords
<1>3. /\ rows' \in Seq(Own \cup Theirs) /\ Update!IsInjective(rows')
      /\ rows'[n] = u
      /\ \A i \in Update!Serials : rows'[i] = rows[i]
      /\ Update!Serials' = Update!Serials \cup {n}
      /\ n \in Nat \ Update!Serials
  BY <1>1, <1>2, AppendRow
<1>4. /\ call' \in CallRecords
      /\ call'[u].pc = IF call[u].now THEN "recorded" ELSE "done"
      /\ call'[u].serial = n
      /\ \A v \in Own \ {u} : call'[v] = call[v]
  BY <1>1, <1>2, <1>3, ZenonT(40) DEF CallRecords
<1>5. UpdateTypes'
  <2>1. due' \subseteq Update!Serials' BY <1>1, <1>3 DEF UpdateInv, UpdateTypes, Update!TypeOK
  <2>2. \A v \in Own : call'[v].pc \in {"new", "loaded", "recorded", "done", "dead"}
    BY <1>4 DEF CallRecords
  <2>3. Update!TypeOK' BY <1>1, <1>3, <2>1, <2>2 DEF UpdateInv, UpdateTypes, Update!TypeOK
  <2> QED BY <1>1, <1>2, <1>4, <2>3 DEF UpdateTypes, CallRecords, FlushRecords
<1>6. RangeOK' BY <1>1, <1>3 DEF UpdateInv, RangeOK, Update!NoRow
<1>7. CallsOK'
  <2>1. queue.last < n BY UpdateNumbers DEF UpdateInv, RangeOK, Update!NoRow
  <2>2. \A v \in Own \ {u} : ~Waits(v) BY <1>1 DEF UpdateInv, CallsOK, Waits
  <2> HIDE DEF n
  <2>3. \A v, w \in Own : Waits(v)' /\ Waits(w)' => v = w BY <1>4, <2>2 DEF Waits
  <2>4. ASSUME NEW v \in Own, call'[v].pc \in {"new", "loaded"}
        PROVE  \A i \in Update!Serials' : rows'[i] # v
    <3>1. v # u /\ call[v].pc \in {"new", "loaded"} BY <1>4, <2>4
    <3>2. \A i \in Update!Serials : rows[i] # v BY <3>1 DEF UpdateInv, CallsOK
    <3> QED BY <1>3, <3>1, <3>2
  <2>5. \A v \in Own : call'[v].pc # "loaded" BY <1>4, <2>2 DEF Waits
  <2>6. ASSUME NEW v \in Own, call'[v].pc = "recorded"
        PROVE  inst' # "draft" /\ call'[v].serial \in Update!Serials' /\ queue'.last < call'[v].serial
    <3>1. v = u /\ call[u].now BY <1>4, <2>2, <2>6 DEF Waits
    <3>2. call'[v].serial = n BY <1>4, <3>1
    <3> QED BY <1>1, <1>2, <1>3, <2>1, <3>1, <3>2
  <2> QED BY <2>3, <2>4, <2>5, <2>6 DEF CallsOK
<1>8. FlushOK' BY <1>1 DEF UpdateInv, FlushOK, Update!NoRow
<1>9. DueOK' BY <1>1, <1>2 DEF UpdateInv, DueOK, Update!NoRow
<1> QED BY <1>5, <1>6, <1>7, <1>8, <1>9 DEF UpdateInv

LEMMA EnqueueOK ==
    ASSUME OneByOne, UpdateInv, NEW u \in Own, Update!Enqueue(u) PROVE UpdateInv'
<1>1. PICK n : n = call[u].serial OBVIOUS
<1>2. /\ call[u].pc = "recorded"
      /\ queue' = IF queue = Update!NoRow THEN [first |-> n, last |-> n] ELSE [queue EXCEPT !.last = n]
      /\ call' = [call EXCEPT ![u].pc = "done"]
      /\ due' = due \cup {n}
      /\ inst' = inst /\ rows' = rows /\ flush' = flush
      /\ resends' = resends /\ crashes' = crashes
  BY <1>1 DEF Update!Enqueue, Update!Queued
<1>3. call \in CallRecords /\ flush \in FlushRecords /\ inst # "draft" /\ n \in Update!Serials /\ queue.last < n
  BY <1>1, <1>2 DEF UpdateInv, UpdateTypes, CallsOK, CallRecords, FlushRecords
<1>4. /\ Len(rows) \in Nat /\ queue.first \in Int /\ queue.last \in Int
      /\ queue = [first |-> queue.first, last |-> queue.last]
      /\ due \subseteq 1 .. Len(rows) /\ Update!Serials = 1 .. Len(rows)
      /\ flush.first \in Int /\ flush.last \in Int /\ flush.firstNew \in Int
  BY UpdateNumbers
<1>5. /\ queue'.last = n
      /\ queue'.first = IF queue = Update!NoRow THEN n ELSE queue.first
      /\ queue' \in [first : Int, last : Int]
      /\ queue' # Update!NoRow
  BY <1>2, <1>3, <1>4 DEF Update!NoRow
<1>6. call' \in CallRecords /\ call'[u].pc = "done" /\ \A v \in Own \ {u} : call'[v] = call[v]
  BY <1>2, <1>3 DEF CallRecords
<1>7. queue # Update!NoRow => queue.first <= n
  BY <1>3, <1>4 DEF UpdateInv, RangeOK
<1>8. UpdateTypes'
  <2>1. due' \subseteq 1 .. Len(rows) BY <1>2, <1>3, <1>4
  <2>2. resends' \in 0 .. MaxResends /\ crashes' \in 0 .. MaxCrashes
        /\ inst' \in {"draft", "pending", "sent"}
    BY <1>2 DEF UpdateInv, UpdateTypes, Update!TypeOK
  <2> QED BY <1>2, <1>3, <1>5, <1>6, <2>1, <2>2, KeepTypes DEF CallRecords, FlushRecords
<1>9. RangeOK'
  <2>1. Update!Serials' = Update!Serials BY <1>2 DEF Update!Serials
  <2> QED BY <1>3, <1>4, <1>5, <1>7, <2>1 DEF RangeOK
<1>10. CallsOK'
  <2>1. Update!Serials' = Update!Serials BY <1>2 DEF Update!Serials
  <2>2. \A v \in Own \ {u} : ~Waits(v) BY <1>2 DEF UpdateInv, CallsOK, Waits
  <2>3. \A v \in Own : call'[v].pc \notin {"loaded", "recorded"} BY <1>6, <2>2 DEF Waits
  <2>4. \A v \in Own : call'[v].pc = "new" => \A i \in Update!Serials : rows[i] # v
    BY <1>6 DEF UpdateInv, CallsOK
  <2> QED BY <1>2, <2>1, <2>3, <2>4 DEF CallsOK, Waits
<1>11. FlushOK'
  <2>1. queue # Update!NoRow => queue'.first = queue.first /\ queue.last <= queue'.last
    BY <1>3, <1>4, <1>5
  <2>2. Update!NoRow' = Update!NoRow BY DEF Update!NoRow
  <2> QED BY <1>2, <1>3, <1>4, <1>5, <2>1, <2>2 DEF UpdateInv, FlushOK
<1>12. DueOK'
  <2> SUFFICES ASSUME inst = "sent", NEW s \in due'
               PROVE  /\ queue'.first <= s /\ s <= queue'.last
                      /\ flush.pc \in {"rendered", "sent", "kept"} /\ queue'.first = flush.first =>
                           s >= flush.firstNew \/ (flush.pc = "rendered" /\ s \in flush.out)
    BY <1>2, <1>5 DEF DueOK, Update!NoRow
  <2>1. CASE s \in due
    <3>1. /\ queue # Update!NoRow /\ queue.first <= s /\ s <= queue.last /\ s \in Nat
          /\ flush.pc \in {"rendered", "sent", "kept"} /\ queue.first = flush.first =>
                s >= flush.firstNew \/ (flush.pc = "rendered" /\ s \in flush.out)
      BY <1>4, <2>1 DEF UpdateInv, DueOK
    <3> QED BY <1>3, <1>4, <1>5, <3>1
  <2>2. CASE s = n
    <3>1. queue'.first <= s BY <1>3, <1>4, <1>5, <1>7, <2>2
    <3>2. flush.pc \in {"rendered", "sent", "kept"} =>
             flush.firstNew <= flush.last + 1 /\ flush.last <= queue.last
      BY DEF UpdateInv, FlushOK
    <3> QED BY <1>3, <1>4, <1>5, <2>2, <3>1, <3>2
  <2> QED BY <1>2, <2>1, <2>2
<1> QED BY <1>8, <1>9, <1>10, <1>11, <1>12 DEF UpdateInv

LEMMA ReceiveUpdateOK ==
    ASSUME OneByOne, UpdateInv, NEW e \in Theirs, Update!receive_status_update(e) PROVE UpdateInv'
<1>1. /\ inst' = inst /\ queue' = queue /\ call' = call /\ flush' = flush /\ due' = due
      /\ resends' = resends /\ crashes' = crashes
  BY DEF Update!receive_status_update
<1>2. CASE \E i \in 1 .. Len(rows) : rows[i] = e
  <2>1. rows' = rows BY <1>2 DEF Update!receive_status_update, Update!Contains
  <2> QED BY <1>1, <2>1 DEF UpdateInv, UpdateTypes, Update!TypeOK, Update!Serials, Update!NoRow, RangeOK, CallsOK,
                            FlushOK, DueOK, Waits
<1>3. CASE ~\E i \in 1 .. Len(rows) : rows[i] = e
  <2>1. rows' = Append(rows, e) BY <1>3 DEF Update!receive_status_update, Update!Contains
  <2>2. \A i \in Update!Serials : rows[i] # e BY <1>3 DEF Update!Serials
  <2>3. /\ rows' \in Seq(Own \cup Theirs) /\ Update!IsInjective(rows')
        /\ rows'[Len(rows) + 1] = e
        /\ \A i \in Update!Serials : rows'[i] = rows[i]
        /\ Update!Serials' = Update!Serials \cup {Len(rows) + 1}
    BY <2>1, <2>2, AppendRow
  <2>4. UpdateTypes'
    <3>1. due' \subseteq Update!Serials' BY <1>1, <2>3 DEF UpdateInv, UpdateTypes, Update!TypeOK
    <3>2. Update!TypeOK' BY <1>1, <2>3, <3>1 DEF UpdateInv, UpdateTypes, Update!TypeOK
    <3> QED BY <1>1, <3>2 DEF UpdateInv, UpdateTypes, CallRecords, FlushRecords
  <2>5. RangeOK' BY <1>1, <2>3 DEF UpdateInv, RangeOK, Update!NoRow
  <2>6. CallsOK'
    <3>1. ASSUME NEW v \in Own, call[v].pc \in {"new", "loaded"}
          PROVE  \A i \in Update!Serials' : rows'[i] # v
      <4>1. \A i \in Update!Serials : rows[i] # v BY <3>1 DEF UpdateInv, CallsOK
      <4>2. v # e BY DEF OneByOne
      <4> QED BY <2>3, <4>1, <4>2
    <3>2. \A v \in Own : call[v].pc = "recorded" => call[v].serial \in Update!Serials'
      BY <2>3 DEF UpdateInv, CallsOK
    <3> QED BY <1>1, <3>1, <3>2 DEF UpdateInv, CallsOK, Waits
  <2>7. FlushOK' /\ DueOK' BY <1>1 DEF UpdateInv, FlushOK, DueOK, Update!NoRow
  <2> QED BY <2>4, <2>5, <2>6, <2>7 DEF UpdateInv
<1> QED BY <1>2, <1>3

LEMMA PrepareOK == ASSUME OneByOne, UpdateInv, Update!Prepare PROVE UpdateInv'
<1>1. /\ inst = "draft" /\ inst' = "pending" /\ \A v \in Own : ~Waits(v)
      /\ rows' = rows /\ queue' = queue /\ call' = call /\ flush' = flush /\ due' = due
      /\ resends' = resends /\ crashes' = crashes
  BY DEF Update!Prepare, Update!MayCall, Update!Busy, OneByOne, Waits
<1>2. UpdateTypes' BY <1>1 DEF UpdateInv, UpdateTypes, Update!TypeOK, Update!Serials, CallRecords, FlushRecords
<1>3. RangeOK' /\ FlushOK' BY <1>1 DEF UpdateInv, RangeOK, FlushOK, Update!NoRow, Update!Serials
<1>4. CallsOK' BY <1>1 DEF UpdateInv, CallsOK, Waits, Update!Serials
<1>5. DueOK' BY <1>1 DEF DueOK
<1> QED BY <1>2, <1>3, <1>4, <1>5 DEF UpdateInv

LEMMA RenderOK == ASSUME OneByOne, UpdateInv, Update!Render PROVE UpdateInv'
<1>1. /\ inst = "pending" /\ inst' = "sent" /\ due' = {}
      /\ rows' = rows /\ queue' = queue /\ call' = call /\ flush' = flush
      /\ resends' = resends /\ crashes' = crashes
  BY DEF Update!Render
<1>2. UpdateTypes' BY <1>1 DEF UpdateInv, UpdateTypes, Update!TypeOK, Update!Serials, CallRecords, FlushRecords
<1>3. RangeOK' /\ FlushOK' BY <1>1 DEF UpdateInv, RangeOK, FlushOK, Update!NoRow, Update!Serials
<1>4. CallsOK' BY <1>1 DEF UpdateInv, CallsOK, Waits, Update!Serials
<1>5. DueOK' BY <1>1 DEF DueOK
<1> QED BY <1>2, <1>3, <1>4, <1>5 DEF UpdateInv

(* A resend while the loop works on a range takes the range away from it. *)
LEMMA ResendOK == ASSUME OneByOne, UpdateInv, Update!resend_msgs PROVE UpdateInv'
<1>1. /\ inst # "draft" /\ inst' = "sent" /\ resends < MaxResends /\ resends' = resends + 1
      /\ \A v \in Own : ~Waits(v)
      /\ queue' = IF rows = << >> THEN queue ELSE Update!Reopened(queue)
      /\ due' = {s \in Update!Serials : s <= queue'.last}
      /\ rows' = rows /\ call' = call /\ flush' = flush /\ crashes' = crashes
  BY DEF Update!resend_msgs, Update!MayCall, Update!Busy, OneByOne, Waits
<1>2. /\ Len(rows) \in Nat /\ queue.first \in Int /\ queue.last \in Int
      /\ queue = [first |-> queue.first, last |-> queue.last]
      /\ Update!Serials = 1 .. Len(rows)
      /\ flush.first \in Int /\ flush.last \in Int /\ flush.firstNew \in Int
  BY UpdateNumbers
<1>3. rows = << >> <=> Len(rows) = 0
  BY EmptySeq DEF UpdateInv, UpdateTypes, Update!TypeOK
<1>4. /\ queue' \in [first : Int, last : Int]
      /\ rows = << >> => queue' = Update!NoRow /\ queue = Update!NoRow
      /\ rows # << >> =>
           /\ queue'.first <= 1 /\ queue'.last \in 1 .. Len(rows) /\ queue' # Update!NoRow
           /\ queue # Update!NoRow => queue'.first < queue.first /\ queue'.last = queue.last
  <2>1. CASE rows = << >>
    BY <1>1, <1>2, <1>3, <2>1 DEF UpdateInv, RangeOK, Update!NoRow
  <2>2. CASE rows # << >> /\ queue = Update!NoRow
    BY <1>1, <1>2, <1>3, <2>2 DEF Update!Reopened, Update!NoRow
  <2>3. CASE rows # << >> /\ queue # Update!NoRow
    <3>1. queue' = [queue EXCEPT !.first = IF queue.first - 1 < 1 THEN queue.first - 1 ELSE 1]
      BY <1>1, <2>3 DEF Update!Reopened
    <3>2. /\ queue'.first = IF queue.first - 1 < 1 THEN queue.first - 1 ELSE 1
          /\ queue'.last = queue.last /\ queue' \in [first : Int, last : Int]
      BY <1>2, <3>1
    <3>3. queue.last \in 1 .. Len(rows) BY <1>2, <2>3 DEF UpdateInv, RangeOK
    <3> QED BY <1>2, <2>3, <3>2, <3>3 DEF Update!NoRow
  <2> QED BY <2>1, <2>2, <2>3
<1>5. UpdateTypes'
  <2>1. resends' \in 0 .. MaxResends /\ crashes' \in 0 .. MaxCrashes
    BY <1>1 DEF UpdateInv, UpdateTypes, Update!TypeOK, OneByOne
  <2>2. call' \in CallRecords /\ flush' \in FlushRecords BY <1>1 DEF UpdateInv, UpdateTypes
  <2>3. due' \subseteq 1 .. Len(rows) BY <1>1, <1>2
  <2> QED BY <1>1, <1>4, <2>1, <2>2, <2>3, KeepTypes
<1>6. RangeOK' BY <1>1, <1>2, <1>4 DEF RangeOK, Update!Serials, Update!NoRow
<1>7. CallsOK' BY <1>1 DEF UpdateInv, CallsOK, Waits, Update!Serials
<1>8. FlushOK'
  <2>1. Update!NoRow' = Update!NoRow BY DEF Update!NoRow
  <2>2. flush.pc # "idle" => queue # Update!NoRow /\ queue.first <= flush.first /\ flush.last <= queue.last
    BY DEF UpdateInv, FlushOK
  <2>3. flush.pc # "idle" => queue' # Update!NoRow /\ queue'.first <= flush.first
                             /\ flush.last <= queue'.last
    BY <1>2, <1>4, <2>2
  <2> QED BY <1>1, <2>1, <2>3 DEF UpdateInv, FlushOK
<1>9. DueOK'
  <2> SUFFICES ASSUME NEW s \in due'
               PROVE  /\ queue' # Update!NoRow /\ queue'.first <= s /\ s <= queue'.last
                      /\ flush.pc # "idle" => queue'.first # flush.first
    BY <1>1 DEF DueOK, Update!NoRow
  <2>1. s \in 1 .. Len(rows) /\ s <= queue'.last BY <1>1, <1>2
  <2>2. rows # << >> BY <1>2, <1>3, <2>1
  <2>3. flush.pc # "idle" => queue # Update!NoRow /\ queue.first <= flush.first
    BY DEF UpdateInv, FlushOK
  <2> QED BY <1>2, <1>4, <2>1, <2>2, <2>3
<1> QED BY <1>5, <1>6, <1>7, <1>8, <1>9 DEF UpdateInv

(* A step of the sending loop does not disturb the calls. *)
LEMMA LoopStep ==
    ASSUME OneByOne, UpdateInv, inst' = inst, rows' = rows, call' = call, resends' = resends,
           crashes' = crashes, flush' \in FlushRecords, due' \subseteq due,
           queue' \in [first : Int, last : Int],
           queue' = Update!NoRow \/ (queue # Update!NoRow /\ queue'.last = queue.last)
    PROVE  UpdateTypes' /\ CallsOK'
<1>1. UpdateTypes'
  <2>1. due' \subseteq 1 .. Len(rows) BY UpdateNumbers
  <2>2. call' \in CallRecords /\ resends' \in 0 .. MaxResends /\ crashes' \in 0 .. MaxCrashes
        /\ inst' \in {"draft", "pending", "sent"}
    BY DEF UpdateInv, UpdateTypes, Update!TypeOK
  <2> QED BY <2>1, <2>2, KeepTypes
<1>2. CallsOK'
  <2>1. Update!Serials' = Update!Serials BY DEF Update!Serials
  <2>2. ASSUME NEW v \in Own, call[v].pc = "recorded" PROVE queue'.last < call[v].serial
    <3>1. call[v].serial \in 1 .. Len(rows) /\ queue.last < call[v].serial /\ Len(rows) \in Nat
      BY <2>2, UpdateNumbers DEF UpdateInv, CallsOK
    <3> QED BY <3>1 DEF Update!NoRow
  <2> QED BY <2>1, <2>2 DEF UpdateInv, CallsOK, Waits
<1> QED BY <1>1, <1>2

LEMMA ReadOK == ASSUME OneByOne, UpdateInv, Update!Read PROVE UpdateInv'
<1>1. /\ flush.pc = "idle" /\ queue # Update!NoRow
      /\ flush' = [Update!Idle EXCEPT !.pc = "read", !.first = queue.first, !.last = queue.last]
      /\ inst' = inst /\ rows' = rows /\ queue' = queue /\ call' = call /\ due' = due
      /\ resends' = resends /\ crashes' = crashes
  BY DEF Update!Read
<1>2. queue \in [first : Int, last : Int] /\ queue.first \in Int /\ queue.last \in Int
  BY DEF UpdateInv, UpdateTypes, Update!TypeOK
<1>3. /\ flush' \in FlushRecords /\ flush'.pc = "read"
      /\ flush'.first = queue.first /\ flush'.last = queue.last
  <2>1. flush' = [pc |-> "read", first |-> queue.first, last |-> queue.last, out |-> {}, firstNew |-> 0]
    BY <1>1 DEF Update!Idle
  <2> QED BY <1>2, <2>1 DEF FlushRecords
<1>4. UpdateTypes' /\ CallsOK' BY <1>1, <1>2, <1>3, LoopStep
<1>5. RangeOK' BY <1>1 DEF UpdateInv, RangeOK, Update!Serials, Update!NoRow
<1>6. FlushOK' BY <1>1, <1>2, <1>3 DEF UpdateInv, FlushOK, Update!NoRow
<1>7. DueOK' BY <1>1, <1>3 DEF UpdateInv, DueOK, Update!NoRow
<1> QED BY <1>4, <1>5, <1>6, <1>7 DEF UpdateInv

LEMMA RenderUpdatesOK == ASSUME OneByOne, UpdateInv, Update!RenderUpdates PROVE UpdateInv'
<1>1. PICK r : r = Update!Rendered(flush.first, flush.last) OBVIOUS
<1>2. /\ flush.pc = "read"
      /\ flush' = [flush EXCEPT !.pc = IF r.out = {} THEN "sent" ELSE "rendered",
                                !.out = r.out, !.firstNew = r.firstNew]
      /\ inst' = inst /\ rows' = rows /\ queue' = queue /\ call' = call /\ due' = due
      /\ resends' = resends /\ crashes' = crashes
  BY <1>1 DEF Update!RenderUpdates
<1>3. /\ Len(rows) \in Nat /\ due \subseteq 1 .. Len(rows) /\ Update!Serials = 1 .. Len(rows)
      /\ flush.first \in Int /\ flush.last \in Int /\ queue.first \in Int /\ queue.last \in Int
  BY UpdateNumbers
<1>4. /\ r.out \subseteq Update!Serials /\ r.firstNew \in Int /\ r.firstNew <= flush.last + 1
      /\ \A s \in Update!Serials : flush.first <= s /\ s <= flush.last => s >= r.firstNew \/ s \in r.out
  BY <1>1, <1>3, RenderedOK DEF UpdateInv
<1>5. /\ flush' \in FlushRecords /\ flush'.pc = IF r.out = {} THEN "sent" ELSE "rendered"
      /\ flush'.out = r.out /\ flush'.firstNew = r.firstNew
      /\ flush'.first = flush.first /\ flush'.last = flush.last
  <2>1. flush \in FlushRecords BY DEF UpdateInv, UpdateTypes
  <2>2. PICK next : next = IF r.out = {} THEN "sent" ELSE "rendered" OBVIOUS
  <2>3. flush' = [pc |-> next, first |-> flush.first, last |-> flush.last, out |-> r.out,
                  firstNew |-> r.firstNew]
    BY <1>2, <2>1, <2>2 DEF FlushRecords
  <2>4. next \in {"sent", "rendered"} BY <2>2
  <2>5. r.out \subseteq Nat BY <1>3, <1>4
  <2>6. flush' \in FlushRecords BY <1>3, <1>4, <2>3, <2>4, <2>5 DEF FlushRecords
  <2> QED BY <2>2, <2>3, <2>6
<1>6. queue \in [first : Int, last : Int] /\ queue # Update!NoRow
      /\ queue.first <= flush.first /\ flush.last <= queue.last
  BY <1>2 DEF UpdateInv, UpdateTypes, Update!TypeOK, FlushOK
<1>7. UpdateTypes' /\ CallsOK' BY <1>2, <1>5, <1>6, LoopStep
<1>8. RangeOK' BY <1>2 DEF UpdateInv, RangeOK, Update!Serials, Update!NoRow
<1>9. FlushOK' BY <1>2, <1>4, <1>5, <1>6 DEF UpdateInv, FlushOK, Update!NoRow
<1>10. DueOK'
  <2> SUFFICES ASSUME inst = "sent", NEW s \in due
               PROVE  /\ queue # Update!NoRow /\ queue.first <= s /\ s <= queue.last
                      /\ queue.first = flush.first =>
                           s >= r.firstNew \/ (flush'.pc = "rendered" /\ s \in r.out)
    BY <1>2, <1>5 DEF DueOK, Update!NoRow
  <2>1. s \in Update!Serials /\ queue.first <= s /\ s <= queue.last /\ s \in Nat
    BY <1>3, <1>6 DEF UpdateInv, DueOK
  <2>2. ASSUME queue.first = flush.first PROVE s >= r.firstNew \/ s \in r.out
    <3>1. CASE s <= flush.last BY <1>4, <2>1, <2>2, <3>1
    <3>2. CASE s > flush.last BY <1>3, <1>4, <2>1, <3>2
    <3> QED BY <1>3, <2>1, <3>1, <3>2
  <2>3. s \in r.out => flush'.pc = "rendered" BY <1>5
  <2> QED BY <1>6, <2>1, <2>2, <2>3
<1> QED BY <1>7, <1>8, <1>9, <1>10 DEF UpdateInv

LEMMA SendUpdatesOK == ASSUME OneByOne, UpdateInv, Update!SendUpdates PROVE UpdateInv'
<1>1. /\ flush.pc = "rendered" /\ flush' = [flush EXCEPT !.pc = "sent"] /\ due' = due \ flush.out
      /\ inst' = inst /\ rows' = rows /\ queue' = queue /\ call' = call
      /\ resends' = resends /\ crashes' = crashes
  BY DEF Update!SendUpdates
<1>2. /\ flush' \in FlushRecords /\ flush'.pc = "sent" /\ flush'.first = flush.first
      /\ flush'.last = flush.last /\ flush'.firstNew = flush.firstNew
  BY <1>1 DEF UpdateInv, UpdateTypes, FlushRecords
<1>3. queue \in [first : Int, last : Int] /\ queue # Update!NoRow
  BY <1>1 DEF UpdateInv, UpdateTypes, Update!TypeOK, FlushOK
<1>4. UpdateTypes' /\ CallsOK' BY <1>1, <1>2, <1>3, LoopStep
<1>5. RangeOK' BY <1>1 DEF UpdateInv, RangeOK, Update!Serials, Update!NoRow
<1>6. FlushOK' BY <1>1, <1>2 DEF UpdateInv, FlushOK, Update!NoRow
<1>7. DueOK' BY <1>1, <1>2 DEF UpdateInv, DueOK, Update!NoRow
<1> QED BY <1>4, <1>5, <1>6, <1>7 DEF UpdateInv

(* smtp_status_update_pop_serials: the row goes only if nothing is due. *)
LEMMA PopDeleteOK == ASSUME OneByOne, UpdateInv, Update!PopDelete PROVE UpdateInv'
<1>1. /\ flush.pc = "sent" /\ queue # Update!NoRow
      /\ inst' = inst /\ rows' = rows /\ call' = call /\ due' = due
      /\ resends' = resends /\ crashes' = crashes
  BY DEF Update!PopDelete, UpdateInv, FlushOK
<1>2. CASE Update!Pops(queue, flush)
  <2>1. queue' = Update!NoRow /\ flush' = Update!Idle BY <1>1, <1>2 DEF Update!PopDelete
  <2>2. /\ queue' \in [first : Int, last : Int] /\ flush' \in FlushRecords /\ flush'.pc = "idle"
    BY <2>1 DEF Update!NoRow, Update!Idle, FlushRecords
  <2>3. UpdateTypes' /\ CallsOK' BY <1>1, <2>1, <2>2, LoopStep
  <2>4. RangeOK' BY <2>1 DEF RangeOK, Update!NoRow
  <2>5. FlushOK' BY <2>1, <2>2 DEF FlushOK, Update!NoRow
  <2>6. inst = "sent" => due = {}
    <3> SUFFICES ASSUME inst = "sent", NEW s \in due PROVE FALSE OBVIOUS
    <3>1. s <= queue.last /\ (queue.first = flush.first => s >= flush.firstNew)
      BY <1>1 DEF UpdateInv, DueOK
    <3>2. queue.first = flush.first /\ queue.last < flush.firstNew BY <1>2 DEF Update!Pops
    <3>3. s \in Nat /\ queue.last \in Int /\ flush.firstNew \in Int BY UpdateNumbers
    <3> QED BY <3>1, <3>2, <3>3
  <2>7. DueOK' BY <1>1, <2>6 DEF DueOK
  <2> QED BY <2>3, <2>4, <2>5, <2>7 DEF UpdateInv
<1>3. CASE ~Update!Pops(queue, flush)
  <2>1. queue' = queue /\ flush' = [flush EXCEPT !.pc = "kept"] BY <1>1, <1>3 DEF Update!PopDelete
  <2>2. /\ queue' \in [first : Int, last : Int] /\ flush' \in FlushRecords /\ flush'.pc = "kept"
        /\ flush'.first = flush.first /\ flush'.last = flush.last
        /\ flush'.firstNew = flush.firstNew
    BY <2>1 DEF UpdateInv, UpdateTypes, Update!TypeOK, FlushRecords
  <2>3. UpdateTypes' /\ CallsOK' BY <1>1, <2>1, <2>2, LoopStep
  <2>4. RangeOK' BY <1>1, <2>1 DEF UpdateInv, RangeOK, Update!Serials, Update!NoRow
  <2>5. FlushOK' BY <1>1, <2>1, <2>2 DEF UpdateInv, FlushOK, Update!NoRow
  <2>6. DueOK' BY <1>1, <2>1, <2>2 DEF UpdateInv, DueOK, Update!NoRow
  <2> QED BY <2>3, <2>4, <2>5, <2>6 DEF UpdateInv
<1> QED BY <1>2, <1>3

LEMMA PopUpdateOK == ASSUME OneByOne, UpdateInv, Update!PopUpdate PROVE UpdateInv'
<1>1. /\ flush.pc = "kept" /\ queue # Update!NoRow /\ flush' = Update!Idle
      /\ inst' = inst /\ rows' = rows /\ call' = call /\ due' = due
      /\ resends' = resends /\ crashes' = crashes
  BY DEF Update!PopUpdate, UpdateInv, FlushOK
<1>2. flush' \in FlushRecords /\ flush'.pc = "idle" BY <1>1 DEF Update!Idle, FlushRecords
<1>3. queue \in [first : Int, last : Int] /\ flush.firstNew \in Int /\ queue.last \in Update!Serials
      /\ flush.firstNew <= flush.last + 1 /\ flush.last <= queue.last
      /\ Update!Serials = 1 .. Len(rows) /\ Len(rows) \in Nat /\ flush.last \in Int
  BY <1>1, UpdateNumbers DEF UpdateInv, UpdateTypes, Update!TypeOK, FlushOK, RangeOK
<1>4. CASE queue.first = flush.first
  <2>1. queue' = [queue EXCEPT !.first = flush.firstNew] BY <1>1, <1>4 DEF Update!PopUpdate
  <2>2. /\ queue' \in [first : Int, last : Int] /\ queue'.first = flush.firstNew
        /\ queue'.last = queue.last
    BY <1>3, <2>1
  <2>3. queue' # Update!NoRow BY <1>3, <2>2 DEF Update!NoRow
  <2>4. UpdateTypes' /\ CallsOK' BY <1>1, <1>2, <2>2, LoopStep
  <2>5. RangeOK' BY <1>1, <1>3, <2>2 DEF RangeOK, Update!Serials
  <2>6. FlushOK' BY <1>1, <1>2 DEF UpdateInv, FlushOK
  <2>7. DueOK'
    <3>1. inst = "sent" => \A s \in due : s <= queue.last /\ s >= flush.firstNew
      BY <1>1, <1>4 DEF UpdateInv, DueOK
    <3>2. Update!NoRow' = Update!NoRow BY DEF Update!NoRow
    <3>3. \A s \in due : s \in Nat BY UpdateNumbers
    <3> QED BY <1>1, <1>2, <1>3, <2>2, <2>3, <3>1, <3>2, <3>3 DEF DueOK
  <2> QED BY <2>4, <2>5, <2>6, <2>7 DEF UpdateInv
<1>5. CASE queue.first # flush.first
  <2>1. queue' = queue BY <1>1, <1>5 DEF Update!PopUpdate
  <2>2. UpdateTypes' /\ CallsOK' BY <1>1, <1>2, <1>3, <2>1, LoopStep
  <2>3. RangeOK' BY <1>1, <2>1 DEF UpdateInv, RangeOK, Update!Serials, Update!NoRow
  <2>4. FlushOK' BY <1>1, <1>2, <2>1 DEF UpdateInv, FlushOK, Update!NoRow
  <2>5. DueOK' BY <1>1, <1>2, <2>1 DEF UpdateInv, DueOK, Update!NoRow
  <2> QED BY <2>2, <2>3, <2>4, <2>5 DEF UpdateInv
<1> QED BY <1>4, <1>5

LEMMA CrashOK == ASSUME OneByOne, UpdateInv, Update!Crash PROVE UpdateInv'
<1>1. /\ crashes < MaxCrashes /\ crashes' = crashes + 1 /\ flush' = Update!Idle
      /\ call' = [u \in Own |-> IF call[u].pc \in {"loaded", "recorded"}
                                THEN [call[u] EXCEPT !.pc = "dead"] ELSE call[u]]
      /\ inst' = inst /\ rows' = rows /\ queue' = queue /\ due' = due /\ resends' = resends
  BY DEF Update!Crash
<1>2. call' \in CallRecords /\ \A v \in Own : call'[v] = call[v] \/ call'[v].pc = "dead"
  BY <1>1 DEF UpdateInv, UpdateTypes, CallRecords
<1>3. flush' \in FlushRecords /\ flush'.pc = "idle" BY <1>1 DEF Update!Idle, FlushRecords
<1>4. UpdateTypes'
  <2>1. crashes' \in 0 .. MaxCrashes /\ resends' \in 0 .. MaxResends
        /\ inst' \in {"draft", "pending", "sent"} /\ queue' \in [first : Int, last : Int]
    BY <1>1 DEF UpdateInv, UpdateTypes, Update!TypeOK, OneByOne
  <2>2. due' \subseteq 1 .. Len(rows) BY <1>1, UpdateNumbers
  <2> QED BY <1>1, <1>2, <1>3, <2>1, <2>2, KeepTypes
<1>5. RangeOK' BY <1>1 DEF UpdateInv, RangeOK, Update!Serials, Update!NoRow
<1>6. CallsOK'
  <2>1. Update!Serials' = Update!Serials BY <1>1 DEF Update!Serials
  <2>2. \A v \in Own : call'[v].pc \in {"new", "loaded", "recorded"} => call'[v] = call[v]
    BY <1>2
  <2> QED BY <1>1, <2>1, <2>2 DEF UpdateInv, CallsOK, Waits
<1>7. FlushOK' BY <1>1, <1>3 DEF UpdateInv, FlushOK, Update!NoRow
<1>8. DueOK' BY <1>1, <1>3 DEF UpdateInv, DueOK, Update!NoRow
<1> QED BY <1>4, <1>5, <1>6, <1>7, <1>8 DEF UpdateInv

LEMMA UpdateInvariant == ASSUME OneByOne PROVE Update!Spec => []UpdateInv
<1>1. UpdateInv /\ [Update!Next]_(Update!vars) => UpdateInv'
  <2> SUFFICES ASSUME UpdateInv PROVE [Update!Next]_(Update!vars) => UpdateInv' OBVIOUS
  <2>1. ASSUME NEW u \in Own, Update!Load(u) \/ Update!Record(u) \/ Update!Enqueue(u) PROVE UpdateInv'
    BY <2>1, LoadOK, RecordOK, EnqueueOK
  <2>2. ASSUME NEW u \in Theirs, Update!receive_status_update(u) PROVE UpdateInv'
    BY <2>2, ReceiveUpdateOK
  <2>3. ASSUME Update!Prepare \/ Update!Render \/ Update!resend_msgs PROVE UpdateInv'
    BY <2>3, PrepareOK, RenderOK, ResendOK
  <2>4. ASSUME Update!Read \/ Update!RenderUpdates \/ Update!SendUpdates \/ Update!PopDelete \/ Update!PopUpdate \/ Update!Crash
        PROVE  UpdateInv'
    BY <2>4, ReadOK, RenderUpdatesOK, SendUpdatesOK, PopDeleteOK, PopUpdateOK, CrashOK
  <2>5. ASSUME UNCHANGED Update!vars PROVE UpdateInv'
    BY <2>5 DEF Update!vars, UpdateInv, UpdateTypes, Update!TypeOK, Update!Serials, Update!NoRow, RangeOK, CallsOK,
                FlushOK, DueOK, Waits
  <2> QED BY ONLY <2>1, <2>2, <2>3, <2>4, <2>5 DEF Update!Next
<1> QED BY <1>1, UpdateInit, PTL DEF Update!Spec

(* NoUpdateLost of src/src/webxdc.rs for any number of updates, resends and   *)
(* crashes and any size of messages, as long as API calls do not overlap: an  *)
(* update that was promised to the chat is in the queued range until a        *)
(* message carried it.                                                        *)
THEOREM UpdatesAreKept == ASSUME OneByOne PROVE Update!Spec => []Update!NoUpdateLost
<1>1. UpdateInv => Update!NoUpdateLost BY DEF UpdateInv, DueOK, Update!NoUpdateLost
<1> QED BY <1>1, UpdateInvariant, PTL

(* TypeOK of StatusUpdates: no update gets two serials. *)
THEOREM UpdatesHaveTypes == ASSUME OneByOne PROVE Update!Spec => []Update!TypeOK
<1>1. UpdateInv => Update!TypeOK BY DEF UpdateInv, UpdateTypes
<1> QED BY <1>1, UpdateInvariant, PTL

-----------------------------------------------------------------------------
(* Account ids. *)

(* The entries of accounts.toml are accounts that exist, one per id, with ids *)
(* below the next one to be given.                                            *)
Entries(c) ==
    /\ c.next \in Nat \ {0}
    /\ \A a \in c.accounts : a.id \in Account!Ids /\ a.uuid \in Account!Ids /\ a.id < c.next
    /\ \A a, b \in c.accounts : a.id = b.id => a = b
    /\ c = [selected |-> c.selected, next |-> c.next, accounts |-> c.accounts, order |-> c.order]

(* In memory and on disk the id stands for the account u or for none. *)
Means(id, u) == \A a \in mem.accounts \cup disk.accounts : a.id = id => a.uuid = u

(* Whatever was not saved, the file is never ahead of the memory. *)
Counted == uuids \in 0 .. MaxUuid /\ disk.next <= mem.next /\ mem.next <= uuids + 1

(* An id is shown to the UI only once the file has a greater next id. *)
Shown ==
    /\ open \in [Account!Ids -> 0 .. MaxUuid] /\ given \in [Account!Ids -> 0 .. MaxUuid]
    /\ \A id \in Account!Ids : open[id] \in {0, given[id]}
    /\ \A id \in Account!Ids : given[id] # 0 => id < disk.next /\ Means(id, given[id])

(* The account being added has a saved id that nobody was shown. *)
Underway ==
    step.at \in {"add", "migrate", "move", "open"} =>
      /\ step.id \in Account!Ids /\ step.uuid \in Account!Ids /\ step.id < disk.next
      /\ given[step.id] = 0 /\ Means(step.id, step.uuid)

Shaped == step = [at |-> step.at, id |-> step.id, uuid |-> step.uuid, old |-> step.old]

AccountInv == Entries(mem) /\ Entries(disk) /\ Counted /\ Shown /\ Underway /\ Shaped

LEMMA AccountInit == ASSUME MaxUuid \in Nat PROVE Account!Init => AccountInv
BY DEF Account!Init, Account!Empty, Account!IdleStep, Account!Ids, AccountInv, Entries, Means, Counted, Shown, Underway, Shaped

(* A configuration that is changed in memory is saved, or not. *)
LEMMA Saved == ASSUME Account!SyncOk \/ Account!SyncFails PROVE disk' = mem' \/ disk' = disk
BY DEF Account!SyncOk, Account!SyncFails

(* Steps that only select or order accounts, and ones that take entries away. *)
LEMMA FewerEntries ==
    ASSUME MaxUuid \in Nat, AccountInv, Entries(mem)', mem'.next = mem.next,
           mem'.accounts \subseteq mem.accounts, disk' = mem' \/ disk' = disk,
           open' = open, given' = given, uuids' = uuids, Shaped',
           step' = Account!IdleStep \/ (step'.id = step.id /\ step'.uuid = step.uuid
                                   /\ step.at \in {"idle", "add", "migrate", "move", "open"}
                                   /\ (step.at = "idle" => step' = step))
    PROVE  AccountInv'
<1>1. Entries(disk)' BY DEF AccountInv, Entries, Account!Ids
<1>2. Counted' BY DEF AccountInv, Entries, Counted
<1>3. disk'.next \in Nat /\ disk.next \in Nat /\ mem.next \in Nat /\ disk.next <= disk'.next
  BY DEF AccountInv, Entries, Counted
<1>4. ASSUME NEW id, NEW u, Means(id, u) PROVE Means(id, u)'
  BY <1>4 DEF Means
<1>5. Account!Ids \subseteq Nat BY DEF Account!Ids
<1>6. Shown'
  <2>1. ASSUME NEW id \in Account!Ids, given[id] # 0 PROVE id < disk'.next /\ Means(id, given[id])'
    <3>1. id < disk.next /\ Means(id, given[id]) BY <2>1 DEF AccountInv, Shown
    <3>2. id < disk'.next BY <1>3, <1>5, <3>1
    <3> QED BY <3>1, <3>2, <1>4
  <2> QED BY <2>1 DEF AccountInv, Shown, Means
<1>7. Underway'
  <2>1. CASE step' = Account!IdleStep BY <2>1 DEF Underway, Account!IdleStep
  <2>2. CASE step.at = "idle" /\ step' = step BY <2>2 DEF Underway
  <2>3. CASE step.at \in {"add", "migrate", "move", "open"} /\ step'.id = step.id /\ step'.uuid = step.uuid
    <3>1. /\ step.id \in Account!Ids /\ step.uuid \in Account!Ids /\ step.id < disk.next
          /\ given[step.id] = 0 /\ Means(step.id, step.uuid)
      BY <2>3 DEF AccountInv, Underway
    <3>2. PICK i, u : i = step.id /\ u = step.uuid OBVIOUS
    <3>3. i \in Nat /\ i < disk'.next
      <4>1. i \in Account!Ids /\ i < disk.next BY <3>1, <3>2
      <4>2. i \in Nat BY <1>5, <4>1
      <4> QED BY <1>3, <4>1, <4>2
    <3>4. Means(i, u)' BY <1>4, <3>1, <3>2
    <3> QED BY <2>3, <3>1, <3>2, <3>3, <3>4 DEF Underway
  <2> QED BY <2>1, <2>2, <2>3
<1> QED BY <1>1, <1>2, <1>6, <1>7 DEF AccountInv

LEMMA NewAccountOK ==
    ASSUME MaxUuid \in Nat, AccountInv, NEW kind \in {"add", "migrate"}, Account!NewAccount(kind)
    PROVE  AccountInv'
<1>1. PICK n, u, e : n = mem.next /\ u = uuids + 1 /\ e = [id |-> n, uuid |-> u] OBVIOUS
<1>2. n \in Nat /\ n \in Account!Ids /\ u \in Account!Ids /\ disk.next \in Nat /\ disk.next <= n
      /\ n <= u /\ uuids' = u /\ u \in 0 .. MaxUuid
  <2>1. mem.next \in Nat \ {0} /\ mem.next <= uuids + 1 /\ uuids \in 0 .. MaxUuid
        /\ uuids < MaxUuid /\ disk.next \in Nat \ {0} /\ disk.next <= mem.next /\ uuids' = uuids + 1
    BY DEF AccountInv, Entries, Counted, Account!NewAccount
  <2> QED BY <1>1, <2>1 DEF Account!Ids
<1>3. /\ mem'.accounts = mem.accounts \cup {e} /\ mem'.next = n + 1
      /\ mem' = [selected |-> mem'.selected, next |-> mem'.next,
                 accounts |-> mem'.accounts, order |-> mem'.order]
  <2>1. mem = [selected |-> mem.selected, next |-> mem.next,
               accounts |-> mem.accounts, order |-> mem.order]
    BY DEF AccountInv, Entries
  <2>2. mem' = Account!WithNew(mem, u) BY <1>1 DEF Account!NewAccount
  <2>3. mem' = [selected |-> mem.selected, next |-> mem.next + 1,
                accounts |-> mem.accounts \cup {[id |-> mem.next, uuid |-> u]},
                order |-> Append(mem.order, mem.next)]
    BY ONLY <2>1, <2>2 DEF Account!WithNew
  <2> QED BY <1>1, <2>3
<1>4. \A a \in mem.accounts : a.id \in Account!Ids /\ a.id < n /\ a.id # n
  <2>1. \A a \in mem.accounts : a.id \in Account!Ids /\ a.id < n BY <1>1 DEF AccountInv, Entries
  <2> QED BY <1>2, <2>1 DEF Account!Ids
<1>5. \A a \in disk.accounts : a.id \in Account!Ids /\ a.id # n
  <2>1. \A a \in disk.accounts : a.id \in Account!Ids /\ a.id < disk.next BY DEF AccountInv, Entries
  <2> QED BY <1>2, <2>1 DEF Account!Ids
<1>6. Entries(mem)'
  <2>1. \A a \in mem.accounts : a.id < n + 1 BY <1>2, <1>4 DEF Account!Ids
  <2>2. e.id = n /\ e.uuid = u BY <1>1
  <2>3. \A a \in mem'.accounts : a.id \in Account!Ids /\ a.uuid \in Account!Ids /\ a.id < n + 1
    BY <1>2, <1>3, <1>4, <2>1, <2>2 DEF AccountInv, Entries
  <2>4. \A a, b \in mem'.accounts : a.id = b.id => a = b
    BY <1>3, <1>4, <2>2 DEF AccountInv, Entries
  <2>5. mem'.next \in Nat \ {0} BY <1>2, <1>3
  <2> QED BY <1>3, <2>3, <2>4, <2>5 DEF Entries
<1>7. disk' = mem' \/ disk' = disk BY Saved DEF Account!NewAccount
<1>8. Entries(disk)' BY <1>6, <1>7 DEF AccountInv, Entries, Account!Ids
<1>9. Counted' BY <1>2, <1>3, <1>7 DEF Counted
<1>10. open' = open /\ given' = given BY DEF Account!NewAccount
<1>11. \A id \in Account!Ids : given[id] # 0 => id # n
  <2>1. \A id \in Account!Ids : given[id] # 0 => id < disk.next BY DEF AccountInv, Shown
  <2> QED BY <1>2, <2>1 DEF Account!Ids
<1>12. Shown'
  <2>1. ASSUME NEW id \in Account!Ids, given[id] # 0 PROVE id < disk'.next
    <3>1. id < disk.next /\ id \in Nat BY <2>1 DEF AccountInv, Shown, Account!Ids
    <3> QED BY <1>2, <1>3, <1>7, <3>1
  <2>2. ASSUME NEW id \in Account!Ids, given[id] # 0 PROVE Means(id, given[id])'
    <3>1. Means(id, given[id]) BY <2>2 DEF AccountInv, Shown
    <3>2. id # n BY <1>11, <2>2
    <3>3. \A a \in mem'.accounts \cup disk'.accounts :
            a.id = id => a \in mem.accounts \cup disk.accounts
      BY <1>1, <1>3, <1>7, <3>2
    <3> QED BY <1>10, <3>1, <3>3 DEF Means
  <2> QED BY <1>10, <2>1, <2>2 DEF AccountInv, Shown
<1>13. Underway'
  <2>1. CASE step' = Account!IdleStep BY <2>1 DEF Underway, Account!IdleStep
  <2>2. CASE Account!SyncOk /\ step' = [at |-> kind, id |-> mem.next, uuid |-> uuids + 1, old |-> mem.selected]
    <3>1. disk' = mem' BY <2>2 DEF Account!SyncOk
    <3>2. step'.id = n /\ step'.uuid = u BY <1>1, <2>2
    <3>3. Means(n, u)' BY <1>1, <1>3, <1>4, <3>1 DEF Means
    <3>4. given'[n] = 0 BY <1>2, <1>10, <1>11
    <3>5. n < disk'.next BY <1>2, <1>3, <3>1
    <3> QED BY <1>2, <3>2, <3>3, <3>4, <3>5 DEF Underway
  <2> QED BY <2>1, <2>2 DEF Account!NewAccount
<1>14. Shaped' BY DEF Shaped, Account!NewAccount, Account!IdleStep
<1> QED BY <1>6, <1>8, <1>9, <1>12, <1>13, <1>14 DEF AccountInv

(* select_account, set_accounts_order and Config::remove_account leave the next id *)
(* alone, and give no id another account.                                          *)
LEMMA SelectedOK ==
    ASSUME AccountInv, NEW id, mem' = Account!Selected(mem, id)
    PROVE  Entries(mem)' /\ mem'.next = mem.next /\ mem'.accounts \subseteq mem.accounts
<1>1. mem = [selected |-> mem.selected, next |-> mem.next,
             accounts |-> mem.accounts, order |-> mem.order]
  BY DEF AccountInv, Entries
<1>2. mem' = [selected |-> id, next |-> mem.next, accounts |-> mem.accounts, order |-> mem.order]
  BY ONLY <1>1, mem' = Account!Selected(mem, id) DEF Account!Selected
<1>3. mem'.next = mem.next /\ mem'.accounts = mem.accounts BY <1>2
<1> QED BY <1>2, <1>3 DEF AccountInv, Entries, Account!Ids

LEMMA WithoutOK ==
    ASSUME AccountInv, NEW id, mem' = Account!Without(mem, id)
    PROVE  Entries(mem)' /\ mem'.next = mem.next /\ mem'.accounts \subseteq mem.accounts
<1>1. mem = [selected |-> mem.selected, next |-> mem.next,
             accounts |-> mem.accounts, order |-> mem.order]
  BY DEF AccountInv, Entries
<1>2. PICK sel : sel = IF mem.selected = id THEN Account!FirstId(Account!Others(mem, id)) ELSE mem.selected
  OBVIOUS
<1>3. mem' = [selected |-> sel, next |-> mem.next,
              accounts |-> Account!Others(mem, id), order |-> Account!Unordered(mem, id)]
  BY ONLY <1>1, <1>2, mem' = Account!Without(mem, id) DEF Account!Without
<1>4. mem'.next = mem.next /\ mem'.accounts = {a \in mem.accounts : a.id # id}
  BY <1>3 DEF Account!Others
<1>5. \A a \in mem'.accounts : a \in mem.accounts BY <1>4
<1>6. mem' = [selected |-> mem'.selected, next |-> mem'.next,
              accounts |-> mem'.accounts, order |-> mem'.order]
  BY ONLY <1>3
<1> QED BY <1>4, <1>5, <1>6 DEF AccountInv, Entries, Account!Ids

LEMMA StepsKeepShape ==
    /\ step' = Account!IdleStep => Shaped'
    /\ Shaped /\ step' = step => Shaped'
    /\ \A x : Shaped /\ step' = [step EXCEPT !.at = x] =>
             Shaped' /\ step'.at = x /\ step'.id = step.id /\ step'.uuid = step.uuid
<1>1. step' = Account!IdleStep => Shaped' BY DEF Shaped, Account!IdleStep
<1>2. Shaped /\ step' = step => Shaped' BY DEF Shaped
<1>3. ASSUME NEW x, Shaped, step' = [step EXCEPT !.at = x]
      PROVE  Shaped' /\ step'.at = x /\ step'.id = step.id /\ step'.uuid = step.uuid
  <2>1. step' = [at |-> x, id |-> step.id, uuid |-> step.uuid, old |-> step.old]
    BY ONLY <1>3 DEF Shaped
  <2> QED BY <2>1 DEF Shaped
<1> QED BY <1>1, <1>2, <1>3

LEMMA SelectNewOK == ASSUME MaxUuid \in Nat, AccountInv, Account!SelectNew PROVE AccountInv'
<1>1. mem' = Account!Selected(mem, step.id) BY DEF Account!SelectNew
<1>2. Entries(mem)' /\ mem'.next = mem.next /\ mem'.accounts \subseteq mem.accounts
  <2>1. PICK i : i = step.id OBVIOUS
  <2> QED BY <1>1, <2>1, SelectedOK
<1>3. disk' = mem' \/ disk' = disk BY Saved DEF Account!SelectNew
<1>4. open' = open /\ given' = given /\ uuids' = uuids BY DEF Account!SelectNew
<1>5. /\ Shaped'
      /\ step' = Account!IdleStep \/ (step'.id = step.id /\ step'.uuid = step.uuid
                                   /\ step.at \in {"add", "migrate"})
  BY StepsKeepShape DEF AccountInv, Account!SelectNew
<1> QED BY <1>2, <1>3, <1>4, <1>5, FewerEntries

LEMMA UnlistOK == ASSUME MaxUuid \in Nat, AccountInv, Account!Unlist PROVE AccountInv'
<1>1. PICK i : i = step.id OBVIOUS
<1>2. Entries(mem)' /\ mem'.next = mem.next /\ mem'.accounts \subseteq mem.accounts
  BY <1>1, WithoutOK DEF Account!Unlist
<1>3. disk' = mem' \/ disk' = disk BY Saved DEF Account!Unlist
<1> QED BY <1>2, <1>3, FewerEntries, StepsKeepShape DEF Account!Unlist

LEMMA SelectAccountOK ==
    ASSUME MaxUuid \in Nat, AccountInv, NEW id \in Account!Ids, Account!select_account(id) PROVE AccountInv'
<1>1. Entries(mem)' /\ mem'.next = mem.next /\ mem'.accounts \subseteq mem.accounts
  BY SelectedOK DEF Account!select_account
<1>2. disk' = mem' \/ disk' = disk BY Saved DEF Account!select_account
<1> QED BY <1>1, <1>2, FewerEntries, StepsKeepShape DEF AccountInv, Account!select_account

LEMMA OrderOK ==
    ASSUME MaxUuid \in Nat, AccountInv, NEW front, Account!set_accounts_order(front) PROVE AccountInv'
<1>1. PICK order : mem' = [mem EXCEPT !.order = order] BY DEF Account!set_accounts_order
<1>2. mem = [selected |-> mem.selected, next |-> mem.next,
             accounts |-> mem.accounts, order |-> mem.order]
  BY DEF AccountInv, Entries
<1>3. mem' = [selected |-> mem.selected, next |-> mem.next,
              accounts |-> mem.accounts, order |-> order]
  BY ONLY <1>1, <1>2
<1>4. mem'.next = mem.next /\ mem'.accounts = mem.accounts BY <1>3
<1>5. Entries(mem)' BY <1>3, <1>4 DEF AccountInv, Entries, Account!Ids
<1>6. disk' = mem' \/ disk' = disk BY Saved DEF Account!set_accounts_order
<1> QED BY <1>4, <1>5, <1>6, FewerEntries, StepsKeepShape DEF AccountInv, Account!set_accounts_order

LEMMA MoveFilesOK == ASSUME MaxUuid \in Nat, AccountInv, Account!MoveFiles PROVE AccountInv'
<1>1. /\ mem' = mem /\ disk' = disk /\ open' = open /\ uuids' = uuids /\ given' = given
      /\ step.at = "move"
      /\ step' = Account!IdleStep \/ step' = [step EXCEPT !.at = "open"]
  BY DEF Account!MoveFiles
<1>2. Entries(mem)' /\ mem'.next = mem.next /\ mem'.accounts \subseteq mem.accounts
  BY <1>1 DEF AccountInv, Entries, Account!Ids
<1>3. Shaped' /\ (step' = Account!IdleStep \/ (step'.id = step.id /\ step'.uuid = step.uuid))
  BY <1>1, StepsKeepShape DEF AccountInv
<1> QED BY <1>1, <1>2, <1>3, FewerEntries

LEMMA RemoveDirOK == ASSUME MaxUuid \in Nat, AccountInv, Account!RemoveDir PROVE AccountInv'
<1>1. mem' = mem /\ disk' = disk /\ open' = open /\ uuids' = uuids /\ given' = given
  BY DEF Account!RemoveDir
<1>2. Shaped' /\ step'.at \in {"unlist", "idle"}
  BY StepsKeepShape DEF AccountInv, Account!RemoveDir, Account!IdleStep
<1>3. Underway' BY <1>2 DEF Underway
<1> QED BY <1>1, <1>2, <1>3 DEF AccountInv, Entries, Means, Counted, Shown, Account!Ids

LEMMA RemoveAccountOK ==
    ASSUME MaxUuid \in Nat, AccountInv, NEW id \in Account!Ids, Account!RemoveAccount(id) PROVE AccountInv'
<1>1. /\ mem' = mem /\ disk' = disk /\ uuids' = uuids /\ given' = given
      /\ open' = [open EXCEPT ![id] = 0] /\ step'.at = "rmdir"
  BY DEF Account!RemoveAccount
<1>2. Underway' /\ Shaped' BY <1>1 DEF Underway, Shaped, Account!RemoveAccount
<1>3. Entries(mem)' /\ Entries(disk)' /\ Counted' BY <1>1 DEF AccountInv, Entries, Counted, Account!Ids
<1>4. Shown'
  <2>1. open' \in [Account!Ids -> 0 .. MaxUuid] BY <1>1 DEF AccountInv, Shown
  <2>2. \A i \in Account!Ids : open'[i] \in {0, given[i]} BY <1>1 DEF AccountInv, Shown
  <2> QED BY <1>1, <2>1, <2>2 DEF AccountInv, Shown, Means
<1> QED BY <1>2, <1>3, <1>4 DEF AccountInv

(* The id is shown: what it stands for is what will be remembered. *)
LEMMA OpenAccountOK == ASSUME MaxUuid \in Nat, AccountInv, Account!OpenAccount PROVE AccountInv'
<1>1. PICK n, u : n = step.id /\ u = step.uuid OBVIOUS
<1>2. n \in Account!Ids /\ u \in Account!Ids /\ n < disk.next /\ given[n] = 0 /\ Means(n, u)
  BY <1>1 DEF AccountInv, Underway, Account!OpenAccount
<1>3. /\ mem' = mem /\ disk' = disk /\ uuids' = uuids /\ step' = Account!IdleStep
      /\ open' = [open EXCEPT ![n] = u]
      /\ given' = [given EXCEPT ![n] = IF @ = 0 THEN u ELSE @]
  BY <1>1 DEF Account!OpenAccount
<1>4. given' = [given EXCEPT ![n] = u] BY <1>2, <1>3
<1>5. Entries(mem)' /\ Entries(disk)' /\ Counted' BY <1>3 DEF AccountInv, Entries, Counted, Account!Ids
<1>6. Shown'
  <2>1. u \in 0 .. MaxUuid BY <1>2 DEF Account!Ids
  <2>2. open' \in [Account!Ids -> 0 .. MaxUuid] /\ given' \in [Account!Ids -> 0 .. MaxUuid]
    BY <1>3, <1>4, <2>1 DEF AccountInv, Shown
  <2>3. \A i \in Account!Ids : open'[i] \in {0, given'[i]} BY <1>3, <1>4 DEF AccountInv, Shown
  <2>4. ASSUME NEW i \in Account!Ids, given'[i] # 0 PROVE i < disk.next /\ Means(i, given'[i])
    BY <1>2, <1>4, <2>4 DEF AccountInv, Shown
  <2> QED BY <1>3, <2>2, <2>3, <2>4 DEF Shown, Means
<1>7. Underway' /\ Shaped' BY <1>3 DEF Underway, Shaped, Account!IdleStep
<1> QED BY <1>5, <1>6, <1>7 DEF AccountInv

(* After a restart the ids of the file are shown, the ones that were not saved *)
(* may be given again.                                                         *)
LEMMA RestartOK == ASSUME MaxUuid \in Nat, AccountInv, Account!Restart PROVE AccountInv'
<1>1. /\ mem' = disk /\ disk' = disk /\ uuids' = uuids /\ step' = Account!IdleStep
      /\ open' = [i \in Account!Ids |-> IF i \in Account!Listed(disk) THEN Account!UuidIn(disk, i) ELSE 0]
      /\ given' = [i \in Account!Ids |-> IF given[i] = 0 THEN open'[i] ELSE given[i]]
  BY DEF Account!Restart
<1>2. Entries(mem)' /\ Entries(disk)' BY <1>1 DEF AccountInv, Entries, Account!Ids
<1>3. Counted' BY <1>1 DEF AccountInv, Entries, Counted
<1>4. ASSUME NEW i \in Account!Listed(disk)
      PROVE  /\ i \in Account!Ids /\ i < disk.next /\ Account!UuidIn(disk, i) \in Account!Ids
             /\ \A a \in disk.accounts : a.id = i => a.uuid = Account!UuidIn(disk, i)
  <2>1. \E a \in disk.accounts : a.id = i BY DEF Account!Listed
  <2>2. PICK b : b = CHOOSE a \in disk.accounts : a.id = i OBVIOUS
  <2>3. b \in disk.accounts /\ b.id = i BY <2>1, <2>2
  <2>4. Account!UuidIn(disk, i) = b.uuid BY <2>2 DEF Account!UuidIn
  <2> QED BY <2>3, <2>4 DEF AccountInv, Entries
<1>5. \A i \in Account!Ids : open[i] \in {0, given[i]} BY DEF AccountInv, Shown
<1>6. ASSUME NEW i \in Account!Ids
      PROVE  /\ open'[i] \in 0 .. MaxUuid /\ given'[i] \in 0 .. MaxUuid
             /\ open'[i] \in {0, given'[i]}
             /\ given'[i] # 0 => i < disk.next /\ \A a \in disk.accounts : a.id = i => a.uuid = given'[i]
  <2>1. given[i] \in 0 .. MaxUuid BY DEF AccountInv, Shown
  <2>2. given[i] # 0 => i < disk.next /\ \A a \in disk.accounts : a.id = i => a.uuid = given[i]
    BY DEF AccountInv, Shown, Means
  <2>3. CASE i \in Account!Listed(disk)
    <3>1. open'[i] = Account!UuidIn(disk, i) BY <1>1, <2>3
    <3>2. open'[i] \in Account!Ids BY <1>4, <2>3, <3>1
    <3>3. open'[i] \in 0 .. MaxUuid /\ open'[i] # 0 BY <3>2 DEF Account!Ids
    <3>4. \E a \in disk.accounts : a.id = i BY <2>3 DEF Account!Listed
    <3>5. CASE given[i] = 0 BY <1>1, <1>4, <2>3, <3>1, <3>3, <3>5
    <3>6. CASE given[i] # 0
      <4>1. given'[i] = given[i] BY <1>1, <3>6
      <4>2. open'[i] = given[i] BY <1>4, <2>2, <2>3, <3>1, <3>4, <3>6
      <4> QED BY <2>1, <2>2, <4>1, <4>2
    <3> QED BY <3>5, <3>6
  <2>4. CASE i \notin Account!Listed(disk)
    <3>1. open'[i] = 0 BY <1>1, <2>4
    <3>2. given'[i] = given[i] BY <1>1, <3>1
    <3> QED BY <2>1, <2>2, <3>1, <3>2
  <2> QED BY <2>3, <2>4
<1>7. Shown'
  <2>1. open' = [i \in Account!Ids |-> open'[i]] /\ given' = [i \in Account!Ids |-> given'[i]] BY <1>1
  <2>2. open' \in [Account!Ids -> 0 .. MaxUuid] /\ given' \in [Account!Ids -> 0 .. MaxUuid] BY <1>6, <2>1
  <2>3. ASSUME NEW i \in Account!Ids, given'[i] # 0 PROVE i < disk'.next /\ Means(i, given[i])'
    BY <1>1, <1>6, <2>3 DEF Means
  <2> QED BY <1>6, <2>2, <2>3 DEF Shown
<1>8. Underway' /\ Shaped' BY <1>1 DEF Underway, Shaped, Account!IdleStep
<1> QED BY <1>2, <1>3, <1>7, <1>8 DEF AccountInv

LEMMA AccountInvariant == ASSUME MaxUuid \in Nat PROVE Account!Spec => []AccountInv
<1>1. Account!Init => AccountInv BY AccountInit
<1>2. AccountInv /\ [Account!Next]_(Account!vars) => AccountInv'
  <2> SUFFICES ASSUME AccountInv, [Account!Next]_(Account!vars) PROVE AccountInv' OBVIOUS
  <2>1. ASSUME UNCHANGED Account!configVars PROVE AccountInv'
    BY <2>1 DEF Account!configVars, AccountInv, Entries, Means, Counted, Shown, Underway, Shaped, Account!Ids
  <2>2. CASE UNCHANGED Account!vars BY <2>1, <2>2 DEF Account!vars, Account!configVars
  <2>3. CASE \E kind \in {"add", "migrate"} : Account!NewAccount(kind) BY <2>3, NewAccountOK
  <2>4. CASE Account!SelectNew BY <2>4, SelectNewOK
  <2>5. CASE Account!MoveFiles BY <2>5, MoveFilesOK
  <2>6. CASE Account!OpenAccount BY <2>6, OpenAccountOK
  <2>7. CASE Account!RemoveDir BY <2>7, RemoveDirOK
  <2>8. CASE Account!Unlist BY <2>8, UnlistOK
  <2>9. CASE Account!Restart BY <2>9, RestartOK
  <2>10. CASE \E id \in Account!Ids : Account!RemoveAccount(id) \/ Account!select_account(id)
                                 \/ Account!set_accounts_order(<<id>>)
    BY <2>10, RemoveAccountOK, SelectAccountOK, OrderOK
  <2>11. CASE Account!stop_background_fetch BY <2>1, <2>11 DEF Account!stop_background_fetch
  <2>12. CASE \E f \in Fetches : Account!background_fetch(f) \/ Account!FetchDone(f)
    BY <2>1, <2>12 DEF Account!background_fetch, Account!FetchDone
  <2> QED BY <2>2, <2>3, <2>4, <2>5, <2>6, <2>7, <2>8, <2>9, <2>10, <2>11, <2>12 DEF Account!Next
<1> QED BY <1>1, <1>2, PTL DEF Account!Spec

(* accounts.rs: an id the UI was given for an account never denotes another, in   *)
(* memory or on disk, wherever saving fails or the process ends.  The next id is  *)
(* saved before the id is returned, and removing an account does not lower it.    *)
THEOREM AccountIdsStay == ASSUME MaxUuid \in Nat PROVE Account!Spec => []Account!IdsAreNotReused
<1>1. AccountInv => Account!IdsAreNotReused
  <2> SUFFICES ASSUME AccountInv PROVE Account!IdsAreNotReused OBVIOUS
  <2>1. \A id \in Account!Ids : open[id] # 0 /\ given[id] # 0 => open[id] = given[id]
    BY DEF AccountInv, Shown
  <2>2. ASSUME NEW id \in Account!Listed(disk), given[id] # 0 PROVE Account!UuidIn(disk, id) = given[id]
    <3>1. PICK a \in disk.accounts : a.id = id BY DEF Account!Listed
    <3>2. PICK b : b = CHOOSE c \in disk.accounts : c.id = id OBVIOUS
    <3>3. b \in disk.accounts /\ b.id = id BY <3>1, <3>2
    <3>4. id \in Account!Ids BY <3>1 DEF AccountInv, Entries
    <3>5. b.uuid = given[id] BY <2>2, <3>3, <3>4 DEF AccountInv, Shown, Means
    <3> QED BY <3>2, <3>5 DEF Account!UuidIn
  <2> QED BY <2>1, <2>2 DEF Account!IdsAreNotReused
<1> QED BY <1>1, AccountInvariant, PTL

-----------------------------------------------------------------------------
(* Migrations. *)

Running == pc \in {"step", "after", "end", "open"}
(* The tables of a database to which no step after version v has added any. *)
Has(v) == Schema!TablesAt(Latest) \ UNION {Schema!Makes(s) : s \in {t \in Schema!ToSet(Steps) : t.v > v}}

UpgradeTypes ==
    /\ version \in Int /\ version >= -1 /\ origin \in Nat /\ dbversion \in Nat /\ at \in Nat /\ sub \in Nat
    /\ column \in BOOLEAN /\ recode \in BOOLEAN /\ again \in BOOLEAN /\ ran \subseteq Nat
    /\ pc \in {"closed", "step", "after", "end", "open"}

(* A database that does not exist is not open; another one only gets newer. *)
Founded ==
    /\ version = -1 => pc = "closed" /\ origin = CreatedAt /\ ran = {}
    /\ version >= 0 => origin <= version /\ version <= Latest

(* What is before the position is done, what is after it is not. *)
Placed ==
    /\ pc \in {"step", "after"} => at \in DOMAIN Steps /\ dbversion < Steps[at].v
    /\ pc \in {"end", "open"} => at = Len(Steps) + 1
    /\ Running => /\ dbversion <= version
                  /\ \A j \in DOMAIN Steps : /\ j < at => Steps[j].v <= version \/ (Steps[j].v = 72 /\ column)
                                             /\ at < j => version < Steps[j].v
    /\ pc = "step" => version < Steps[at].v /\ sub <= Len(Steps[at].before)
    /\ pc = "after" => version = Steps[at].v /\ Steps[at].after > 0

(* The tables are those of the version, and what the statements of a step     *)
(* have made so far.                                                          *)
TablesMade ==
    version >= 0 =>
        tables = Has(version) \cup (IF pc = "step" THEN {Steps[at].before[i] : i \in 1 .. sub} \ {Schema!Set}
                                                   ELSE {})
ColumnMade == version >= 72 => column

(* Every step since the origin was carried out, and its statements too, if    *)
(* they do not come yet.                                                      *)
CarriedOut ==
    /\ ~again /\ \A v \in ran : v <= version
    /\ pc = "step" => \A k \in 1 .. sub : <<Steps[at].v, k>> \in loose
    /\ \A s \in Schema!ToSet(Steps) : origin < s.v /\ s.v <= version =>
         /\ s.v \in ran \/ s.v = 72
         /\ s.v # 77 => \A k \in 1 .. s.after + Len(s.before) :
              <<s.v, k>> \in loose \/ (pc = "after" /\ s.v = version)
         /\ s.v = 77 => <<77, 1>> \in loose \/ (recode /\ pc \in {"step", "after", "end"})

UpgradeInv == UpgradeTypes /\ Founded /\ Placed /\ TablesMade /\ ColumnMade /\ CarriedOut

-----------------------------------------------------------------------------
LEMMA StepFacts ==
    ASSUME StepsFit
    PROVE  /\ Len(Steps) \in Nat /\ Len(Steps) > 0 /\ DOMAIN Steps = 1 .. Len(Steps)
           /\ CreatedAt \in Nat /\ CreatedAt < 72 /\ Latest \in Nat /\ 72 < Latest /\ Latest = Steps[Len(Steps)].v
           /\ \A s : s \in Schema!ToSet(Steps) <=> \E i \in DOMAIN Steps : s = Steps[i]
           /\ \A i \in DOMAIN Steps : /\ Steps[i] \in Schema!StepRecords /\ Steps[i].v \in Nat /\ Steps[i].v > 0
                                      /\ Steps[i].v <= Latest
           /\ \A i, j \in DOMAIN Steps : i < j <=> Steps[i].v < Steps[j].v
<1>1. Steps \in Seq(Schema!StepRecords) /\ Len(Steps) > 0 BY DEF StepsFit, Schema!WellFormed, Schema!InOrder
<1>2. Len(Steps) \in Nat /\ DOMAIN Steps = 1 .. Len(Steps) BY <1>1, LenProperties
<1>3. \A i \in DOMAIN Steps : Steps[i] \in Schema!StepRecords BY <1>1, <1>2, ElementOfSeq
<1>4. \A i \in DOMAIN Steps : Steps[i].v \in Nat BY <1>3 DEF Schema!StepRecords
<1>5. \A s : s \in Schema!ToSet(Steps) <=> \E i \in DOMAIN Steps : s = Steps[i] BY DEF Schema!ToSet
<1>6. \A i \in DOMAIN Steps : Steps[i].v > 0
  <2> TAKE i \in DOMAIN Steps
  <2>1. Steps[i] \in Schema!ToSet(Steps) BY <1>5
  <2> QED BY <2>1 DEF StepsFit, Schema!WellFormed, Schema!InOrder
<1>7. \A i, j \in DOMAIN Steps : i < j => Steps[i].v < Steps[j].v BY DEF StepsFit, Schema!WellFormed, Schema!InOrder
<1>8. \A i, j \in DOMAIN Steps : i < j <=> Steps[i].v < Steps[j].v
  <2> TAKE i, j \in DOMAIN Steps
  <2>1. i \in Nat /\ j \in Nat /\ Steps[i].v \in Nat /\ Steps[j].v \in Nat BY <1>2, <1>4
  <2>2. CASE i < j BY <1>7, <2>2
  <2>3. CASE i = j BY <2>1, <2>3
  <2>4. CASE j < i
    <3>1. Steps[j].v < Steps[i].v BY <1>7, <2>4
    <3> QED BY <2>1, <2>4, <3>1
  <2> QED BY <2>1, <2>2, <2>3, <2>4
<1>9. CreatedAt \in Nat /\ CreatedAt < 72 /\ 72 < Latest /\ Latest = Steps[Len(Steps)].v
  BY DEF StepsFit, Schema!WellFormed, Schema!InOrder
<1>10. Len(Steps) \in DOMAIN Steps BY <1>1, <1>2
<1>11. \A i \in DOMAIN Steps : Steps[i].v <= Latest
  <2> TAKE i \in DOMAIN Steps
  <2>1. i = Len(Steps) \/ i < Len(Steps) BY <1>2
  <2> QED BY <1>4, <1>7, <1>9, <1>10, <2>1
<1> QED BY <1>1, <1>2, <1>3, <1>4, <1>5, <1>6, <1>8, <1>9, <1>10, <1>11

(* What is known of one step. *)
LEMMA OneStep ==
    ASSUME StepsFit, NEW i \in DOMAIN Steps
    PROVE  /\ Steps[i].tx \in BOOLEAN /\ Steps[i].after \in {0, 1}
           /\ Len(Steps[i].before) \in Nat /\ DOMAIN Steps[i].before = 1 .. Len(Steps[i].before)
           /\ Steps[i].tx => Len(Steps[i].before) = 0 /\ Schema!Makes(Steps[i]) = Steps[i].make
           /\ ~Steps[i].tx => /\ Steps[i].after = 0
                              /\ Schema!Makes(Steps[i])
                                   = {Steps[i].before[k] : k \in 1 .. Len(Steps[i].before)} \ {Schema!Set}
           /\ Steps[i].v = 72 => Steps[i].tx /\ Schema!Makes(Steps[i]) = {} /\ Steps[i].after = 0
           /\ Steps[i].v = 77 => ~Steps[i].tx /\ Len(Steps[i].before) = 0
           /\ Schema!Makes(Steps[i]) \subseteq Schema!TablesAt(Latest)
           /\ Steps[i].use \subseteq Schema!TablesAt(Latest)
           /\ \A k, n \in 1 .. Len(Steps[i].before) :
                Steps[i].before[k] = Steps[i].before[n] => k = n \/ Steps[i].before[k] = Schema!Set
           /\ \A j \in DOMAIN Steps : /\ i < j => Schema!Makes(Steps[i]) \cap Schema!Makes(Steps[j]) = {}
                                      /\ i <= j => Steps[i].use \cap Schema!Makes(Steps[j]) = {}
           /\ Steps[i].after > 0 => Steps[i].v \in Undisturbed
           /\ Steps[i].v \notin Undisturbed
                => {Steps[i].before[k] : k \in 1 .. Len(Steps[i].before)} \subseteq {Schema!Set}
<1> DEFINE s == Steps[i]
<1>1. s \in Schema!ToSet(Steps) /\ s \in Schema!StepRecords /\ s.v \in Nat /\ s.v <= Latest BY StepFacts
<1>2. s.tx \in BOOLEAN /\ s.after \in {0, 1} /\ s.before \in Seq(STRING) BY <1>1 DEF Schema!StepRecords
<1>3. Len(s.before) \in Nat /\ DOMAIN s.before = 1 .. Len(s.before) BY <1>2, LenProperties
<1>4. Schema!ToSet(s.before) = {s.before[k] : k \in 1 .. Len(s.before)} BY <1>3 DEF Schema!ToSet
<1>5. s.tx => s.before = << >> BY <1>1 DEF StepsFit, Schema!WellFormed, Schema!InOrder
<1>6. ~s.tx => s.after = 0 /\ s.use = {} /\ s.make = {} BY <1>1 DEF StepsFit, Schema!WellFormed, Schema!InOrder
<1>7. s.v = 72 => s.tx /\ s.make = {} /\ s.after = 0 BY <1>1 DEF StepsFit, Schema!WellFormed, Schema!InOrder
<1>8. s.v = 77 => ~s.tx /\ s.before = << >> BY <1>1 DEF StepsFit, Schema!WellFormed, Schema!InOrder
<1>9. s.before = << >> => Len(s.before) = 0 BY EmptySeq
<1>10. Schema!Makes(s) = s.make \cup ({s.before[k] : k \in 1 .. Len(s.before)} \ {Schema!Set})
  BY <1>4 DEF Schema!Makes
<1>11. Len(s.before) = 0 => {s.before[k] : k \in 1 .. Len(s.before)} = {} OBVIOUS
<1>12. Schema!Makes(s) \subseteq Schema!TablesAt(Latest)
  <2>1. IF s.v <= CreatedAt THEN Schema!Makes(s) \subseteq Created ELSE Schema!Makes(s) \cap Created = {}
    BY <1>1 DEF StepsFit, Schema!WellFormed, Schema!TablesFit
  <2>2. Schema!TablesAt(Latest) = Created \cup Schema!MadeBetween(CreatedAt, Latest)
    BY StepFacts DEF Schema!TablesAt
  <2>3. CASE s.v <= CreatedAt BY <2>1, <2>2, <2>3
  <2>4. CASE CreatedAt < s.v BY <1>1, <2>2, <2>4 DEF Schema!MadeBetween
  <2>5. CreatedAt \in Nat BY StepFacts
  <2> HIDE DEF s
  <2> QED BY <1>1, <2>3, <2>4, <2>5
<1>13. s.use \subseteq Schema!TablesAt(Latest) BY <1>1 DEF StepsFit, Schema!WellFormed, Schema!TablesFit
<1>14. \A k, n \in DOMAIN s.before : s.before[k] = s.before[n] => k = n \/ s.before[k] = Schema!Set
  BY <1>1 DEF StepsFit, Schema!WellFormed, Schema!TablesFit
<1>15. ASSUME NEW j \in DOMAIN Steps
       PROVE  /\ i < j => Schema!Makes(s) \cap Schema!Makes(Steps[j]) = {}
              /\ i <= j => s.use \cap Schema!Makes(Steps[j]) = {}
  <2>1. Steps[j] \in Schema!ToSet(Steps) /\ i \in Nat /\ j \in Nat /\ Steps[j].v \in Nat BY StepFacts
  <2>2. /\ s.v < Steps[j].v => Schema!Makes(s) \cap Schema!Makes(Steps[j]) = {}
        /\ s.v <= Steps[j].v => s.use \cap Schema!Makes(Steps[j]) = {}
    BY <1>1, <2>1 DEF StepsFit, Schema!WellFormed, Schema!TablesFit
  <2>3. i < j <=> s.v < Steps[j].v BY StepFacts
  <2>4. i <= j => s.v <= Steps[j].v BY <1>1, <2>1, <2>3
  <2> HIDE DEF s
  <2> QED BY <2>2, <2>3, <2>4
<1>16. s.after > 0 \/ (Schema!ToSet(s.before) \ {Schema!Set} # {}) => s.v \in Undisturbed
  BY <1>1 DEF StepsFit, Schema!WellFormed, Schema!Spared
<1>17. s.v \notin Undisturbed => {s.before[k] : k \in 1 .. Len(s.before)} \subseteq {Schema!Set} BY <1>4, <1>16
<1>18. s.tx => Schema!Makes(s) = s.make BY <1>5, <1>9, <1>10, <1>11
<1>19. ~s.tx => Schema!Makes(s) = {s.before[k] : k \in 1 .. Len(s.before)} \ {Schema!Set} BY <1>6, <1>10
<1>20. s.v = 72 => Schema!Makes(s) = {} BY <1>7, <1>18
<1> HIDE DEF s
<1>21. /\ s.tx => Len(s.before) = 0 /\ Schema!Makes(s) = s.make
       /\ ~s.tx => s.after = 0 /\ Schema!Makes(s) = {s.before[k] : k \in 1 .. Len(s.before)} \ {Schema!Set}
       /\ s.v = 72 => s.tx /\ Schema!Makes(s) = {} /\ s.after = 0
       /\ s.v = 77 => ~s.tx /\ Len(s.before) = 0
  BY <1>5, <1>6, <1>7, <1>8, <1>9, <1>18, <1>19, <1>20
<1>22. \A j \in DOMAIN Steps : /\ i < j => Schema!Makes(s) \cap Schema!Makes(Steps[j]) = {}
                               /\ i <= j => s.use \cap Schema!Makes(Steps[j]) = {}
  BY <1>15
<1>23. \A k, n \in 1 .. Len(s.before) : s.before[k] = s.before[n] => k = n \/ s.before[k] = Schema!Set
  BY <1>3, <1>14
<1> QED BY <1>2, <1>3, <1>12, <1>13, <1>16, <1>17, <1>21, <1>22, <1>23 DEF s

(* The first step from position k on that is newer than version v. *)
LEMMA PendingOK ==
    ASSUME StepsFit, NEW k \in 1 .. Len(Steps) + 1, NEW v \in Int
    PROVE  /\ Schema!Pending(k, v) \in k .. Len(Steps) + 1
           /\ \A j \in DOMAIN Steps : /\ k <= j /\ j < Schema!Pending(k, v) => Steps[j].v <= v
                                      /\ Schema!Pending(k, v) <= j => v < Steps[j].v
<1>0. Len(Steps) \in Nat /\ DOMAIN Steps = 1 .. Len(Steps) /\ k \in Nat
  BY StepFacts
<1> DEFINE S == {j \in k .. Len(Steps) + 1 : j <= Len(Steps) => Steps[j].v > v}
           P(j) == /\ j <= Len(Steps) => Steps[j].v > v
                   /\ \A i \in k .. (j - 1) : Steps[i].v <= v
<1>1. S \in SUBSET Nat /\ S # {}
  <2>1. Len(Steps) + 1 \in S BY <1>0
  <2> QED BY <1>0, <2>1
<1>2. PICK n \in S : \A j \in S : n <= j BY <1>1, Least
<1>3. n \in k .. Len(Steps) + 1 /\ P(n)
  <2>1. ASSUME NEW i \in k .. (n - 1) PROVE Steps[i].v <= v
    <3>1. i \in DOMAIN Steps /\ i \in k .. Len(Steps) + 1 /\ i < n BY <1>0, <1>2
    <3>2. i \notin S BY <1>0, <1>2, <3>1
    <3>3. Steps[i].v \in Nat BY <3>1, StepFacts
    <3> QED BY <1>0, <3>1, <3>2, <3>3
  <2> QED BY <1>2, <2>1
<1>4. PICK p : p = Schema!Pending(k, v) OBVIOUS
<1>5. p = CHOOSE j \in k .. (Len(Steps) + 1) : P(j) BY <1>4 DEF Schema!Pending, Schema!FirstAfter
<1>6. p \in k .. Len(Steps) + 1 /\ P(p) BY <1>3, <1>5
<1>7. ASSUME NEW j \in DOMAIN Steps PROVE (k <= j /\ j < p => Steps[j].v <= v) /\ (p <= j => v < Steps[j].v)
  <2>1. k <= j /\ j < p => Steps[j].v <= v BY <1>0, <1>6
  <2>2. ASSUME p <= j PROVE v < Steps[j].v
    <3>1. p \in DOMAIN Steps /\ Steps[p].v > v BY <1>0, <1>6, <2>2
    <3>2. p = j \/ Steps[p].v < Steps[j].v
      <4>1. p = j \/ p < j BY <1>0, <1>6, <2>2
      <4> QED BY <3>1, <4>1, StepFacts
    <3>3. Steps[p].v \in Nat /\ Steps[j].v \in Nat BY <3>1, StepFacts
    <3> QED BY <3>1, <3>2, <3>3
  <2> QED BY <2>1, <2>2
<1> QED BY <1>4, <1>6, <1>7

(* Carrying out a step adds its tables to those of the version. *)
LEMMA HasMore ==
    ASSUME StepsFit, NEW i \in DOMAIN Steps, NEW v \in Int, v < Steps[i].v,
           \A j \in DOMAIN Steps : j < i => Steps[j].v <= v \/ Steps[j].v = 72
    PROVE  /\ Has(Steps[i].v) = Has(v) \cup Schema!Makes(Steps[i])
           /\ Schema!Makes(Steps[i]) \cap Has(v) = {} /\ Steps[i].use \subseteq Has(v)
<1>1. \A w, x : x \in Has(w) <=> /\ x \in Schema!TablesAt(Latest)
                                 /\ \A j \in DOMAIN Steps : Steps[j].v > w => x \notin Schema!Makes(Steps[j])
  BY StepFacts DEF Has
<1>2. /\ Schema!Makes(Steps[i]) \subseteq Schema!TablesAt(Latest) /\ Steps[i].use \subseteq Schema!TablesAt(Latest)
      /\ \A j \in DOMAIN Steps : /\ i < j => Schema!Makes(Steps[i]) \cap Schema!Makes(Steps[j]) = {}
                                 /\ i <= j => Steps[i].use \cap Schema!Makes(Steps[j]) = {}
  BY OneStep
<1>3. \A j \in DOMAIN Steps : Steps[j].v = 72 => Schema!Makes(Steps[j]) = {} BY OneStep
<1>4. \A j \in DOMAIN Steps : /\ j \in Nat /\ Steps[j].v \in Nat /\ (i < j <=> Steps[i].v < Steps[j].v)
                              /\ Steps[j].v > v => i <= j \/ Steps[j].v = 72
  <2> TAKE j \in DOMAIN Steps
  <2>1. i \in Nat /\ j \in Nat /\ Steps[j].v \in Nat /\ (i < j <=> Steps[i].v < Steps[j].v) BY StepFacts
  <2> QED BY <2>1
<1>5. i \in Nat /\ Steps[i].v \in Nat BY <1>4
<1>6. ASSUME NEW x PROVE x \in Has(Steps[i].v) <=> x \in Has(v) \cup Schema!Makes(Steps[i])
  <2>1. ASSUME x \in Has(Steps[i].v), x \notin Schema!Makes(Steps[i]) PROVE x \in Has(v)
    <3>1. ASSUME NEW j \in DOMAIN Steps, Steps[j].v > v PROVE x \notin Schema!Makes(Steps[j])
      <4>1. CASE Steps[j].v = 72 BY <1>3, <4>1
      <4>2. CASE i = j BY <2>1, <4>2
      <4>3. CASE i < j BY <1>1, <1>4, <2>1, <4>3
      <4> QED BY <1>4, <1>5, <3>1, <4>1, <4>2, <4>3
    <3> QED BY <1>1, <2>1, <3>1
  <2>2. ASSUME x \in Has(v) PROVE x \in Has(Steps[i].v)
    <3>1. \A j \in DOMAIN Steps : Steps[j].v > Steps[i].v => Steps[j].v > v BY <1>4, <1>5
    <3> QED BY <1>1, <2>2, <3>1
  <2>3. ASSUME x \in Schema!Makes(Steps[i]) PROVE x \in Has(Steps[i].v)
    <3>1. \A j \in DOMAIN Steps : Steps[j].v > Steps[i].v => i < j BY <1>4, <1>5
    <3> QED BY <1>1, <1>2, <2>3, <3>1
  <2> QED BY <2>1, <2>2, <2>3
<1>7. Schema!Makes(Steps[i]) \cap Has(v) = {} BY <1>1
<1>8. Steps[i].use \subseteq Has(v)
  <2>1. ASSUME NEW x \in Steps[i].use, NEW j \in DOMAIN Steps, Steps[j].v > v PROVE x \notin Schema!Makes(Steps[j])
    <3>1. i <= j \/ Steps[j].v = 72 BY <1>4, <2>1
    <3> QED BY <1>2, <1>3, <3>1
  <2> QED BY <1>1, <1>2, <2>1
<1> QED BY <1>6, <1>7, <1>8

(* What an older program left are the tables of its version. *)
LEMMA TablesAtHas ==
    ASSUME StepsFit, NEW v \in Nat, v <= Latest
    PROVE  Schema!TablesAt(v) = Has(v)
<1>1. \A x, a, b : x \in Schema!MadeBetween(a, b) <=>
                     \E j \in DOMAIN Steps : a < Steps[j].v /\ Steps[j].v <= b /\ x \in Schema!Makes(Steps[j])
  BY StepFacts DEF Schema!MadeBetween
<1>2. \A x : x \in Has(v) <=> /\ x \in Schema!TablesAt(Latest)
                              /\ \A j \in DOMAIN Steps : Steps[j].v > v => x \notin Schema!Makes(Steps[j])
  BY StepFacts DEF Has
<1>3. Schema!TablesAt(Latest) = Created \cup Schema!MadeBetween(CreatedAt, Latest)
  BY StepFacts DEF Schema!TablesAt
<1>4. \A j \in DOMAIN Steps : /\ Steps[j].v \in Nat /\ Steps[j].v <= Latest
                              /\ IF Steps[j].v <= CreatedAt THEN Schema!Makes(Steps[j]) \subseteq Created
                                 ELSE Schema!Makes(Steps[j]) \cap Created = {}
  <2> TAKE j \in DOMAIN Steps
  <2>1. Steps[j].v \in Nat /\ Steps[j].v <= Latest /\ Steps[j] \in Schema!ToSet(Steps) BY StepFacts
  <2> QED BY <2>1 DEF StepsFit, Schema!WellFormed, Schema!TablesFit
<1>5. \A i, j \in DOMAIN Steps : Steps[i].v < Steps[j].v => Schema!Makes(Steps[i]) \cap Schema!Makes(Steps[j]) = {}
  <2> TAKE i, j \in DOMAIN Steps
  <2>1. i < j <=> Steps[i].v < Steps[j].v BY StepFacts
  <2> QED BY <2>1, OneStep
<1>6. CreatedAt \in Nat BY StepFacts
<1>7. CASE v < CreatedAt
  <2>1. Schema!TablesAt(v) = Created \ Schema!MadeBetween(v, CreatedAt) BY <1>7 DEF Schema!TablesAt
  <2>2. ASSUME NEW x PROVE x \in Created \ Schema!MadeBetween(v, CreatedAt) <=> x \in Has(v)
    <3>1. ASSUME x \in Created, x \notin Schema!MadeBetween(v, CreatedAt) PROVE x \in Has(v)
      <4>1. ASSUME NEW j \in DOMAIN Steps, Steps[j].v > v PROVE x \notin Schema!Makes(Steps[j])
        <5>1. CASE Steps[j].v <= CreatedAt BY <1>1, <3>1, <4>1, <5>1
        <5>2. CASE ~(Steps[j].v <= CreatedAt) BY <1>4, <3>1, <5>2
        <5> QED BY <5>1, <5>2
      <4> QED BY <1>2, <1>3, <3>1, <4>1
    <3>2. ASSUME x \in Has(v) PROVE x \in Created /\ x \notin Schema!MadeBetween(v, CreatedAt)
      <4>1. x \notin Schema!MadeBetween(v, CreatedAt) BY <1>1, <1>2, <3>2
      <4>2. x \notin Schema!MadeBetween(CreatedAt, Latest)
        <5> SUFFICES ASSUME NEW j \in DOMAIN Steps, CreatedAt < Steps[j].v PROVE x \notin Schema!Makes(Steps[j])
          BY <1>1
        <5> QED BY <1>2, <1>4, <1>6, <1>7, <3>2
      <4> QED BY <1>2, <1>3, <3>2, <4>1, <4>2
    <3> QED BY <3>1, <3>2
  <2> QED BY <2>1, <2>2
<1>8. CASE ~(v < CreatedAt)
  <2>1. Schema!TablesAt(v) = Created \cup Schema!MadeBetween(CreatedAt, v) BY <1>8 DEF Schema!TablesAt
  <2>2. ASSUME NEW x PROVE x \in Created \cup Schema!MadeBetween(CreatedAt, v) <=> x \in Has(v)
    <3>1. ASSUME x \in Created PROVE x \in Has(v)
      <4>1. ASSUME NEW j \in DOMAIN Steps, Steps[j].v > v PROVE x \notin Schema!Makes(Steps[j])
        <5>1. ~(Steps[j].v <= CreatedAt) BY <1>4, <1>6, <1>8, <4>1
        <5> QED BY <1>4, <3>1, <5>1
      <4> QED BY <1>2, <1>3, <3>1, <4>1
    <3>2. ASSUME x \in Schema!MadeBetween(CreatedAt, v) PROVE x \in Has(v)
      <4>1. PICK i \in DOMAIN Steps : CreatedAt < Steps[i].v /\ Steps[i].v <= v /\ x \in Schema!Makes(Steps[i])
        BY <1>1, <3>2
      <4>2. x \in Schema!TablesAt(Latest) BY <1>1, <1>3, <1>4, <4>1
      <4>3. ASSUME NEW j \in DOMAIN Steps, Steps[j].v > v PROVE x \notin Schema!Makes(Steps[j])
        <5>1. Steps[i].v < Steps[j].v BY <1>4, <4>1, <4>3
        <5> QED BY <1>5, <4>1, <5>1
      <4> QED BY <1>2, <4>2, <4>3
    <3>3. ASSUME x \in Has(v), x \notin Created PROVE x \in Schema!MadeBetween(CreatedAt, v)
      <4>1. x \in Schema!MadeBetween(CreatedAt, Latest) BY <1>2, <1>3, <3>3
      <4>2. PICK j \in DOMAIN Steps : CreatedAt < Steps[j].v /\ x \in Schema!Makes(Steps[j]) BY <1>1, <4>1
      <4>3. ~(Steps[j].v > v) BY <1>2, <3>3, <4>2
      <4>4. Steps[j].v <= v BY <1>4, <4>3
      <4> QED BY <1>1, <4>2, <4>4
    <3> QED BY <3>1, <3>2, <3>3
  <2> QED BY <2>1, <2>2
<1> QED BY <1>7, <1>8

(* The invariant holds of a database that an older program left. *)
LEMMA UpgradeInit ==
    ASSUME StepsFit, Schema!Init
    PROVE  UpgradeInv
<1>1. /\ pc = "closed" /\ dbversion = 0 /\ at = 0 /\ sub = 0 /\ recode = FALSE /\ ran = {} /\ again = FALSE
      /\ version = -1 \/ version = 0 \/ version \in {s.v : s \in Schema!ToSet(Steps)}
      /\ tables = IF version = -1 THEN {} ELSE Schema!TablesAt(version)
      /\ column \in IF 0 <= version /\ version < 72 THEN BOOLEAN ELSE {version >= 72}
      /\ origin = IF version = -1 THEN CreatedAt ELSE version
  BY DEF Schema!Init
<1>2. CreatedAt \in Nat /\ Latest \in Nat /\ 72 < Latest BY StepFacts
<1>3. version = -1 \/ (version \in Nat /\ version <= Latest)
  <2>1. CASE version \in {s.v : s \in Schema!ToSet(Steps)} BY <2>1, StepFacts
  <2> QED BY <1>1, <1>2, <2>1
<1>10. column \in BOOLEAN /\ (version >= 72 => column)
  <2>1. CASE 0 <= version /\ version < 72
    <3>1. column \in BOOLEAN BY <1>1, <2>1, Zenon
    <3>2. ~(version >= 72) BY <1>3, <2>1
    <3> QED BY <3>1, <3>2, Zenon
  <2>2. CASE ~(0 <= version /\ version < 72)
    <3>1. column = (version >= 72) BY <1>1, <2>2, Zenon
    <3>2. (version >= 72) \in BOOLEAN BY <1>3
    <3> QED BY <3>1, <3>2, Zenon
  <2> QED BY <2>1, <2>2
<1>4. UpgradeTypes
  <2>2. sub \in Nat /\ dbversion \in Nat /\ at \in Nat /\ origin \in Nat /\ version \in Int /\ version >= -1
    BY <1>1, <1>2, <1>3
  <2>3. pc \in {"closed", "step", "after", "end", "open"} /\ ran \subseteq Nat BY <1>1
  <2>4. recode \in BOOLEAN /\ again \in BOOLEAN BY <1>1, Zenon
  <2> QED BY <1>10, <2>2, <2>3, <2>4 DEF UpgradeTypes
<1>5. Founded BY <1>1, <1>2, <1>3 DEF Founded
<1>6. Placed BY <1>1 DEF Placed, Running
<1>7. TablesMade
  <2>1. CASE version >= 0
    <3>1. version \in Nat /\ version <= Latest /\ version # -1 BY <1>3, <2>1
    <3>2. Schema!TablesAt(version) = Has(version) BY <3>1, TablesAtHas
    <3> QED BY <1>1, <3>1, <3>2 DEF TablesMade
  <2> QED BY <2>1 DEF TablesMade
<1>8. ColumnMade BY <1>10 DEF ColumnMade
<1>9. CarriedOut
  <2>1. \A s \in Schema!ToSet(Steps) : s.v \in Nat BY StepFacts
  <2>2. \A s \in Schema!ToSet(Steps) : ~(origin < s.v /\ s.v <= version) BY <1>1, <1>2, <1>3, <2>1
  <2> QED BY <1>1, <2>2 DEF CarriedOut
<1> QED BY <1>4, <1>5, <1>6, <1>7, <1>8, <1>9 DEF UpgradeInv

(* Opening a database of version v: the first step is the first newer one. *)
LEMMA OpenedAt ==
    ASSUME StepsFit, NEW v \in Nat, v <= Latest, Schema!GoTo(Schema!Pending(1, v)),
           version' = v, dbversion' = v, tables' = Has(v)
    PROVE  /\ at' \in Nat /\ sub' = 0 /\ pc' \in {"step", "end"} /\ Placed' /\ TablesMade'
<1>1. PICK p : p = Schema!Pending(1, v) OBVIOUS
<1>2. Len(Steps) \in Nat /\ DOMAIN Steps = 1 .. Len(Steps) BY StepFacts
<1>3. 1 \in 1 .. Len(Steps) + 1 /\ v \in Int BY <1>2
<1>4. /\ p \in 1 .. Len(Steps) + 1
      /\ \A j \in DOMAIN Steps : (1 <= j /\ j < p => Steps[j].v <= v) /\ (p <= j => v < Steps[j].v)
  BY <1>1, <1>3, PendingOK
<1>5. at' = p /\ sub' = 0 /\ pc' = IF p > Len(Steps) THEN "end" ELSE "step" BY <1>1 DEF Schema!GoTo
<1>6. \A j \in DOMAIN Steps : (j < p => Steps[j].v <= v) /\ (p <= j => v < Steps[j].v) BY <1>2, <1>4
<1>7. pc' = "step" => p \in DOMAIN Steps /\ v < Steps[p].v BY <1>2, <1>4, <1>5, <1>6
<1>8. pc' = "end" => p = Len(Steps) + 1 BY <1>2, <1>4, <1>5
<1>9. \A j \in DOMAIN Steps : (j < p => Steps[j].v <= v) /\ (p < j => v < Steps[j].v) BY <1>2, <1>4, <1>6
<1>10. pc' = "step" => 0 <= Len(Steps[p].before) BY <1>7, OneStep
<1>11. Placed' BY <1>5, <1>7, <1>8, <1>9, <1>10 DEF Placed, Running
<1>12. TablesMade'
  <2>1. {Steps[p].before[i] : i \in 1 .. 0} \ {Schema!Set} = {} OBVIOUS
  <2> QED BY <1>5, <2>1 DEF TablesMade, Has, Schema!Set, Schema!TablesAt, Schema!MadeBetween, Schema!Makes
<1> QED BY <1>4, <1>5, <1>11, <1>12

LEMMA CreateOK ==
    ASSUME StepsFit, UpgradeInv, Schema!Create
    PROVE  UpgradeInv'
<1>1. /\ pc = "closed" /\ version = -1 /\ version' = CreatedAt /\ tables' = Created /\ dbversion' = CreatedAt
      /\ Schema!GoTo(Schema!Pending(1, CreatedAt)) /\ recode' = FALSE
      /\ UNCHANGED <<column, ran, again, loose, origin, stops>>
  BY DEF Schema!Create
<1>2. CreatedAt \in Nat /\ CreatedAt < 72 /\ Latest \in Nat /\ 72 < Latest /\ CreatedAt <= Latest BY StepFacts
<1>3. Created = Has(CreatedAt)
  <2>1. Schema!TablesAt(CreatedAt) = Has(CreatedAt) BY <1>2, TablesAtHas
  <2>2. \A s \in Schema!ToSet(Steps) : ~(CreatedAt < s.v /\ s.v <= CreatedAt) BY <1>2, StepFacts
  <2>3. Schema!MadeBetween(CreatedAt, CreatedAt) = {} BY <2>2 DEF Schema!MadeBetween
  <2>4. Schema!TablesAt(CreatedAt) = Created BY <1>2, <2>3 DEF Schema!TablesAt
  <2> QED BY <2>1, <2>4
<1>4. at' \in Nat /\ sub' = 0 /\ pc' \in {"step", "end"} /\ Placed' /\ TablesMade' BY <1>1, <1>2, <1>3, OpenedAt
<1>5. origin = CreatedAt /\ ran = {} /\ ~again BY <1>1 DEF UpgradeInv, Founded, CarriedOut
<1>6. UpgradeTypes'
  <2>1. version' \in Int /\ version' >= -1 /\ dbversion' \in Nat /\ at' \in Nat /\ sub' \in Nat /\ origin' \in Nat
    BY <1>1, <1>2, <1>4, <1>5
  <2>2. column' \in BOOLEAN /\ recode' \in BOOLEAN /\ again' \in BOOLEAN /\ ran' \subseteq Nat
    BY <1>1 DEF UpgradeInv, UpgradeTypes
  <2>3. pc' \in {"closed", "step", "after", "end", "open"} BY <1>4
  <2> QED BY <2>1, <2>2, <2>3 DEF UpgradeTypes
<1>7. Founded' BY <1>1, <1>2, <1>4, <1>5 DEF Founded
<1>8. ColumnMade' BY <1>1, <1>2 DEF ColumnMade
<1>9. CarriedOut'
  <2>1. \A s \in Schema!ToSet(Steps) : s.v \in Nat BY StepFacts
  <2>2. \A s \in Schema!ToSet(Steps) : ~(origin' < s.v /\ s.v <= version') BY <1>1, <1>2, <1>5, <2>1
  <2>3. ~again' /\ ran' = {} BY <1>1, <1>5
  <2> QED BY <1>4, <2>2, <2>3 DEF CarriedOut, Schema!ToSet
<1> QED BY <1>4, <1>6, <1>7, <1>8, <1>9 DEF UpgradeInv

LEMMA OpenOK ==
    ASSUME StepsFit, UpgradeInv, Schema!Open
    PROVE  UpgradeInv'
<1>1. /\ pc = "closed" /\ version >= 0 /\ dbversion' = version /\ Schema!GoTo(Schema!Pending(1, version))
      /\ recode' = FALSE /\ UNCHANGED <<version, tables, column, ran, again, loose, origin, stops>>
  BY DEF Schema!Open
<1>2. version \in Nat /\ version <= Latest /\ origin <= version BY <1>1 DEF UpgradeInv, UpgradeTypes, Founded
<1>3. tables' = Has(version) BY <1>1 DEF UpgradeInv, TablesMade
<1>4. version' = version /\ dbversion' = version BY <1>1
<1>5. at' \in Nat /\ sub' = 0 /\ pc' \in {"step", "end"} /\ Placed' /\ TablesMade'
  BY <1>1, <1>2, <1>3, <1>4, OpenedAt
<1>6. UpgradeTypes' BY <1>1, <1>2, <1>5 DEF UpgradeInv, UpgradeTypes
<1>7. Founded' BY <1>1, <1>2 DEF Founded
<1>8. ColumnMade' BY <1>1 DEF UpgradeInv, ColumnMade
<1>9. CarriedOut' BY <1>1, <1>5 DEF UpgradeInv, CarriedOut, Schema!ToSet
<1> QED BY <1>5, <1>6, <1>7, <1>8, <1>9 DEF UpgradeInv

(* The program goes on with the next step, which is newer. *)
LEMMA Moved ==
    ASSUME StepsFit, UpgradeInv, pc \in {"step", "after"}, Schema!Advance, dbversion' = dbversion, column => column',
           \/ version' = Steps[at].v
           \/ version' = version /\ version < Steps[at].v /\ Steps[at].v = 72 /\ column'
    PROVE  at' = at + 1 /\ sub' = 0 /\ pc' \in {"step", "end"} /\ Placed'
<1>1. /\ at \in DOMAIN Steps /\ dbversion < Steps[at].v /\ dbversion <= version /\ version <= Steps[at].v
      /\ \A j \in DOMAIN Steps : /\ j < at => Steps[j].v <= version \/ (Steps[j].v = 72 /\ column)
                                 /\ at < j => version < Steps[j].v
      /\ dbversion \in Nat /\ at \in Nat /\ version \in Int
  <2>1. Placed /\ UpgradeTypes BY DEF UpgradeInv
  <2>2. at \in DOMAIN Steps /\ dbversion < Steps[at].v BY <2>1 DEF Placed
  <2>3. dbversion <= version /\ \A j \in DOMAIN Steps : 
                                 /\ j < at => Steps[j].v <= version \/ (Steps[j].v = 72 /\ column)
                                 /\ at < j => version < Steps[j].v
    BY <2>1 DEF Placed, Running
  <2>4. dbversion \in Nat /\ at \in Nat /\ version \in Int BY <2>1 DEF UpgradeTypes
  <2>5. Steps[at].v \in Nat BY <2>2, StepFacts
  <2>6. version <= Steps[at].v BY <2>1, <2>4, <2>5 DEF Placed
  <2> QED BY <2>2, <2>3, <2>4, <2>6
<1>2. Len(Steps) \in Nat /\ DOMAIN Steps = 1 .. Len(Steps) BY StepFacts
<1>3. \A j \in DOMAIN Steps : j \in Nat /\ Steps[j].v \in Nat BY <1>2, StepFacts
<1>4. \A i, j \in DOMAIN Steps : i < j => Steps[i].v < Steps[j].v BY StepFacts
<1>5. PICK p : p = Schema!Pending(at + 1, dbversion) OBVIOUS
<1>6. at + 1 \in 1 .. Len(Steps) + 1 BY <1>1, <1>2
<1>7. /\ p \in at + 1 .. Len(Steps) + 1
      /\ \A j \in DOMAIN Steps : at + 1 <= j /\ j < p => Steps[j].v <= dbversion
  BY <1>1, <1>5, <1>6, PendingOK
<1>8. p = at + 1
  <2> SUFFICES ASSUME at + 1 < p PROVE FALSE BY <1>1, <1>7, <1>2
  <2>1. at + 1 \in DOMAIN Steps BY <1>1, <1>2, <1>7
  <2>2. Steps[at + 1].v <= dbversion BY <1>1, <1>7, <2>1
  <2>3. Steps[at].v < Steps[at + 1].v BY <1>1, <1>4, <2>1
  <2>4. Steps[at].v \in Nat /\ Steps[at + 1].v \in Nat BY <1>1, <1>3, <2>1
  <2> QED BY <1>1, <2>2, <2>3, <2>4
<1>9. at' = at + 1 /\ sub' = 0 /\ pc' = IF at + 1 > Len(Steps) THEN "end" ELSE "step"
  BY <1>5, <1>8 DEF Schema!Advance, Schema!GoTo
<1>10. version' \in Int /\ dbversion' <= version' /\ version' <= Steps[at].v /\ version <= version'
  <2>1. Steps[at].v \in Nat BY <1>1, <1>3
  <2> QED BY <1>1, <2>1
<1>11. pc' = "step" => at + 1 \in DOMAIN Steps BY <1>1, <1>2, <1>9
<1>12. \A j \in DOMAIN Steps : at < j => version' < Steps[j].v /\ dbversion < Steps[j].v
  <2> TAKE j \in DOMAIN Steps
  <2> HAVE at < j
  <2>1. Steps[at].v < Steps[j].v BY <1>1, <1>4
  <2>2. Steps[at].v \in Nat /\ Steps[j].v \in Nat BY <1>1, <1>3
  <2> QED BY <1>1, <1>10, <2>1, <2>2
<1>13. \A j \in DOMAIN Steps : j < at + 1 => Steps[j].v <= version' \/ (Steps[j].v = 72 /\ column')
  <2> TAKE j \in DOMAIN Steps
  <2> HAVE j < at + 1
  <2>1. Steps[j].v \in Nat /\ (j < at \/ j = at) BY <1>1, <1>3
  <2>2. CASE j < at BY <1>1, <1>10, <2>1, <2>2
  <2>3. CASE j = at BY <1>1, <2>1, <2>3
  <2> QED BY <2>1, <2>2, <2>3
<1>14. \A j \in DOMAIN Steps : at + 1 < j => version' < Steps[j].v BY <1>1, <1>3, <1>12
<1>15. pc' = "step" => 0 <= Len(Steps[at + 1].before) /\ version' < Steps[at + 1].v /\ dbversion < Steps[at + 1].v
  BY <1>1, <1>11, <1>12, OneStep
<1>16. pc' = "end" => at + 1 = Len(Steps) + 1 BY <1>1, <1>2, <1>9
<1>17. Placed' BY <1>9, <1>10, <1>11, <1>13, <1>14, <1>15, <1>16 DEF Placed, Running
<1> QED BY <1>9, <1>17

(* What is known while a step is being carried out. *)
LEMMA AtStep ==
    ASSUME StepsFit, UpgradeInv, pc \in {"step", "after"}
    PROVE  /\ at \in DOMAIN Steps /\ at \in Nat /\ Steps[at].v \in Nat /\ Steps[at].v <= Latest
           /\ version \in Nat /\ origin \in Nat /\ origin <= version /\ sub \in Nat /\ Latest \in Nat
           /\ \A j \in DOMAIN Steps : j < at => Steps[j].v <= version \/ (Steps[j].v = 72 /\ column)
           /\ pc = "step" => /\ version < Steps[at].v /\ sub <= Len(Steps[at].before)
                             /\ Has(Steps[at].v) = Has(version) \cup Schema!Makes(Steps[at])
                             /\ Schema!Makes(Steps[at]) \cap Has(version) = {}
                             /\ Steps[at].use \subseteq Has(version)
<1>1. UpgradeTypes /\ Founded /\ Placed BY DEF UpgradeInv
<1>2. at \in DOMAIN Steps BY <1>1 DEF Placed
<1>3. at \in Nat /\ Steps[at].v \in Nat /\ Steps[at].v <= Latest /\ Latest \in Nat
  BY <1>1, <1>2, StepFacts DEF UpgradeTypes
<1>4. version \in Nat /\ origin \in Nat /\ origin <= version /\ sub \in Nat
  <2>1. version # -1 BY <1>1 DEF Founded
  <2>2. version \in Int /\ version >= -1 /\ origin \in Nat /\ sub \in Nat BY <1>1 DEF UpgradeTypes
  <2>3. version >= 0 BY <2>1, <2>2
  <2> QED BY <1>1, <2>2, <2>3 DEF Founded
<1>5. \A j \in DOMAIN Steps : j < at => Steps[j].v <= version \/ (Steps[j].v = 72 /\ column)
  BY <1>1 DEF Placed, Running
<1>6. pc = "step" => version < Steps[at].v /\ sub <= Len(Steps[at].before) BY <1>1 DEF Placed
<1>7. ASSUME pc = "step"
      PROVE  /\ Has(Steps[at].v) = Has(version) \cup Schema!Makes(Steps[at])
             /\ Schema!Makes(Steps[at]) \cap Has(version) = {} /\ Steps[at].use \subseteq Has(version)
  <2>1. version \in Int /\ version < Steps[at].v BY <1>4, <1>6, <1>7
  <2> QED BY <1>2, <1>5, <2>1, HasMore
<1> QED BY <1>2, <1>3, <1>4, <1>5, <1>6, <1>7

(* A step that writes its version has been carried out, and no other was. *)
LEMMA VersionWritten ==
    ASSUME StepsFit, UpgradeInv, pc = "step", pc' \in {"step", "after", "end"}, pc' = "step" => sub' = 0,
           version' = Steps[at].v, tables' = Has(Steps[at].v), column' = (column \/ Steps[at].v = 72),
           recode' = (recode \/ Steps[at].v = 77), ran' = ran \cup {Steps[at].v},
           again' = (again \/ Steps[at].v \in ran), loose' = loose, origin' = origin,
           \A k \in 1 .. Steps[at].after + Len(Steps[at].before) : <<Steps[at].v, k>> \in loose \/ pc' = "after"
    PROVE  Founded' /\ TablesMade' /\ ColumnMade' /\ CarriedOut'
<1> DEFINE w == Steps[at].v
<1>1. /\ at \in DOMAIN Steps /\ at \in Nat /\ w \in Nat /\ w <= Latest /\ version < w
      /\ version \in Nat /\ origin \in Nat /\ origin <= version /\ Latest \in Nat
      /\ \A j \in DOMAIN Steps : j < at => Steps[j].v <= version \/ (Steps[j].v = 72 /\ column)
  BY AtStep
<1>2. /\ \A s : s \in Schema!ToSet(Steps) <=> \E i \in DOMAIN Steps : s = Steps[i]
      /\ \A j \in DOMAIN Steps : /\ j \in Nat /\ Steps[j].v \in Nat /\ (j < at <=> Steps[j].v < w)
                                 /\ (at < j <=> w < Steps[j].v)
  BY <1>1, StepFacts
<1>3. Founded' BY <1>1 DEF Founded
<1>4. TablesMade'
  <2>1. {Steps[at'].before[i] : i \in 1 .. 0} \ {Schema!Set} = {} OBVIOUS
  <2>2. sub' = 0 => {Steps[at'].before[i] : i \in 1 .. sub'} \ {Schema!Set} = {} BY <2>1
  <2> QED BY <2>2 DEF TablesMade, Has, Schema!Set, Schema!TablesAt, Schema!MadeBetween, Schema!Makes
<1>5. ColumnMade'
  <2> SUFFICES ASSUME w >= 72 PROVE column' BY DEF ColumnMade
  <2>1. CASE w = 72 BY <2>1
  <2>2. CASE w # 72
    <3>1. PICK s \in Schema!ToSet(Steps) : s.v = 72 BY DEF StepsFit, Schema!WellFormed, Schema!InOrder
    <3>2. PICK i \in DOMAIN Steps : Steps[i].v = 72 BY <1>2, <3>1
    <3>3. 72 < w BY <1>1, <2>2
    <3>4. i < at BY <1>2, <3>2, <3>3
    <3>5. 72 <= version \/ column BY <1>1, <3>2, <3>4
    <3>6. column BY <1>1, <3>5 DEF UpgradeInv, ColumnMade
    <3> QED BY <3>6
  <2> QED BY <2>1, <2>2
<1>6. ~again' /\ \A v \in ran' : v <= version'
  <2>1. ~again /\ \A v \in ran : v <= version BY DEF UpgradeInv, CarriedOut
  <2>2. w \notin ran BY <1>1, <2>1
  <2>3. ~again' BY <2>1, <2>2
  <2>4. ran \subseteq Nat BY DEF UpgradeInv, UpgradeTypes
  <2>5. \A v \in ran : v <= w BY <1>1, <2>1, <2>4
  <2>6. \A v \in ran' : v <= version' BY <1>1, <2>5
  <2> QED BY <2>3, <2>6
<1>7. pc' = "step" => \A k \in 1 .. sub' : <<Steps[at'].v, k>> \in loose'
  <2>1. pc' = "step" => 1 .. sub' = {} OBVIOUS
  <2> QED BY <2>1
<1>8. ASSUME NEW s \in Schema!ToSet(Steps), origin < s.v, s.v <= w
      PROVE  /\ s.v \in ran' \/ s.v = 72
             /\ s.v # 77 => \A k \in 1 .. s.after + Len(s.before) :
                  <<s.v, k>> \in loose' \/ (pc' = "after" /\ s.v = version')
             /\ s.v = 77 => <<77, 1>> \in loose' \/ (recode' /\ pc' \in {"step", "after", "end"})
  <2>1. PICK j \in DOMAIN Steps : s = Steps[j] BY <1>2
  <2>2. j = at \/ j < at BY <1>1, <1>2, <1>8, <2>1
  <2>3. CASE j = at
    <3>1. s.v = w /\ s = Steps[at] BY <2>1, <2>3
    <3>2. s.v \in ran' BY <3>1
    <3>3. s.v = 77 => recode' BY <3>1
    <3>4. \A k \in 1 .. s.after + Len(s.before) : <<s.v, k>> \in loose' \/ (pc' = "after" /\ s.v = version')
      BY <3>1
    <3> HIDE DEF w
    <3> QED BY <3>2, <3>3, <3>4
  <2>4. CASE j < at /\ s.v <= version
    <3>1. /\ s.v \in ran \/ s.v = 72
          /\ s.v # 77 => \A k \in 1 .. s.after + Len(s.before) : <<s.v, k>> \in loose
          /\ s.v = 77 => <<77, 1>> \in loose \/ recode
      BY <1>8, <2>4 DEF UpgradeInv, CarriedOut
    <3> QED BY <3>1
  <2>5. CASE j < at /\ ~(s.v <= version)
    <3>1. s.v = 72 BY <1>1, <2>1, <2>5
    <3>2. s.after + Len(s.before) = 0
      <4>1. Steps[j].after = 0 /\ Len(Steps[j].before) = 0 BY <2>1, <3>1, OneStep
      <4> QED BY <2>1, <4>1
    <3>3. 1 .. s.after + Len(s.before) = {} BY <3>2
    <3> QED BY <3>1, <3>3
  <2> QED BY <2>2, <2>3, <2>4, <2>5
<1>9. CarriedOut' BY <1>6, <1>7, <1>8 DEF CarriedOut, Schema!ToSet
<1> QED BY <1>3, <1>4, <1>5, <1>9

LEMMA TransactionOK ==
    ASSUME StepsFit, UpgradeInv, Schema!Transaction
    PROVE  UpgradeInv'
<1>1. pc = "step" /\ Steps[at].tx /\ ~(Steps[at].v = 72 /\ column) BY DEF Schema!Transaction, Schema!Step
<1>2. /\ at \in DOMAIN Steps /\ at \in Nat /\ Steps[at].v \in Nat /\ version \in Nat /\ sub \in Nat /\ origin \in Nat
      /\ version < Steps[at].v /\ sub <= Len(Steps[at].before)
      /\ Has(Steps[at].v) = Has(version) \cup Schema!Makes(Steps[at])
      /\ Schema!Makes(Steps[at]) \cap Has(version) = {} /\ Steps[at].use \subseteq Has(version)
  BY <1>1, AtStep
<1>3. /\ Len(Steps[at].before) = 0 /\ Schema!Makes(Steps[at]) = Steps[at].make /\ Steps[at].v # 77
      /\ Steps[at].after \in {0, 1}
  BY <1>1, <1>2, OneStep
<1>4. sub = 0 BY <1>2, <1>3
<1>5. tables = Has(version)
  <2>1. {Steps[at].before[i] : i \in 1 .. sub} \ {Schema!Set} = {} BY <1>4
  <2>2. tables = Has(version) \cup ({Steps[at].before[i] : i \in 1 .. sub} \ {Schema!Set})
    BY <1>1, <1>2 DEF UpgradeInv, TablesMade
  <2> QED BY <2>1, <2>2
<1>6. ~(Steps[at].v <= version \/ ~(Steps[at].use \subseteq tables) \/ Steps[at].make \cap tables # {})
  BY <1>2, <1>3, <1>5
<1>7. /\ version' = Steps[at].v /\ tables' = tables \cup Steps[at].make /\ column' = (column \/ Steps[at].v = 72)
      /\ ran' = ran \cup {Steps[at].v} /\ again' = (again \/ Steps[at].v \in ran)
      /\ IF Steps[at].after > 0 THEN pc' = "after" /\ UNCHANGED <<at, sub>> ELSE Schema!Advance
      /\ UNCHANGED <<dbversion, recode, loose, origin, stops>>
  BY <1>6 DEF Schema!Transaction, Schema!Step
<1>8. recode' = (recode \/ Steps[at].v = 77)
  <2>1. recode \in BOOLEAN BY DEF UpgradeInv, UpgradeTypes
  <2> QED BY <1>3, <1>7, <2>1
<1>9. tables' = Has(Steps[at].v) BY <1>2, <1>3, <1>5, <1>7
<1>10. /\ at' \in Nat /\ sub' \in Nat /\ pc' \in {"step", "after", "end"} /\ (pc' = "step" => sub' = 0) /\ Placed'
       /\ Steps[at].after > 0 => pc' = "after"
  <2>1. CASE Steps[at].after > 0
    <3>1. pc' = "after" /\ at' = at /\ sub' = sub /\ version' = Steps[at].v /\ dbversion' = dbversion BY <1>7, <2>1
    <3>2. Placed /\ dbversion < Steps[at].v /\ dbversion \in Nat
      BY <1>1 DEF UpgradeInv, UpgradeTypes, Placed
    <3>3. \A j \in DOMAIN Steps : /\ j < at => Steps[j].v <= version' \/ (Steps[j].v = 72 /\ column')
                                  /\ at < j => version' < Steps[j].v
      <4> TAKE j \in DOMAIN Steps
      <4>1. Steps[j].v \in Nat /\ (at < j => Steps[at].v < Steps[j].v) BY <1>2, StepFacts
      <4>2. j < at => Steps[j].v <= version \/ (Steps[j].v = 72 /\ column) BY <1>1, AtStep
      <4>3. (column => column') /\ version' = Steps[at].v BY <1>7
      <4>4. j < at => Steps[j].v <= version' \/ (Steps[j].v = 72 /\ column') BY <1>2, <4>1, <4>2, <4>3
      <4> QED BY <4>1, <4>3, <4>4
    <3>4. Placed' BY <1>2, <2>1, <3>1, <3>2, <3>3 DEF Placed, Running
    <3> QED BY <1>2, <3>1, <3>4
  <2>2. CASE ~(Steps[at].after > 0)
    <3>1. Schema!Advance /\ dbversion' = dbversion /\ (column => column') /\ version' = Steps[at].v BY <1>7, <2>2
    <3>2. at' = at + 1 /\ sub' = 0 /\ pc' \in {"step", "end"} /\ Placed' BY <1>1, <3>1, Moved
    <3> QED BY <1>2, <2>2, <3>2
  <2> QED BY <2>1, <2>2
<1>11. \A k \in 1 .. Steps[at].after + Len(Steps[at].before) : <<Steps[at].v, k>> \in loose \/ pc' = "after"
  <2>1. CASE Steps[at].after = 0
    <3>1. 1 .. Steps[at].after + Len(Steps[at].before) = {} BY <1>3, <2>1
    <3> QED BY <3>1
  <2>2. CASE Steps[at].after = 1 BY <1>10, <2>2
  <2> QED BY <1>3, <2>1, <2>2
<1>12. Founded' /\ TablesMade' /\ ColumnMade' /\ CarriedOut'
  <2>1. loose' = loose /\ origin' = origin BY <1>7
  <2> QED BY <1>1, <1>7, <1>8, <1>9, <1>10, <1>11, <2>1, VersionWritten
<1>13. UpgradeTypes'
  <2>1. version' \in Int /\ version' >= -1 /\ dbversion' \in Nat /\ origin' \in Nat
    BY <1>2, <1>7 DEF UpgradeInv, UpgradeTypes
  <2>2. column' \in BOOLEAN /\ again' \in BOOLEAN BY <1>7
  <2>3. recode' \in BOOLEAN BY <1>7 DEF UpgradeInv, UpgradeTypes
  <2>4. ran' \subseteq Nat BY <1>2, <1>7 DEF UpgradeInv, UpgradeTypes
  <2> QED BY <1>10, <2>1, <2>2, <2>3, <2>4 DEF UpgradeTypes
<1> QED BY <1>10, <1>12, <1>13 DEF UpgradeInv

LEMMA ColumnExistsOK ==
    ASSUME StepsFit, UpgradeInv, Schema!ColumnExists
    PROVE  UpgradeInv'
<1>1. /\ pc = "step" /\ Steps[at].v = 72 /\ column /\ Schema!Advance
      /\ UNCHANGED <<version, tables, column, dbversion, recode, ran, again, loose, origin, stops>>
  BY DEF Schema!ColumnExists, Schema!Step
<1>2. at \in DOMAIN Steps /\ at \in Nat /\ version \in Nat /\ sub \in Nat /\ version < Steps[at].v
      /\ sub <= Len(Steps[at].before)
  BY <1>1, AtStep
<1>3. Len(Steps[at].before) = 0 BY <1>1, <1>2, OneStep
<1>4. at' = at + 1 /\ sub' = 0 /\ pc' \in {"step", "end"} /\ Placed'
  <2>1. dbversion' = dbversion /\ column' /\ version' = version BY <1>1
  <2> QED BY <1>1, <1>2, <2>1, Moved
<1>5. UpgradeTypes'
  <2>1. at' \in Nat /\ sub' \in Nat BY <1>2, <1>4
  <2> QED BY <1>1, <1>4, <2>1 DEF UpgradeInv, UpgradeTypes
<1>6. Founded' BY <1>1, <1>2 DEF UpgradeInv, Founded
<1>7. TablesMade'
  <2>1. {Steps[at].before[i] : i \in 1 .. sub} \ {Schema!Set} = {} BY <1>2, <1>3
  <2>6. tables = Has(version) \cup ({Steps[at].before[i] : i \in 1 .. sub} \ {Schema!Set})
    BY <1>1, <1>2 DEF UpgradeInv, TablesMade
  <2>2. tables = Has(version) BY <2>1, <2>6
  <2>3. {Steps[at'].before[i] : i \in 1 .. 0} \ {Schema!Set} = {} OBVIOUS
  <2>4. {Steps[at'].before[i] : i \in 1 .. sub'} \ {Schema!Set} = {} BY <1>4, <2>3
  <2>5. tables' = Has(version') BY <1>1, <2>2
  <2> QED BY <2>4, <2>5 DEF TablesMade, Has, Schema!Set, Schema!TablesAt, Schema!MadeBetween, Schema!Makes
<1>8. ColumnMade' BY <1>1 DEF UpgradeInv, ColumnMade
<1>9. CarriedOut'
  <2>1. 1 .. sub' = {} BY <1>4
  <2>2. CarriedOut BY DEF UpgradeInv
  <2> QED BY <1>1, <1>4, <2>1, <2>2 DEF CarriedOut, Schema!ToSet
<1> QED BY <1>4, <1>5, <1>6, <1>7, <1>8, <1>9 DEF UpgradeInv

LEMMA StatementOK ==
    ASSUME StepsFit, UpgradeInv, Schema!Statement
    PROVE  UpgradeInv'
<1>1. pc = "step" /\ ~Steps[at].tx /\ sub < Len(Steps[at].before) BY DEF Schema!Statement, Schema!Step
<1>2. /\ at \in DOMAIN Steps /\ at \in Nat /\ version \in Nat /\ sub \in Nat /\ version < Steps[at].v
      /\ Steps[at].v \in Nat /\ Schema!Makes(Steps[at]) \cap Has(version) = {}
  BY <1>1, AtStep
<1>3. PICK b : b = Steps[at].before OBVIOUS
<1>4. /\ Len(b) \in Nat /\ Schema!Makes(Steps[at]) = {b[k] : k \in 1 .. Len(b)} \ {Schema!Set}
      /\ \A k, n \in 1 .. Len(b) : b[k] = b[n] => k = n \/ b[k] = Schema!Set
  BY <1>1, <1>2, <1>3, OneStep
<1>5. sub + 1 \in 1 .. Len(b) /\ (\A k \in 1 .. sub : k \in 1 .. Len(b) /\ k # sub + 1)
  BY <1>1, <1>2, <1>3, <1>4
<1>6. tables = Has(version) \cup ({b[i] : i \in 1 .. sub} \ {Schema!Set})
  BY <1>1, <1>2, <1>3 DEF UpgradeInv, TablesMade
<1>7. b[sub + 1] \notin tables
  <2>1. CASE b[sub + 1] = Schema!Set
    <3>1. Schema!Set \notin Schema!TablesAt(Latest) BY DEF StepsFit, Schema!WellFormed, Schema!TablesFit
    <3>2. Schema!Set \notin Has(version) BY <3>1 DEF Has
    <3> QED BY <1>6, <2>1, <3>2
  <2>2. CASE b[sub + 1] # Schema!Set
    <3>1. b[sub + 1] \in Schema!Makes(Steps[at]) BY <1>4, <1>5, <2>2
    <3>2. b[sub + 1] \notin Has(version) BY <1>2, <3>1
    <3>3. \A i \in 1 .. sub : b[i] # b[sub + 1] BY <1>4, <1>5, <2>2
    <3> QED BY <1>6, <3>2, <3>3
  <2> QED BY <2>1, <2>2
<1>8. /\ tables' = tables \cup ({b[sub + 1]} \ {Schema!Set})
      /\ sub' = sub + 1 /\ loose' = loose \cup {<<Steps[at].v, sub + 1>>}
      /\ UNCHANGED <<version, column, pc, dbversion, at, recode, ran, again, origin, stops>>
  BY <1>3, <1>7 DEF Schema!Statement, Schema!Step
<1>9. UpgradeTypes'
  <2>1. sub' \in Nat BY <1>2, <1>8
  <2> QED BY <1>8, <2>1 DEF UpgradeInv, UpgradeTypes
<1>10. Founded' BY <1>8 DEF UpgradeInv, Founded
<1>11. Placed'
  <2>1. sub' <= Len(Steps[at'].before) BY <1>1, <1>2, <1>3, <1>4, <1>8
  <2> QED BY <1>8, <2>1 DEF UpgradeInv, Placed, Running
<1>12. TablesMade'
  <2>1. 1 .. sub' = (1 .. sub) \cup {sub + 1} BY <1>2, <1>8
  <2>2. tables' = Has(version) \cup ({b[i] : i \in 1 .. sub'} \ {Schema!Set}) BY <1>6, <1>8, <2>1
  <2>3. b = Steps[at'].before /\ pc' = "step" /\ version' = version BY <1>1, <1>3, <1>8
  <2> QED BY <2>2, <2>3 DEF TablesMade, Has, Schema!Set, Schema!TablesAt, Schema!MadeBetween, Schema!Makes
<1>13. ColumnMade' BY <1>8 DEF UpgradeInv, ColumnMade
<1>14. CarriedOut'
  <2>1. CarriedOut BY DEF UpgradeInv
  <2>2. \A k \in 1 .. sub' : <<Steps[at'].v, k>> \in loose'
    <3>1. \A k \in 1 .. sub' : k \in 1 .. sub \/ k = sub + 1 BY <1>2, <1>8
    <3>2. \A k \in 1 .. sub : <<Steps[at].v, k>> \in loose BY <1>1, <2>1 DEF CarriedOut
    <3> QED BY <1>8, <3>1, <3>2
  <2>3. loose \subseteq loose' BY <1>8
  <2> QED BY <1>1, <1>8, <2>1, <2>2, <2>3 DEF CarriedOut, Schema!ToSet
<1> QED BY <1>9, <1>10, <1>11, <1>12, <1>13, <1>14 DEF UpgradeInv

LEMMA SetDbVersionOK ==
    ASSUME StepsFit, UpgradeInv, Schema!SetDbVersion
    PROVE  UpgradeInv'
<1>1. /\ pc = "step" /\ ~Steps[at].tx /\ sub = Len(Steps[at].before)
      /\ version' = Steps[at].v /\ recode' = (recode \/ Steps[at].v = 77)
      /\ ran' = ran \cup {Steps[at].v} /\ again' = (again \/ Steps[at].v \in ran) /\ Schema!Advance
      /\ UNCHANGED <<tables, column, dbversion, loose, origin, stops>>
  BY DEF Schema!SetDbVersion, Schema!Step
<1>2. /\ at \in DOMAIN Steps /\ at \in Nat /\ Steps[at].v \in Nat /\ version \in Nat /\ sub \in Nat /\ origin \in Nat
      /\ Has(Steps[at].v) = Has(version) \cup Schema!Makes(Steps[at])
  BY <1>1, AtStep
<1>3. /\ Steps[at].after = 0 /\ Steps[at].v # 72 /\ Len(Steps[at].before) \in Nat
      /\ Schema!Makes(Steps[at]) = {Steps[at].before[k] : k \in 1 .. Len(Steps[at].before)} \ {Schema!Set}
  BY <1>1, <1>2, OneStep
<1>4. column' = (column \/ Steps[at].v = 72)
  <2>1. column \in BOOLEAN BY DEF UpgradeInv, UpgradeTypes
  <2> QED BY <1>1, <1>3, <2>1
<1>5. tables' = Has(Steps[at].v)
  <2>1. tables = Has(version) \cup ({Steps[at].before[i] : i \in 1 .. sub} \ {Schema!Set})
    BY <1>1, <1>2 DEF UpgradeInv, TablesMade
  <2> QED BY <1>1, <1>2, <1>3, <2>1
<1>6. at' = at + 1 /\ sub' = 0 /\ pc' \in {"step", "end"} /\ Placed'
  <2>1. dbversion' = dbversion /\ (column => column') BY <1>1
  <2> QED BY <1>1, <2>1, Moved
<1>7. \A k \in 1 .. Steps[at].after + Len(Steps[at].before) : <<Steps[at].v, k>> \in loose
  <2>1. Steps[at].after + Len(Steps[at].before) = sub BY <1>1, <1>2, <1>3
  <2> QED BY <1>1, <2>1 DEF UpgradeInv, CarriedOut
<1>8. Founded' /\ TablesMade' /\ ColumnMade' /\ CarriedOut'
  <2>1. loose' = loose /\ origin' = origin BY <1>1
  <2>2. pc' \in {"step", "after", "end"} BY <1>6
  <2> QED BY <1>1, <1>4, <1>5, <1>6, <1>7, <2>1, <2>2, VersionWritten
<1>9. UpgradeTypes'
  <2>1. version' \in Int /\ version' >= -1 /\ dbversion' \in Nat /\ origin' \in Nat /\ at' \in Nat /\ sub' \in Nat
    BY <1>1, <1>2, <1>6 DEF UpgradeInv, UpgradeTypes
  <2>2. recode' \in BOOLEAN /\ again' \in BOOLEAN BY <1>1
  <2>3. column' \in BOOLEAN BY <1>1 DEF UpgradeInv, UpgradeTypes
  <2>4. ran' \subseteq Nat BY <1>1, <1>2 DEF UpgradeInv, UpgradeTypes
  <2>5. pc' \in {"closed", "step", "after", "end", "open"} BY <1>6
  <2> QED BY <2>1, <2>2, <2>3, <2>4, <2>5 DEF UpgradeTypes
<1> QED BY <1>6, <1>8, <1>9 DEF UpgradeInv

LEMMA AfterOK ==
    ASSUME StepsFit, UpgradeInv, Schema!After
    PROVE  UpgradeInv'
<1>1. /\ pc = "after" /\ loose' = loose \cup {<<Steps[at].v, 1>>} /\ Schema!Advance
      /\ UNCHANGED <<version, tables, column, dbversion, recode, ran, again, origin, stops>>
  BY DEF Schema!After, Schema!Step
<1>2. at \in DOMAIN Steps /\ at \in Nat /\ version \in Nat /\ Steps[at].v \in Nat BY <1>1, AtStep
<1>3. version = Steps[at].v /\ Steps[at].after > 0 BY <1>1 DEF UpgradeInv, Placed
<1>4. Steps[at].after = 1 /\ Len(Steps[at].before) = 0 BY <1>2, <1>3, OneStep
<1>5. at' = at + 1 /\ sub' = 0 /\ pc' \in {"step", "end"} /\ Placed'
  <2>1. dbversion' = dbversion /\ (column => column') /\ version' = Steps[at].v BY <1>1, <1>3
  <2> QED BY <1>1, <2>1, Moved
<1>6. UpgradeTypes'
  <2>1. at' \in Nat /\ sub' \in Nat BY <1>2, <1>5
  <2> QED BY <1>1, <1>5, <2>1 DEF UpgradeInv, UpgradeTypes
<1>7. Founded' BY <1>1, <1>2 DEF UpgradeInv, Founded
<1>8. TablesMade'
  <2>1. tables = Has(version) BY <1>1, <1>2 DEF UpgradeInv, TablesMade
  <2>2. {Steps[at'].before[i] : i \in 1 .. 0} \ {Schema!Set} = {} OBVIOUS
  <2>3. {Steps[at'].before[i] : i \in 1 .. sub'} \ {Schema!Set} = {} BY <1>5, <2>2
  <2>4. tables' = Has(version') BY <1>1, <2>1
  <2> QED BY <2>3, <2>4 DEF TablesMade, Has, Schema!Set, Schema!TablesAt, Schema!MadeBetween, Schema!Makes
<1>9. ColumnMade' BY <1>1 DEF UpgradeInv, ColumnMade
<1>10. CarriedOut'
  <2>1. CarriedOut BY DEF UpgradeInv
  <2>2. \A k \in 1 .. sub' : <<Steps[at'].v, k>> \in loose'
    <3>1. 1 .. sub' = {} BY <1>5
    <3> QED BY <3>1
  <2>3. ASSUME NEW s \in Schema!ToSet(Steps), origin < s.v, s.v <= version
        PROVE  /\ s.v \in ran' \/ s.v = 72
               /\ s.v # 77 => \A k \in 1 .. s.after + Len(s.before) :
                    <<s.v, k>> \in loose' \/ (pc' = "after" /\ s.v = version')
               /\ s.v = 77 => <<77, 1>> \in loose' \/ (recode' /\ pc' \in {"step", "after", "end"})
    <3>1. /\ s.v \in ran \/ s.v = 72
          /\ s.v # 77 => \A k \in 1 .. s.after + Len(s.before) : <<s.v, k>> \in loose \/ s.v = version
          /\ s.v = 77 => <<77, 1>> \in loose \/ recode
      BY <2>1, <2>3 DEF CarriedOut
    <3>2. ASSUME s.v = version, NEW k \in 1 .. s.after + Len(s.before) PROVE <<s.v, k>> \in loose'
      <4>1. PICK j \in DOMAIN Steps : s = Steps[j] BY StepFacts
      <4>2. ~(j < at) /\ ~(at < j)
        <5>1. /\ (j < at => Steps[j].v < Steps[at].v) /\ (at < j => Steps[at].v < Steps[j].v)
          BY <1>2, <4>1, StepFacts
        <5> QED BY <1>2, <1>3, <3>2, <4>1, <5>1
      <4>3. j \in Nat BY <4>1, StepFacts
      <4>4. j = at BY <1>2, <4>2, <4>3
      <4>5. k = 1 BY <1>4, <3>2, <4>1, <4>4
      <4> QED BY <1>1, <4>1, <4>4, <4>5
    <3>3. s.v # 77 => \A k \in 1 .. s.after + Len(s.before) : <<s.v, k>> \in loose' BY <1>1, <3>1, <3>2
    <3> QED BY <1>1, <1>5, <3>1, <3>3
  <2>4. ~again' /\ \A v \in ran' : v <= version' BY <1>1, <2>1 DEF CarriedOut
  <2> QED BY <1>1, <2>2, <2>3, <2>4 DEF CarriedOut, Schema!ToSet
<1> QED BY <1>5, <1>6, <1>7, <1>8, <1>9, <1>10 DEF UpgradeInv

LEMMA FinishOK ==
    ASSUME StepsFit, UpgradeInv, Schema!Finish
    PROVE  UpgradeInv'
<1>1. /\ pc = "end" /\ pc' = "open" /\ recode' = FALSE
      /\ loose' = IF recode THEN loose \cup {<<77, 1>>} ELSE loose
      /\ UNCHANGED <<version, tables, column, dbversion, at, sub, ran, again, origin, stops>>
  BY DEF Schema!Finish
<1>2. UpgradeTypes' BY <1>1 DEF UpgradeInv, UpgradeTypes
<1>3. Founded' BY <1>1 DEF UpgradeInv, Founded
<1>4. Placed' BY <1>1 DEF UpgradeInv, Placed, Running
<1>5. TablesMade'
  <2>1. version >= 0 => tables = Has(version) BY <1>1 DEF UpgradeInv, TablesMade
  <2> QED BY <1>1, <2>1 DEF TablesMade, Has, Schema!Set, Schema!TablesAt, Schema!MadeBetween, Schema!Makes
<1>6. ColumnMade' BY <1>1 DEF UpgradeInv, ColumnMade
<1>7. CarriedOut'
  <2>1. CarriedOut BY DEF UpgradeInv
  <2>2. loose \subseteq loose' /\ (recode => <<77, 1>> \in loose') BY <1>1
  <2> QED BY <1>1, <2>1, <2>2 DEF CarriedOut, Schema!ToSet
<1> QED BY <1>2, <1>3, <1>4, <1>5, <1>6, <1>7 DEF UpgradeInv

LEMMA StopOK ==
    ASSUME StepsFit, UpgradeInv, Schema!Stop
    PROVE  UpgradeInv'
<1>1. /\ pc \in {"step", "after", "end", "open"} /\ pc' = "closed"
      /\ pc = "after" \/ (pc = "step" /\ sub > 0) => Steps[at].v \notin Undisturbed
      /\ recode => 77 \notin Undisturbed
      /\ UNCHANGED <<version, tables, column, dbversion, at, sub, recode, ran, again, loose, origin>>
  BY DEF Schema!Stop, Schema!HalfDone, Schema!Step
<1>2. ~recode BY <1>1 DEF StepsFit, Schema!WellFormed, Schema!Spared
<1>3. pc # "after"
  <2> SUFFICES ASSUME pc = "after" PROVE FALSE OBVIOUS
  <2>1. at \in DOMAIN Steps BY AtStep
  <2>2. Steps[at].after > 0 BY DEF UpgradeInv, Placed
  <2>3. Steps[at].v \in Undisturbed BY <2>1, <2>2, OneStep
  <2> QED BY <1>1, <2>3
<1>4. version >= 0 => tables = Has(version)
  <2> SUFFICES ASSUME version >= 0 PROVE tables = Has(version) OBVIOUS
  <2>1. CASE pc # "step" BY <2>1 DEF UpgradeInv, TablesMade
  <2>2. CASE pc = "step"
    <3>1. at \in DOMAIN Steps /\ sub \in Nat /\ sub <= Len(Steps[at].before) BY <2>2, AtStep
    <3>2. tables = Has(version) \cup ({Steps[at].before[i] : i \in 1 .. sub} \ {Schema!Set})
      BY <2>2 DEF UpgradeInv, TablesMade
    <3>3. CASE sub = 0
      <4>1. {Steps[at].before[i] : i \in 1 .. sub} = {} BY <3>3
      <4> QED BY <3>2, <4>1
    <3>4. CASE sub > 0
      <4>1. {Steps[at].before[k] : k \in 1 .. Len(Steps[at].before)} \subseteq {Schema!Set} /\ Len(Steps[at].before) \in Nat
        BY <1>1, <2>2, <3>1, <3>4, OneStep
      <4>2. \A i \in 1 .. sub : i \in 1 .. Len(Steps[at].before) BY <3>1, <4>1
      <4>3. {Steps[at].before[i] : i \in 1 .. sub} \subseteq {Schema!Set} BY <4>1, <4>2
      <4> QED BY <3>2, <4>3
    <3> QED BY <3>1, <3>3, <3>4
  <2> QED BY <2>1, <2>2
<1>5. UpgradeTypes' BY <1>1 DEF UpgradeInv, UpgradeTypes
<1>6. Founded' BY <1>1 DEF UpgradeInv, Founded
<1>7. Placed' BY <1>1 DEF Placed, Running
<1>8. TablesMade' BY <1>1, <1>4 DEF TablesMade, Has, Schema!Set, Schema!TablesAt, Schema!MadeBetween, Schema!Makes
<1>9. ColumnMade' BY <1>1 DEF UpgradeInv, ColumnMade
<1>10. CarriedOut' BY <1>1, <1>2, <1>3 DEF UpgradeInv, CarriedOut, Schema!ToSet
<1> QED BY <1>5, <1>6, <1>7, <1>8, <1>9, <1>10 DEF UpgradeInv

(* An open database of which the invariant holds is upgraded. *)
LEMMA UpgradeInvOK ==
    ASSUME StepsFit, UpgradeInv
    PROVE  Schema!Upgraded
<1>1. pc # "failed" BY DEF UpgradeInv, UpgradeTypes
<1>2. ASSUME pc = "open"
      PROVE  /\ version = Latest /\ tables = Schema!TablesAt(Latest) /\ column /\ ~again
             /\ \A s \in Schema!ToSet(Steps) : s.v > origin =>
                  /\ s.v \in ran \/ s.v = 72
                  /\ \A k \in 1 .. (IF s.v = 77 THEN 1 ELSE s.after + Len(s.before)) : <<s.v, k>> \in loose
  <2>1. /\ Len(Steps) \in Nat /\ Len(Steps) > 0 /\ DOMAIN Steps = 1 .. Len(Steps) /\ Latest \in Nat /\ 72 < Latest
        /\ Latest = Steps[Len(Steps)].v
    BY StepFacts
  <2>2. version \in Nat /\ version <= Latest
    <3>1. version # -1 BY <1>2 DEF UpgradeInv, Founded
    <3>2. version \in Int /\ version >= -1 BY DEF UpgradeInv, UpgradeTypes
    <3>3. version >= 0 BY <3>1, <3>2
    <3> QED BY <3>2, <3>3 DEF UpgradeInv, Founded
  <2>3. Latest <= version
    <3>1. at = Len(Steps) + 1 BY <1>2 DEF UpgradeInv, Placed
    <3>2. \A j \in DOMAIN Steps : j < at => Steps[j].v <= version \/ Steps[j].v = 72
      BY <1>2 DEF UpgradeInv, Placed, Running
    <3>3. Len(Steps) \in DOMAIN Steps /\ Len(Steps) < at BY <2>1, <3>1
    <3> QED BY <2>1, <3>2, <3>3
  <2>4. version = Latest BY <2>1, <2>2, <2>3
  <2>5. tables = Has(Latest) BY <1>2, <2>2, <2>4 DEF UpgradeInv, TablesMade
  <2>6. Schema!TablesAt(Latest) = Has(Latest) BY <2>1, TablesAtHas
  <2>7. column BY <2>1, <2>4 DEF UpgradeInv, ColumnMade
  <2>8. ~again BY DEF UpgradeInv, CarriedOut
  <2>9. ASSUME NEW s \in Schema!ToSet(Steps), s.v > origin
        PROVE  /\ s.v \in ran \/ s.v = 72
               /\ \A k \in 1 .. (IF s.v = 77 THEN 1 ELSE s.after + Len(s.before)) : <<s.v, k>> \in loose
    <3>1. s.v \in Nat /\ s.v <= Latest /\ origin \in Nat BY StepFacts DEF UpgradeInv, UpgradeTypes
    <3>2. origin < s.v /\ s.v <= version BY <2>4, <2>9, <3>1
    <3>3. /\ s.v \in ran \/ s.v = 72
          /\ s.v # 77 => \A k \in 1 .. s.after + Len(s.before) : <<s.v, k>> \in loose
          /\ s.v = 77 => <<77, 1>> \in loose
      BY <1>2, <3>2 DEF UpgradeInv, CarriedOut
    <3>4. CASE s.v = 77
      <4>1. \A k \in 1 .. 1 : k = 1 OBVIOUS
      <4> QED BY <3>3, <3>4, <4>1
    <3>5. CASE s.v # 77 BY <3>3, <3>5
    <3> QED BY <3>4, <3>5
  <2> QED BY <2>4, <2>5, <2>6, <2>7, <2>8, <2>9
<1> QED BY <1>1, <1>2 DEF Schema!Upgraded

(* Whatever version a database comes from, and wherever its upgrades are      *)
(* interrupted, no step fails and an open database has gone through all of    *)
(* them (src/sql/migrations.rs): for any list of steps that makes each table  *)
(* once and before it is used, if the steps that cannot be repeated are not   *)
(* interrupted.                                                               *)
THEOREM UpgradesComplete ==
    ASSUME StepsFit
    PROVE  Schema!Spec => []Schema!Upgraded
<1>1. Schema!Init => UpgradeInv BY UpgradeInit
<1>2. UpgradeInv /\ [Schema!Next]_Schema!vars => UpgradeInv'
  <2> SUFFICES ASSUME UpgradeInv, [Schema!Next]_Schema!vars PROVE UpgradeInv' OBVIOUS
  <2>1. CASE UNCHANGED Schema!vars
    <3>1. UNCHANGED <<version, tables, column, pc, dbversion, at, sub, recode, ran, again, loose, origin>>
      BY <2>1 DEF Schema!vars
    <3>2. UpgradeTypes' /\ Founded' /\ Placed' /\ ColumnMade'
      BY <3>1 DEF UpgradeInv, UpgradeTypes, Founded, Placed, Running, ColumnMade
    <3>3. TablesMade'
      BY <3>1 DEF UpgradeInv, TablesMade, Has, Schema!Set, Schema!TablesAt, Schema!MadeBetween, Schema!Makes
    <3>4. CarriedOut' BY <3>1 DEF UpgradeInv, CarriedOut, Schema!ToSet
    <3> QED BY <3>2, <3>3, <3>4 DEF UpgradeInv
  <2>2. CASE Schema!Create BY <2>2, CreateOK
  <2>3. CASE Schema!Open BY <2>3, OpenOK
  <2>4. CASE Schema!Transaction BY <2>4, TransactionOK
  <2>5. CASE Schema!ColumnExists BY <2>5, ColumnExistsOK
  <2>6. CASE Schema!Statement BY <2>6, StatementOK
  <2>7. CASE Schema!SetDbVersion BY <2>7, SetDbVersionOK
  <2>8. CASE Schema!After BY <2>8, AfterOK
  <2>9. CASE Schema!Finish BY <2>9, FinishOK
  <2>10. CASE Schema!Stop BY <2>10, StopOK
  <2> QED BY <2>1, <2>2, <2>3, <2>4, <2>5, <2>6, <2>7, <2>8, <2>9, <2>10 DEF Schema!Next
<1>3. UpgradeInv => Schema!Upgraded BY UpgradeInvOK
<1> QED BY <1>1, <1>2, <1>3, PTL DEF Schema!Spec
=============================================================================
