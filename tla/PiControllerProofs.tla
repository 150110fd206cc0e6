------------------------- MODULE PiControllerProofs -------------------------
(***************************************************************************)
(* Theorems about the Pi controller, for any controllers, issues, TTL,      *)
(* margin and heartbeat periods, and any number of tenures, attempts and    *)
(* abandoned requests.                                                      *)
(***************************************************************************)
EXTENDS PiController, LeaseAuthorityProofs

\* Fields that no method leaves otherwise: a tenure has a claim.
Sound(k) == k \in Controller /\ FieldsOK(k) /\ (Has(k) => k.active.claim # NoClaim)

\* What the private methods make of the fields k: the tenure is dropped or its
\* deadline moves earlier, and nothing is retained or forgotten.
Restricts(k, j) ==
    /\ Sound(j)
    /\ \/ j.active = NoTenure
       \/ /\ Has(k) /\ Has(j)
          /\ j.active.issue = k.active.issue /\ j.active.holder = k.active.holder
          /\ j.active.claim = k.active.claim /\ j.active.left <= k.active.left
    /\ j.pclaim = k.pclaim /\ j.pclose = k.pclose /\ j.pcheckout = k.pcheckout
    /\ j.mode = "stopped" <=> k.mode = "stopped"

\* ... and an open gate keeps a heartbeat.
Follows(k, j) == Restricts(k, j) /\ (Beating(k) => Beating(j))

\* Everything the invariant says of one controller.
OwnOK(k, r, m) ==
    /\ k \in Controller /\ r \in [Slots -> Request]
    /\ FieldsOK(k) /\ Covered(k) /\ OperationOK(k, r[0]) /\ AnswerOK(r[0])
    /\ RequestsOK(k, r, m)

\* What the action properties say of a step of one controller from k to j, s.
Moves(k, j, s) ==
    /\ (Has(k) /\ k.active.left = 0) => j.active \in {NoTenure, k.active}
    /\ s[0].retry => Retained(j) \subseteq Retained(k)

Proper == \A x \in Controllers : Moves(ctl[x], ctl'[x], req'[x])

-----------------------------------------------------------------------------
(* Types.                                                                    *)

\* The empty records have their types.
LEMMA NullTypes ==
    /\ NoTenure \in Tenure /\ NoPendingClaim \in PendingClaim
    /\ NoPendingClose \in PendingClose /\ NewController \in Controller
    /\ NoRequest \in Request /\ NotCaptured \in Captured
  <1> USE AuthorityAssumption, ControllerAssumption
  <1>1. NoTenure \in Tenure
    BY DEF NoTenure, Tenure, NoHolder, NoClaim
  <1>2. NoPendingClaim \in PendingClaim
    BY DEF NoPendingClaim, PendingClaim
  <1>3. NoPendingClose \in PendingClose
    BY DEF NoPendingClose, PendingClose, NoHolder, NoClaim
  <1>4. Off \in 0..Off /\ 0 \in 0..MaxBeats
    BY DEF Off
  <1>8. NotCaptured \in Captured
    BY DEF NotCaptured, Captured
  <1>5. NewController \in Controller
    BY <1>1, <1>2, <1>3, <1>4, <1>8 DEF NewController, Controller
  <1>6. 0 \in 0..TTL
    OBVIOUS
  <1>7. NoRequest \in Request
    BY <1>6 DEF NoRequest, Request, NoHolder, NoClaim
  <1> QED BY <1>1, <1>2, <1>3, <1>5, <1>7, <1>8

\* Subtraction with a floor, and the smaller of two, stay within a bound.
LEMMA Arithmetic ==
    /\ \A x \in 0..TTL, y \in Nat : Monus(x, y) \in 0..TTL /\ Monus(x, y) <= x
    /\ \A x, y \in Nat : /\ Smaller(x, y) \in Nat /\ Smaller(x, y) <= x /\ Smaller(x, y) <= y
                         /\ Smaller(x, y) \in {x, y}
  BY AuthorityAssumption DEF Monus, Smaller

\* The fields of a controller have their types.
LEMMA FieldTypes ==
    ASSUME NEW k \in Controller
    PROVE  /\ k.active \in Tenure /\ k.active.left \in 0..TTL /\ k.active.left \in Nat
           /\ k.active.claim \in Nat /\ k.active.holder \in Nat
           /\ k.active.issue \in Issues \cup {NoIssue}
           /\ k.pclaim \in PendingClaim /\ k.pclose \in PendingClose
           /\ k.pclaim.id \in Nat /\ k.pclose.holder \in Nat /\ k.pclose.claim \in Nat
           /\ k.pclose.id \in Nat /\ k.pcheckout \in Nat
           /\ k.pclaim.issue \in Issues \cup {NoIssue}
           /\ k.pclose.issue \in Issues \cup {NoIssue}
           /\ k.timer \in 0..Off /\ k.beats \in 0..MaxBeats /\ k.retry \in Captured
           /\ k.bound \in Issues \cup {NoIssue}
  <1>1. k.active \in Tenure /\ k.pclaim \in PendingClaim /\ k.pclose \in PendingClose
    BY DEF Controller
  <1>2. /\ k.pcheckout \in Nat /\ k.timer \in 0..Off /\ k.beats \in 0..MaxBeats
        /\ k.retry \in Captured /\ k.bound \in Issues \cup {NoIssue}
    BY DEF Controller
  <1>3. /\ k.active.left \in 0..TTL /\ k.active.claim \in Nat /\ k.active.holder \in Nat
        /\ k.active.issue \in Issues \cup {NoIssue}
    BY <1>1 DEF Tenure
  <1>4. k.active.left \in Nat
    BY <1>3, AuthorityAssumption
  <1>5. k.pclaim.id \in Nat /\ k.pclaim.issue \in Issues \cup {NoIssue}
    BY <1>1 DEF PendingClaim
  <1>6. /\ k.pclose.holder \in Nat /\ k.pclose.claim \in Nat /\ k.pclose.id \in Nat
        /\ k.pclose.issue \in Issues \cup {NoIssue}
    BY <1>1 DEF PendingClose
  <1> QED BY <1>1, <1>2, <1>3, <1>4, <1>5, <1>6

-----------------------------------------------------------------------------
(* The private methods.                                                      *)

\* Steps of methods add up.
LEMMA FollowsTransitive ==
    ASSUME NEW k, NEW j, NEW n, Sound(k), Follows(k, j), Follows(j, n)
    PROVE  Follows(k, n)
  <1>1. k.active.left \in Nat /\ j.active.left \in Nat /\ n.active.left \in Nat
    BY FieldTypes DEF Follows, Restricts, Sound
  <1> QED BY <1>1 DEF Follows, Restricts, Has

\* #stop keeps the tenure and shuts the gate.
LEMMA StoppedFollows ==
    ASSUME NEW k, Sound(k)
    PROVE  /\ Follows(k, Stopped(k)) /\ Stopped(k).mode # "live"
           /\ Stopped(k).active = k.active
  <1>1. k \in Controller /\ k.active.left \in Nat
    BY FieldTypes DEF Sound
  <1>2. CASE k.mode = "stopped"
    BY <1>1, <1>2 DEF Stopped, Follows, Restricts, Sound, Has
  <1>3. CASE k.mode # "stopped"
    <2> DEFINE j == [k EXCEPT !.mode = "stop-editing", !.timer = Off]
    <2>1. /\ j \in Controller /\ j.mode = "stop-editing" /\ j.active = k.active
          /\ j.pclaim = k.pclaim /\ j.pclose = k.pclose /\ j.pcheckout = k.pcheckout
          /\ j.bound = k.bound /\ j.beats = k.beats /\ j.retry = k.retry
      <3>1. Off \in 0..Off
        BY AuthorityAssumption DEF Off
      <3> QED BY <1>1, <3>1 DEF Controller
    <2>2. Stopped(k) = j
      BY <1>3 DEF Stopped
    <2> HIDE DEF j
    <2>3. Sound(j)
      BY <2>1 DEF Sound, FieldsOK, Has
    <2> QED BY <1>1, <1>3, <2>1, <2>2, <2>3 DEF Follows, Restricts, Beating, Has
  <1> QED BY <1>2, <1>3

\* #stop with lost = true drops the tenure and shuts the gate.
LEMMA LostFollows ==
    ASSUME NEW k, Sound(k)
    PROVE  Follows(k, Lost(k)) /\ Lost(k).mode # "live" /\ ~Has(Lost(k))
  <1>1. k \in Controller /\ k.active.left \in Nat
    BY FieldTypes DEF Sound
  <1>2. CASE k.mode = "stopped"
    BY <1>1, <1>2 DEF Lost, Follows, Restricts, Sound, Has, FieldsOK
  <1>3. CASE k.mode # "stopped"
    <2> DEFINE j == [Stopped(k) EXCEPT !.active = NoTenure]
    <2>1. Follows(k, Stopped(k)) /\ Stopped(k).mode # "live"
      BY StoppedFollows
    <2>2. /\ j \in Controller /\ j.mode = Stopped(k).mode /\ j.active = NoTenure
          /\ j.pclaim = k.pclaim /\ j.pclose = k.pclose /\ j.pcheckout = k.pcheckout
      BY <2>1, NullTypes DEF Controller, Follows, Restricts, Sound
    <2>3. Lost(k) = j
      BY <1>3 DEF Lost
    <2> HIDE DEF j
    <2>4. Sound(j)
      BY <2>1, <2>2 DEF Sound, FieldsOK, Has, Follows, Restricts
    <2> QED BY <1>1, <1>3, <2>1, <2>2, <2>3, <2>4 DEF Follows, Restricts, Beating, Has
  <1> QED BY <1>2, <1>3

\* #checkExpiry drops a tenure whose deadline has passed.
LEMMA UnlapsedFollows ==
    ASSUME NEW k, Sound(k)
    PROVE  /\ Follows(k, Unlapsed(k))
           /\ Unlapsed(k) = k \/ (Unlapsed(k).mode # "live" /\ ~Has(Unlapsed(k)))
           /\ Has(Unlapsed(k)) => Unlapsed(k) = k /\ k.active.left > 0
  <1>1. k.active.left \in Nat
    BY FieldTypes DEF Sound
  <1>2. CASE Has(k) /\ k.active.left = 0
    BY <1>2, LostFollows DEF Unlapsed
  <1>3. CASE ~(Has(k) /\ k.active.left = 0)
    BY <1>1, <1>3 DEF Unlapsed, Follows, Restricts, Sound, Has
  <1> QED BY <1>2, <1>3

\* #schedule: an open gate has a heartbeat afterwards.
LEMMA ScheduledFollows ==
    ASSUME NEW k, Sound(k), NEW d \in 1..TTL
    PROVE  Follows(k, Scheduled(k, d)) /\ Beating(Scheduled(k, d))
  <1> DEFINE off == [k EXCEPT !.timer = Off]
             on == [k EXCEPT !.timer = Smaller(d, k.active.left)]
  <1>1. k \in Controller /\ k.active.left \in 0..TTL /\ k.active.left \in Nat
    BY FieldTypes DEF Sound
  <1>2. ASSUME NEW x \in 0..Off
        PROVE  LET j == [k EXCEPT !.timer = x] IN
               /\ Sound(j) /\ j.timer = x /\ j.mode = k.mode /\ j.active = k.active
               /\ (Beating(k) => Beating(j)) => Follows(k, j)
    <2> DEFINE j == [k EXCEPT !.timer = x]
    <2>1. /\ j \in Controller /\ j.timer = x /\ j.mode = k.mode /\ j.active = k.active
          /\ j.pclaim = k.pclaim /\ j.pclose = k.pclose /\ j.pcheckout = k.pcheckout
          /\ j.bound = k.bound /\ j.beats = k.beats /\ j.retry = k.retry
      BY <1>1 DEF Controller
    <2> HIDE DEF j
    <2>2. Sound(j)
      BY <2>1 DEF Sound, FieldsOK, Has
    <2>3. (Beating(k) => Beating(j)) => Follows(k, j)
      BY <1>1, <2>1, <2>2 DEF Follows, Restricts, Has
    <2> QED BY <2>1, <2>2, <2>3 DEF j
  <1>3. Off \in 0..Off
    BY AuthorityAssumption DEF Off
  <1>4. CASE ~Has(k) \/ k.pclose # NoPendingClose \/ k.mode = "stopped"
    <2>1. Scheduled(k, d) = off /\ k.mode # "live"
      BY <1>4 DEF Scheduled, Sound, FieldsOK
    <2>2. Beating(off)
      BY <1>2, <1>3, <2>1 DEF Beating
    <2> QED BY <1>2, <1>3, <2>1, <2>2
  <1>5. CASE ~(~Has(k) \/ k.pclose # NoPendingClose \/ k.mode = "stopped") /\ k.active.left = 0
    <2>1. Scheduled(k, d) = Unlapsed(off)
      BY <1>5 DEF Scheduled
    <2>2. Unlapsed(off) = Lost(off)
      BY <1>2, <1>3, <1>5 DEF Unlapsed, Has
    <2>3. Sound(off)
      BY <1>2, <1>3
    <2>4. Follows(off, Lost(off)) /\ Lost(off).mode # "live" /\ ~Has(Lost(off))
      BY <2>3, LostFollows
    <2>5. Beating(Lost(off))
      BY <2>4 DEF Beating
    <2>6. /\ off.pclaim = k.pclaim /\ off.pclose = k.pclose /\ off.pcheckout = k.pcheckout
          /\ off.bound = k.bound /\ off.beats = k.beats /\ off.retry = k.retry
          /\ off.mode = k.mode
      BY <1>1 DEF Controller
    <2> HIDE DEF off
    <2>7. Follows(k, Lost(off))
      BY <2>4, <2>5, <2>6 DEF Follows, Restricts, Has
    <2> QED BY <2>1, <2>2, <2>5, <2>7
  <1>6. CASE ~(~Has(k) \/ k.pclose # NoPendingClose \/ k.mode = "stopped") /\ k.active.left # 0
    <2>1. Scheduled(k, d) = on
      BY <1>6 DEF Scheduled
    <2>2. Smaller(d, k.active.left) \in 0..Off /\ Smaller(d, k.active.left) # Off
      BY <1>1, AuthorityAssumption DEF Off, Smaller
    <2>3. on.timer # Off
      BY <1>2, <2>2
    <2>4. Beating(on)
      BY <2>3 DEF Beating
    <2> QED BY <1>2, <2>1, <2>2, <2>4
  <1> QED BY <1>4, <1>5, <1>6

\* The time an answer grants is within the ttl and never more than its lease.
LEMMA AnswerTime ==
    ASSUME NEW q \in Request
    PROVE  /\ AnswerLeft(q) \in 0..TTL /\ Monus(q.span, q.age) \in 0..TTL
           /\ AnswerLeft(q) <= Monus(q.span, q.age)
  <1> USE AuthorityAssumption, ControllerAssumption
  <1>1. q.span \in 0..TTL /\ q.age \in 0..TTL
    BY DEF Request
  <1> QED BY <1>1 DEF AnswerLeft, Smaller, Monus

\* The deadline only moves earlier.
LEMMA SoonerFollows ==
    ASSUME NEW k, Sound(k), Has(k), NEW q \in Request
    PROVE  Follows(k, Sooner(k, q))
  <1> DEFINE x == Smaller(k.active.left, AnswerLeft(q))
             j == [k EXCEPT !.active.left = Smaller(@, AnswerLeft(q))]
  <1>1. /\ k \in Controller /\ k.active.left \in 0..TTL /\ k.active.left \in Nat
        /\ k.active \in Tenure
    BY FieldTypes DEF Sound
  <1>2. AnswerLeft(q) \in 0..TTL /\ AnswerLeft(q) \in Nat
    BY AnswerTime, AuthorityAssumption
  <1>3. x \in 0..TTL /\ x <= k.active.left
    BY <1>1, <1>2, Arithmetic
  <1>4. j = [k EXCEPT !.active = [k.active EXCEPT !.left = x]]
    BY <1>1 DEF Controller
  <1> HIDE DEF x
  <1>5. /\ [k.active EXCEPT !.left = x] \in Tenure
        /\ [k.active EXCEPT !.left = x].issue = k.active.issue
        /\ [k.active EXCEPT !.left = x].holder = k.active.holder
        /\ [k.active EXCEPT !.left = x].claim = k.active.claim
        /\ [k.active EXCEPT !.left = x].left = x
    BY <1>1, <1>3 DEF Tenure
  <1>6. /\ j \in Controller /\ j.active = [k.active EXCEPT !.left = x] /\ j.mode = k.mode
        /\ j.pclaim = k.pclaim /\ j.pclose = k.pclose /\ j.pcheckout = k.pcheckout
        /\ j.bound = k.bound /\ j.beats = k.beats /\ j.retry = k.retry /\ j.timer = k.timer
    BY <1>1, <1>4, <1>5 DEF Controller
  <1>7. Sooner(k, q) = Unlapsed(j)
    BY DEF Sooner
  <1> HIDE DEF j
  <1>8. Has(j)
    BY <1>5, <1>6 DEF Sound, Has, NoTenure
  <1>9. Sound(j)
    BY <1>5, <1>6, <1>8 DEF Sound, FieldsOK
  <1>10. Follows(k, j)
    BY <1>3, <1>5, <1>6, <1>8, <1>9 DEF Follows, Restricts, Beating
  <1>11. Follows(j, Unlapsed(j))
    BY <1>9, UnlapsedFollows
  <1> QED BY <1>7, <1>10, <1>11, FollowsTransitive

\* A confirmation opens the gate and restarts a heartbeat that was stopped.
LEMMA ReopenedFollows ==
    ASSUME NEW k, Sound(k), MayReopen(k)
    PROVE  Follows(k, Reopened(k))
  <1> DEFINE g == [k EXCEPT !.mode = "live"]
  <1>1. /\ k \in Controller /\ k.active.left \in Nat
        /\ Has(k) /\ k.pclose = NoPendingClose /\ k.mode # "stopped"
    BY FieldTypes DEF Sound, MayReopen, FieldsOK
  <1>2. /\ g \in Controller /\ g.active = k.active /\ g.mode = "live" /\ g.timer = k.timer
        /\ g.pclaim = k.pclaim /\ g.pclose = k.pclose /\ g.pcheckout = k.pcheckout
        /\ g.bound = k.bound /\ g.beats = k.beats /\ g.retry = k.retry
    BY <1>1 DEF Controller
  <1>3. Reopened(k) = IF g.timer = Off THEN Scheduled(g, RenewEvery) ELSE g
    BY DEF Reopened
  <1> HIDE DEF g
  <1>4. Sound(g)
    BY <1>1, <1>2 DEF Sound, FieldsOK, Has
  <1>5. CASE g.timer = Off
    <2>1. Follows(g, Scheduled(g, RenewEvery)) /\ Beating(Scheduled(g, RenewEvery))
      BY <1>4, ScheduledFollows, ControllerAssumption
    <2> QED BY <1>1, <1>2, <1>3, <1>5, <2>1 DEF Follows, Restricts, Has
  <1>6. CASE g.timer # Off
    BY <1>1, <1>2, <1>3, <1>4, <1>6 DEF Follows, Restricts, Has, Beating
  <1> QED BY <1>5, <1>6

\* #refresh: whatever it saw.
LEMMA RefreshedFollows ==
    ASSUME NEW k, Sound(k), NEW q \in Request
    PROVE  /\ Follows(k, Refreshed(k, q))
           /\ (Has(k) /\ k.active.left = 0 /\ q.out = "ok") => ~Has(Refreshed(k, q))
  <1> DEFINE e == Unlapsed(k)
             f == Sooner(e, q)
  <1>1. CASE q.out # "ok"
    BY <1>1, StoppedFollows DEF Refreshed
  <1>2. CASE q.out = "ok"
    <2>1. Follows(k, e) /\ Sound(e) /\ (Has(e) => k.active.left > 0)
      BY UnlapsedFollows DEF Follows, Restricts
    <2>2. /\ Refreshed(k, q) = IF ~Has(e) THEN e
                               ELSE IF q.got # e.active.claim THEN Lost(e)
                               ELSE IF MayReopen(f) THEN Reopened(f) ELSE f
      BY <1>2 DEF Refreshed, Observed
    <2>3. Has(e) => Follows(e, f) /\ Sound(f)
      BY <2>1, SoonerFollows DEF Follows, Restricts
    <2> HIDE DEF e, f
    <2>4. Follows(e, Lost(e))
      BY <2>1, LostFollows
    <2>5. (Has(e) /\ MayReopen(f)) => Follows(f, Reopened(f))
      BY <2>3, ReopenedFollows
    <2>6. Follows(k, Refreshed(k, q))
      BY <2>1, <2>2, <2>3, <2>4, <2>5, FollowsTransitive
    <2>7. (Has(k) /\ k.active.left = 0) => ~Has(e)
      BY <2>1
    <2> QED BY <2>2, <2>6, <2>7
  <1> QED BY <1>1, <1>2
-----------------------------------------------------------------------------
(* What a step leaves behind, from what it found.                            *)

\* The fields of a controller that obeys the invariant are sound.
LEMMA OwnSound ==
    ASSUME NEW k \in Controller, FieldsOK(k), Covered(k)
    PROVE  Sound(k)
  BY DEF Sound, Covered, Backed, Lasts, Claims, NoClaim

\* What the methods leave keeps what the invariant says of fields and requests.
LEMMA RestrictsKeeps ==
    ASSUME AuthorityTypeOK, NEW k, Sound(k), Covered(k), NEW r, NEW m, RequestsOK(k, r, m),
           NEW j, Restricts(k, j)
    PROVE  /\ j \in Controller /\ FieldsOK(j) /\ Covered(j) /\ RequestsOK(j, r, m)
           /\ (Has(k) /\ k.active.left = 0) => j.active \in {NoTenure, k.active}
           /\ Retained(j) = Retained(k)
  <1>1. /\ j \in Controller /\ FieldsOK(j) /\ k.active.left \in Nat /\ j.active.left \in Nat
        /\ k.active \in Tenure /\ j.active \in Tenure
    BY FieldTypes DEF Restricts, Sound
  <1>2. Covered(j)
    <2> SUFFICES ASSUME Has(j)
                 PROVE  Backed(j.active.issue, j.active.holder, j.active.claim, j.active.left)
      BY DEF Covered
    <2>1. /\ Has(k)
          /\ j.active.issue = k.active.issue /\ j.active.holder = k.active.holder
          /\ j.active.claim = k.active.claim /\ j.active.left <= k.active.left
      BY DEF Restricts, Has
    <2>2. Backed(k.active.issue, k.active.holder, k.active.claim, k.active.left)
      BY <2>1 DEF Covered
    <2> QED BY <1>1, <2>1, <2>2, LeaseLastsLess DEF Backed
  <1>4. RequestsOK(j, r, m)
    <2>1. \A h, c : Agrees(k, h, c, m) => Agrees(j, h, c, m)
      BY DEF Agrees, Restricts, Has
    <2>2. \A q : RequestOK(k, q, m) => RequestOK(j, q, m)
      BY <2>1 DEF RequestOK
    <2>3. Has(j) => j.active.holder <= m
      BY DEF RequestsOK, Restricts, Has
    <2> QED BY <2>1, <2>2, <2>3 DEF RequestsOK, Restricts
  <1>5. (Has(k) /\ k.active.left = 0) => j.active \in {NoTenure, k.active}
    BY <1>1 DEF Restricts, Tenure
  <1>6. Retained(j) = Retained(k)
    BY DEF Retained, Restricts
  <1> QED BY <1>1, <1>2, <1>4, <1>5, <1>6

\* A method while an answer is awaited.
LEMMA FollowsOwn ==
    ASSUME AuthorityTypeOK, NEW k, NEW r, NEW m, OwnOK(k, r, m), NEW j, Follows(k, j)
    PROVE  OwnOK(j, r, m) /\ Moves(k, j, r)
  <1>1. Sound(k)
    BY OwnSound DEF OwnOK
  <1>2. OperationOK(j, r[0])
    BY DEF OwnOK, OperationOK, Follows, Restricts, Has
  <1> QED BY <1>1, <1>2, RestrictsKeeps DEF OwnOK, Moves, Follows

\* Another request in the awaited slot.
LEMMA Awaited ==
    ASSUME NEW j \in Controller, NEW r \in [Slots -> Request], NEW m, NEW x \in Request,
           FieldsOK(j), Covered(j), RequestsOK(j, r, m),
           OperationOK(j, x), AnswerOK(x), RequestOK(j, x, m)
    PROVE  OwnOK(j, [r EXCEPT ![0] = x], m)
  <1>1. 0 \in Slots
    BY ControllerAssumption DEF Slots
  <1>2. /\ [r EXCEPT ![0] = x] \in [Slots -> Request] /\ [r EXCEPT ![0] = x][0] = x
        /\ \A s \in Slots : [r EXCEPT ![0] = x][s] = IF s = 0 THEN x ELSE r[s]
    BY <1>1
  <1> HIDE DEF Slots
  <1>3. RequestsOK(j, [r EXCEPT ![0] = x], m)
    BY <1>2 DEF RequestsOK
  <1> QED BY <1>2, <1>3 DEF OwnOK

\* Nothing is awaited any more.
LEMMA Ended ==
    ASSUME NEW j \in Controller, NEW r \in [Slots -> Request], NEW m,
           FieldsOK(j), Covered(j), RequestsOK(j, r, m), Beating(j)
    PROVE  OwnOK(j, [r EXCEPT ![0] = NoRequest], m)
  <1>1. NoRequest \in Request
    BY NullTypes
  <1>2. OperationOK(j, NoRequest) /\ AnswerOK(NoRequest) /\ RequestOK(j, NoRequest, m)
    BY DEF OperationOK, AnswerOK, RequestOK, NoRequest
  <1> QED BY <1>1, <1>2, Awaited

\* The invariant, controller by controller.
LEMMA InvIsOwn ==
    ASSUME ControllerInv, NEW p \in Controllers
    PROVE  /\ OwnOK(ctl[p], req[p], minted) /\ Sound(ctl[p]) /\ ctl[p] \in Controller
           /\ req[p] \in [Slots -> Request] /\ req[p][0] \in Request
           /\ minted \in Nat /\ AuthorityTypeOK /\ AuthorityOK /\ RowsOK
           /\ ctl \in [Controllers -> Controller]
           /\ req \in [Controllers -> [Slots -> Request]]
           /\ FieldsOK(ctl[p]) /\ Covered(ctl[p])
           /\ OperationOK(ctl[p], req[p][0]) /\ AnswerOK(req[p][0])
           /\ RequestsOK(ctl[p], req[p], minted)
  <1>1. 0 \in Slots
    BY ControllerAssumption DEF Slots
  <1>2. /\ ctl[p] \in Controller /\ req[p] \in [Slots -> Request]
        /\ minted \in Nat /\ AuthorityTypeOK /\ AuthorityOK /\ RowsOK
        /\ ctl \in [Controllers -> Controller]
        /\ req \in [Controllers -> [Slots -> Request]]
    BY DEF ControllerInv, TypeOK, ControllerTypeOK, AuthorityOK
  <1>3. req[p][0] \in Request
    BY <1>1, <1>2
  <1>4. /\ FieldsOK(ctl[p]) /\ Covered(ctl[p])
        /\ OperationOK(ctl[p], req[p][0]) /\ AnswerOK(req[p][0])
        /\ RequestsOK(ctl[p], req[p], minted)
    BY DEF ControllerInv
  <1> QED BY <1>2, <1>3, <1>4, OwnSound DEF OwnOK

\* More numbers drawn.
LEMMA MoreDrawn ==
    ASSUME NEW m \in Nat, NEW n \in Nat, m <= n, NEW k \in Controller,
           NEW r \in [Slots -> Request], RequestsOK(k, r, m)
    PROVE  RequestsOK(k, r, n)
  <1>1. /\ k.pclaim.id \in Nat /\ k.active.holder \in Nat /\ k.pclose.holder \in Nat
        /\ \A s \in Slots : r[s].holder \in Nat
    BY FieldTypes DEF Request
  <1>2. \A h \in Nat : \A c : Agrees(k, h, c, m) => Agrees(k, h, c, n)
    BY DEF Agrees
  <1> QED BY <1>1, <1>2 DEF RequestsOK, RequestOK

\* One controller moves and the authority does not.
LEMMA ClientInv ==
    ASSUME ControllerInv, UNCHANGED authorityVars, NEW p \in Controllers,
           NEW k, NEW r, NEW m \in Nat, minted <= m, OwnOK(k, r, m), Moves(ctl[p], k, r),
           ctl' = [ctl EXCEPT ![p] = k], req' = [req EXCEPT ![p] = r], minted' = m
    PROVE  ControllerInv' /\ Proper
  <1>1. /\ ctl \in [Controllers -> Controller] /\ req \in [Controllers -> [Slots -> Request]]
        /\ minted \in Nat
    BY InvIsOwn
  <1>2. /\ ctl' \in [Controllers -> Controller] /\ req' \in [Controllers -> [Slots -> Request]]
        /\ ctl'[p] = k /\ req'[p] = r
        /\ \A x \in Controllers : x # p => ctl'[x] = ctl[x] /\ req'[x] = req[x]
    BY <1>1 DEF OwnOK
  <1>3. /\ status' = status /\ claims' = claims /\ nextClaim' = nextClaim
        /\ receipts' = receipts
    BY DEF authorityVars
  <1>4. TypeOK' /\ RowsOK'
    BY <1>2, <1>3 DEF ControllerInv, TypeOK, ControllerTypeOK, AuthorityTypeOK, RowsOK
  <1>5. ASSUME NEW x \in Controllers
        PROVE  /\ OwnOK(ctl'[x], req'[x], m) /\ Moves(ctl[x], ctl'[x], req'[x])
    <2>1. CASE x = p
      BY <1>2, <2>1
    <2>2. CASE x # p
      <3>1. OwnOK(ctl[x], req[x], minted)
        BY InvIsOwn
      <3>2. RequestsOK(ctl[x], req[x], m)
        BY <1>1, <3>1, MoreDrawn DEF OwnOK
      <3> QED BY <1>2, <2>2, <3>1, <3>2 DEF OwnOK, Moves
    <2> QED BY <2>1, <2>2
  <1>6. ASSUME NEW x \in Controllers
        PROVE  /\ FieldsOK(ctl[x])' /\ Covered(ctl[x])'
               /\ OperationOK(ctl[x], req[x][0])' /\ AnswerOK(req[x][0])'
               /\ RequestsOK(ctl[x], req[x], minted)'
    <2>1. /\ FieldsOK(ctl'[x]) /\ Covered(ctl'[x]) /\ OperationOK(ctl'[x], req'[x][0])
          /\ AnswerOK(req'[x][0]) /\ RequestsOK(ctl'[x], req'[x], m)
      BY <1>5 DEF OwnOK
    <2>2. Covered(ctl[x])'
      BY <1>3, <2>1 DEF Covered, Backed, Lasts
    <2>3. AnswerOK(req[x][0])'
      BY <1>3, <2>1 DEF AnswerOK, Backed, Lasts
    <2> QED BY <2>1, <2>2, <2>3
  <1> QED BY <1>4, <1>5, <1>6 DEF ControllerInv, Proper
-----------------------------------------------------------------------------
(* Calls: what begins an operation.                                          *)

Asked(op, tool, issue, holder, claim, key, retry) ==
    [NoRequest EXCEPT !.op = op, !.tool = tool, !.issue = issue, !.holder = holder,
                      !.claim = claim, !.key = key, !.retry = retry,
                      !.stage = IF tool = "issue_claim" THEN "show" ELSE "kata"]

Ops == {"none", "claim", "renew", "release", "close", "look", "checkout", "farewell"}
Tools == {"none", "issue_claim", "issue_renew", "issue_release", "issue_close", "issue_get",
          "checkout"}

\* A request that was just sent has no answer.
LEMMA AskedFields ==
    ASSUME NEW op \in Ops, NEW tool \in Tools, NEW i \in Issues \cup {NoIssue}, NEW h \in Nat,
           NEW c \in Nat, NEW key \in Nat, NEW retry \in BOOLEAN
    PROVE  LET q == Asked(op, tool, i, h, c, key, retry) IN
           /\ q \in Request /\ q.op = op /\ q.tool = tool /\ q.issue = i /\ q.holder = h
           /\ q.claim = c /\ q.key = key /\ (q.retry <=> retry) /\ AnswerOK(q)
  <1> DEFINE st == IF tool = "issue_claim" THEN "show" ELSE "kata"
             q == Asked(op, tool, i, h, c, key, retry)
  <1>2. st \in {"show", "kata"}
    OBVIOUS
  <1>3. 0 \in 0..TTL /\ NoClaim \in Nat
    BY AuthorityAssumption DEF NoClaim
  <1>1. NoRequest \in Request
    BY NullTypes
  <1>4. /\ q.op = op /\ q.tool = tool /\ q.issue = i /\ q.holder = h /\ q.claim = c
        /\ q.key = key /\ q.stage = st /\ q.out = "none"
    BY DEF Asked, NoRequest
  <1>6. q.retry <=> retry
    BY Zenon DEF Asked, NoRequest
  <1>7. q \in Request
    <2>1. q = [NoRequest EXCEPT !.op = op, !.tool = tool, !.issue = i, !.holder = h,
                      !.claim = c, !.key = key, !.retry = retry, !.stage = st]
      BY DEF Asked
    <2> HIDE DEF st, q
    <2> DEFINE q0 == [NoRequest EXCEPT !.op = op]
               q1 == [[q0 EXCEPT !.tool = tool] EXCEPT !.issue = i]
               q2 == [q1 EXCEPT !.holder = h, !.claim = c, !.key = key]
    <2>2. q0 \in Request
      BY <1>1 DEF Request, Ops
    <2>3. q = [[q2 EXCEPT !.retry = retry] EXCEPT !.stage = st]
      BY <2>1
    <2> HIDE DEF q0
    <2>4. [q0 EXCEPT !.tool = tool] \in Request
      BY <2>2 DEF Request, Tools
    <2>5. q1 \in Request
      BY <2>4 DEF Request
    <2> HIDE DEF q1
    <2>6. q2 \in Request
      BY <2>5 DEF Request
    <2> HIDE DEF q2
    <2>7. [q2 EXCEPT !.retry = retry] \in Request
      BY <2>6, Zenon DEF Request
    <2> QED BY <1>2, <2>3, <2>7 DEF Request
  <1>5. AnswerOK(q)
    BY <1>2, <1>4 DEF AnswerOK
  <1> QED BY <1>4, <1>5, <1>6, <1>7

\* Fields that differ in nothing but the callers' bookkeeping.
LEMMA SameFields ==
    ASSUME NEW k, Sound(k), NEW j \in Controller, j.active = k.active, j.mode = k.mode,
           j.pclaim = k.pclaim, j.pclose = k.pclose, j.pcheckout = k.pcheckout
    PROVE  Restricts(k, j)
  <1>1. k.active.left \in Nat
    BY FieldTypes DEF Sound
  <1>2. Sound(j)
    BY DEF Sound, FieldsOK, Has
  <1> QED BY <1>1, <1>2 DEF Restricts, Has

\* A queued retryPending leaves the queue.
LEMMA DequeuedFollows ==
    ASSUME NEW k, Sound(k), NEW retry \in BOOLEAN
    PROVE  /\ Follows(k, Dequeued(k, retry)) /\ Dequeued(k, retry).active = k.active
           /\ Dequeued(k, retry).mode = k.mode
  <1> DEFINE j == [k EXCEPT !.retry = NotCaptured]
  <1>1. Dequeued(k, retry) \in {k, j}
    BY DEF Dequeued
  <1>2. /\ j \in Controller /\ j.active = k.active /\ j.mode = k.mode
        /\ j.pclaim = k.pclaim /\ j.pclose = k.pclose /\ j.pcheckout = k.pcheckout
        /\ j.timer = k.timer /\ j.beats = k.beats
    BY NullTypes DEF Sound, Controller
  <1> HIDE DEF j
  <1>3. Follows(k, j) /\ Follows(k, k)
    BY <1>2, SameFields DEF Follows, Beating, Sound
  <1> QED BY <1>1, <1>2, <1>3

\* A method runs and nothing is sent.
LEMMA FollowsInv ==
    ASSUME ControllerInv, UNCHANGED <<authorityVars, req, minted>>, NEW p \in Controllers,
           NEW j, Follows(ctl[p], j), SetCtl(p, j)
    PROVE  ControllerInv' /\ Proper
  <1>1. OwnOK(j, req[p], minted) /\ Moves(ctl[p], j, req[p])
    BY InvIsOwn, FollowsOwn
  <1>2. req' = [req EXCEPT ![p] = req[p]] /\ minted \in Nat /\ minted <= minted
    BY InvIsOwn
  <1> QED BY <1>1, <1>2, ClientInv DEF SetCtl

\* A request is sent on behalf of an operation.
LEMMA SendInv ==
    ASSUME ControllerInv, UNCHANGED authorityVars, NEW p \in Controllers,
           NEW j \in Controller, FieldsOK(j), Covered(j), NEW m \in Nat, minted <= m, minted' = m,
           RequestsOK(j, req[p], m), SetCtl(p, j),
           NEW op \in Ops, NEW tool \in Tools, NEW i \in Issues \cup {NoIssue}, NEW h \in Nat,
           NEW c \in Nat, NEW key \in Nat, NEW retry \in BOOLEAN,
           Send(p, op, tool, i, h, c, key, retry),
           OperationOK(j, Asked(op, tool, i, h, c, key, retry)),
           RequestOK(j, Asked(op, tool, i, h, c, key, retry), m),
           (Has(ctl[p]) /\ ctl[p].active.left = 0) => j.active \in {NoTenure, ctl[p].active},
           retry => Retained(j) \subseteq Retained(ctl[p])
    PROVE  ControllerInv' /\ Proper
  <1> DEFINE q == Asked(op, tool, i, h, c, key, retry)
             r == [req[p] EXCEPT ![0] = q]
  <1>1. q \in Request /\ (q.retry <=> retry) /\ AnswerOK(q)
    BY AskedFields
  <1>2. req[p] \in [Slots -> Request] /\ req \in [Controllers -> [Slots -> Request]]
    BY InvIsOwn
  <1>3. req' = [req EXCEPT ![p] = r]
    BY <1>2 DEF Send, Asked
  <1>4. RequestOK(j, q, m) /\ OperationOK(j, q)
    OBVIOUS
  <1>5. r[0] = q
    BY <1>2, ControllerAssumption DEF Slots
  <1> HIDE DEF q
  <1>6. OwnOK(j, r, m)
    BY <1>1, <1>2, <1>4, Awaited
  <1>7. Moves(ctl[p], j, r)
    BY <1>1, <1>5 DEF Moves
  <1> HIDE DEF r
  <1> QED BY <1>3, <1>6, <1>7, ClientInv DEF SetCtl

\* The same after a method.
LEMMA FollowsSendInv ==
    ASSUME ControllerInv, UNCHANGED <<authorityVars, minted>>, NEW p \in Controllers,
           NEW j, Restricts(ctl[p], j), SetCtl(p, j),
           NEW op \in Ops, NEW tool \in Tools, NEW i \in Issues \cup {NoIssue}, NEW h \in Nat,
           NEW c \in Nat, NEW key \in Nat, NEW retry \in BOOLEAN,
           Send(p, op, tool, i, h, c, key, retry),
           OperationOK(j, Asked(op, tool, i, h, c, key, retry)),
           RequestOK(j, Asked(op, tool, i, h, c, key, retry), minted)
    PROVE  ControllerInv' /\ Proper
  <1>1. /\ j \in Controller /\ FieldsOK(j) /\ Covered(j) /\ RequestsOK(j, req[p], minted)
        /\ (Has(ctl[p]) /\ ctl[p].active.left = 0) => j.active \in {NoTenure, ctl[p].active}
        /\ Retained(j) = Retained(ctl[p])
    BY InvIsOwn, RestrictsKeeps
  <1>2. minted \in Nat /\ minted <= minted
    BY InvIsOwn
  <1> QED BY <1>1, <1>2, SendInv
\* A fresh attempt: its id is larger than every number drawn before.
LEMMA NewClaimInv ==
    ASSUME ControllerInv, NEW p \in Controllers, NEW i \in Issues, Running(p), Idle(p),
           NewClaim(p, i, FALSE)
    PROVE  ControllerInv' /\ Proper
  <1> DEFINE k == Unlapsed(ctl[p])
             j == [k EXCEPT !.pclaim = [issue |-> i, id |-> minted + 1], !.mode = "claim-pending"]
             m == minted + 1
  <1>1. /\ Sound(ctl[p]) /\ AuthorityTypeOK /\ Covered(ctl[p])
        /\ RequestsOK(ctl[p], req[p], minted) /\ minted \in Nat /\ req[p] \in [Slots -> Request]
    BY InvIsOwn
  <1>2. /\ k.pclose = NoPendingClose /\ ~Has(k)
        /\ minted' = m /\ SetCtl(p, j)
        /\ Send(p, "claim", "issue_claim", i, m, NoClaim, 0, FALSE)
        /\ UNCHANGED authorityVars
    BY DEF NewClaim, Dequeued
  <1>3. Restricts(ctl[p], k)
    BY <1>1, UnlapsedFollows DEF Follows
  <1>4. k \in Controller /\ FieldsOK(k) /\ Covered(k) /\ RequestsOK(k, req[p], minted)
    BY <1>1, <1>3, RestrictsKeeps
  <1>5. RequestsOK(k, req[p], m)
    BY <1>1, <1>4, MoreDrawn
  <1> HIDE DEF k
  <1>6. [issue |-> i, id |-> m] \in PendingClaim /\ [issue |-> i, id |-> m] # NoPendingClaim
    BY <1>1 DEF PendingClaim, NoPendingClaim
  <1>7. /\ j \in Controller /\ j.pclaim = [issue |-> i, id |-> m] /\ j.mode = "claim-pending"
        /\ j.active = k.active /\ j.pclose = k.pclose
    BY <1>4, <1>6 DEF Controller
  <1> HIDE DEF j, m
  <1>8. FieldsOK(j) /\ Covered(j) /\ ~Has(j) /\ Beating(j)
    BY <1>2, <1>7 DEF FieldsOK, Covered, Has, Beating
  <1>9. RequestsOK(j, req[p], m)
    <2>1. ASSUME NEW h \in Nat, NEW c, Agrees(k, h, c, minted) PROVE Agrees(j, h, c, m)
      BY <1>1, <1>7, <1>8, <2>1 DEF Agrees, m
    <2>2. \A s \in Slots : req[p][s].holder \in Nat
      BY <1>1 DEF Request
    <2>3. \A s \in Slots : RequestOK(j, req[p][s], m)
      BY <1>4, <2>1, <2>2 DEF RequestsOK, RequestOK
    <2> QED BY <1>1, <1>2, <1>7, <1>8, <2>3 DEF RequestsOK, m
  <1>10. m \in Nat /\ minted <= m
    BY <1>1 DEF m
  <1>11. /\ "claim" \in Ops /\ "issue_claim" \in Tools /\ NoClaim \in Nat /\ FALSE \in BOOLEAN
         /\ i \in Issues \cup {NoIssue}
    BY DEF Ops, Tools, NoClaim
  <1> DEFINE q == Asked("claim", "issue_claim", i, m, NoClaim, 0, FALSE)
  <1>12. q.op = "claim" /\ q.tool = "issue_claim" /\ q.issue = i /\ q.holder = m
    BY DEF Asked, NoRequest
  <1>13. OperationOK(j, q) /\ RequestOK(j, q, m)
    BY <1>2, <1>6, <1>7, <1>8, <1>12 DEF OperationOK, RequestOK
  <1>14. j.active = NoTenure
    BY <1>8 DEF Has
  <1> HIDE DEF q
  <1> QED BY <1>2, <1>7, <1>8, <1>9, <1>10, <1>11, <1>13, <1>14, SendInv DEF q

\* The attempt that is retained is sent again as it was.
LEMMA AgainClaimInv ==
    ASSUME ControllerInv, NEW p \in Controllers, NEW retry \in BOOLEAN, Running(p), Idle(p),
           AgainClaim(p, retry)
    PROVE  ControllerInv' /\ Proper
  <1> DEFINE k == Unlapsed(ctl[p])
             g == [k EXCEPT !.mode = "claim-pending"]
             j == Dequeued(g, retry)
  <1>1. Sound(ctl[p])
    BY InvIsOwn
  <1>2. /\ k.pclose = NoPendingClose /\ ~Has(k) /\ k.pclaim # NoPendingClaim
        /\ UNCHANGED <<authorityVars, minted>> /\ SetCtl(p, j)
        /\ Send(p, "claim", "issue_claim", k.pclaim.issue, k.pclaim.id, NoClaim, 0, retry)
    BY DEF AgainClaim
  <1>3. Restricts(ctl[p], k) /\ Sound(k) /\ k \in Controller /\ k.mode # "stopped"
    BY <1>1, UnlapsedFollows DEF Follows, Restricts, Sound, Running
  <1> HIDE DEF k
  <1>4. /\ g \in Controller /\ g.mode = "claim-pending" /\ g.active = k.active
        /\ g.pclaim = k.pclaim /\ g.pclose = k.pclose /\ g.pcheckout = k.pcheckout
    BY <1>3 DEF Controller
  <1> HIDE DEF g
  <1>5. Sound(g)
    BY <1>2, <1>3, <1>4 DEF Sound, FieldsOK, Has
  <1>6. Restricts(g, j) /\ j.mode = "claim-pending" /\ j.active = g.active
    BY <1>4, <1>5, DequeuedFollows DEF Follows
  <1>7. /\ Restricts(ctl[p], j) /\ j.pclaim = k.pclaim /\ j.pclose = k.pclose
    BY <1>2, <1>3, <1>4, <1>6 DEF Restricts, Has
  <1>8. Beating(j) /\ j.pclaim.issue \in Issues /\ k.pclaim.id \in Nat
        /\ j.pclaim = [issue |-> k.pclaim.issue, id |-> k.pclaim.id]
    <2>1. k.pclaim \in PendingClaim
      BY <1>3 DEF Controller
    <2> QED BY <1>2, <1>3, <1>6, <1>7, <2>1 DEF Beating, Sound, FieldsOK, PendingClaim
  <1>9. /\ "claim" \in Ops /\ "issue_claim" \in Tools /\ NoClaim \in Nat
        /\ k.pclaim.issue \in Issues \cup {NoIssue}
    BY <1>7, <1>8 DEF Ops, Tools, NoClaim
  <1> DEFINE q == Asked("claim", "issue_claim", k.pclaim.issue, k.pclaim.id, NoClaim, 0, retry)
  <1>10. /\ q.op = "claim" /\ q.tool = "issue_claim" /\ q.issue = k.pclaim.issue
         /\ q.holder = k.pclaim.id
    BY <1>8, <1>9, AskedFields
  <1>11. OperationOK(j, q) /\ RequestOK(j, q, minted)
    BY <1>2, <1>6, <1>7, <1>8, <1>10 DEF OperationOK, RequestOK
  <1> HIDE DEF j
  <1> QED BY <1>2, <1>7, <1>8, <1>9, <1>11, FollowsSendInv

\* Whatever names the tenure held agrees with it.
LEMMA HeldAgrees ==
    ASSUME NEW k, Sound(k), NEW r, NEW m, RequestsOK(k, r, m), Has(k)
    PROVE  Agrees(k, k.active.holder, k.active.claim, m)
  BY DEF Sound, FieldsOK, RequestsOK, Agrees

\* issue_renew of a caller, and the heartbeat.
LEMMA StartRenewInv ==
    ASSUME ControllerInv, NEW p \in Controllers, StartRenew(p)
    PROVE  ControllerInv' /\ Proper
  <1> DEFINE k == ctl[p]
             t == k.active
             q == Asked("renew", "issue_renew", t.issue, t.holder, t.claim, 0, FALSE)
  <1>1. Sound(k) /\ k \in Controller /\ ctl \in [Controllers -> Controller]
    BY InvIsOwn
  <1>2. /\ Has(k) /\ k.pclose = NoPendingClose /\ k.mode # "stopped"
        /\ Send(p, "renew", "issue_renew", t.issue, t.holder, t.claim, 0, FALSE)
        /\ UNCHANGED <<authorityVars, ctl, minted>>
    BY <1>1, UnlapsedFollows DEF StartRenew, Requires, SendHeld, Running
  <1>3. Restricts(k, k) /\ SetCtl(p, k)
    BY <1>1, <1>2, SameFields DEF SetCtl
  <1>4. /\ "renew" \in Ops /\ "issue_renew" \in Tools /\ t.issue \in Issues \cup {NoIssue}
        /\ t.holder \in Nat /\ t.claim \in Nat /\ FALSE \in BOOLEAN
    BY <1>1, FieldTypes DEF Ops, Tools
  <1>5. /\ q.op = "renew" /\ q.tool = "issue_renew" /\ q.issue = t.issue
        /\ q.holder = t.holder /\ q.claim = t.claim
    BY DEF Asked, NoRequest
  <1>6. OperationOK(k, q) /\ RequestOK(k, q, minted)
    BY <1>2, <1>5 DEF OperationOK, RequestOK
  <1> QED BY <1>2, <1>3, <1>4, <1>6, FollowsSendInv

\* The heartbeat renews the tenure, or finds nothing to renew.
LEMMA HeartbeatInv ==
    ASSUME ControllerInv, NEW p \in Controllers, Heartbeat(p)
    PROVE  ControllerInv' /\ Proper
  <1> DEFINE c == ctl[p]
             k == [c EXCEPT !.beats = @ - 1]
             t == k.active
             q == Asked("renew", "issue_renew", t.issue, t.holder, t.claim, 0, FALSE)
  <1>1. Sound(c) /\ c \in Controller /\ c.beats \in 0..MaxBeats /\ c.beats > 0
    BY InvIsOwn, FieldTypes DEF Heartbeat
  <1>2. /\ k \in Controller /\ k.active = c.active /\ k.mode = c.mode
        /\ k.pclaim = c.pclaim /\ k.pclose = c.pclose /\ k.pcheckout = c.pcheckout
    <2>1. c.beats - 1 \in 0..MaxBeats
      BY <1>1, ControllerAssumption
    <2> QED BY <1>1, <2>1 DEF Controller
  <1>3. UNCHANGED <<authorityVars, minted>>
    BY DEF Heartbeat
  <1>4. \/ /\ ~Has(k) \/ k.pclose # NoPendingClose \/ ~Requires(k)
           /\ SetCtl(p, Unlapsed(k)) /\ UNCHANGED req
        \/ /\ Has(k) /\ k.pclose = NoPendingClose /\ Requires(k)
           /\ SetCtl(p, k) /\ SendHeld(p, "renew", "issue_renew", t)
    BY DEF Heartbeat
  <1> HIDE DEF c, k
  <1>5. Restricts(c, k) /\ Sound(k)
    BY <1>1, <1>2, SameFields DEF Restricts
  <1>6. CASE /\ ~Has(k) \/ k.pclose # NoPendingClose \/ ~Requires(k)
             /\ SetCtl(p, Unlapsed(k)) /\ UNCHANGED req
    <2>1. Restricts(k, Unlapsed(k)) /\ (Unlapsed(k) = k \/ Unlapsed(k).mode # "live")
      BY <1>5, UnlapsedFollows DEF Follows
    <2>2. Unlapsed(k).mode # "live"
      BY <1>5, <1>6, <2>1 DEF Requires, Sound, FieldsOK
    <2>3. Restricts(c, Unlapsed(k))
      BY <1>2, <2>1 DEF Restricts, Has
    <2>4. Follows(c, Unlapsed(k))
      BY <2>2, <2>3 DEF Follows, Beating
    <2> QED BY <1>3, <1>6, <2>4, FollowsInv DEF c
  <1>7. CASE /\ Has(k) /\ k.pclose = NoPendingClose /\ Requires(k)
             /\ SetCtl(p, k) /\ SendHeld(p, "renew", "issue_renew", t)
    <2>1. /\ "renew" \in Ops /\ "issue_renew" \in Tools /\ t.issue \in Issues \cup {NoIssue}
          /\ t.holder \in Nat /\ t.claim \in Nat /\ FALSE \in BOOLEAN
      BY <1>2, FieldTypes DEF Ops, Tools
    <2>2. /\ q.op = "renew" /\ q.tool = "issue_renew" /\ q.issue = t.issue
          /\ q.holder = t.holder /\ q.claim = t.claim
      BY DEF Asked, NoRequest
    <2>3. OperationOK(k, q) /\ RequestOK(k, q, minted)
      BY <1>5, <1>7, <2>2 DEF OperationOK, RequestOK, Sound, FieldsOK
    <2>4. Send(p, "renew", "issue_renew", t.issue, t.holder, t.claim, 0, FALSE)
      BY <1>7 DEF SendHeld
    <2> QED BY <1>3, <1>5, <1>7, <2>1, <2>3, <2>4, FollowsSendInv DEF c
  <1> QED BY <1>4, <1>6, <1>7
\* A release stops editing first.
LEMMA StartReleaseInv ==
    ASSUME ControllerInv, NEW p \in Controllers, StartRelease(p)
    PROVE  ControllerInv' /\ Proper
  <1> DEFINE k == ctl[p]
             t == k.active
             j == Stopped(k)
             q == Asked("release", "issue_release", t.issue, t.holder, t.claim, 0, FALSE)
  <1>1. Sound(k) /\ k \in Controller /\ RequestsOK(k, req[p], minted)
    BY InvIsOwn
  <1>2. /\ Has(k) /\ k.mode # "stopped"
        /\ Send(p, "release", "issue_release", t.issue, t.holder, t.claim, 0, FALSE)
        /\ UNCHANGED <<authorityVars, minted>> /\ SetCtl(p, j)
    BY <1>1, UnlapsedFollows DEF StartRelease, Requires, SendHeld, Running
  <1>3. /\ Restricts(k, j) /\ j.mode # "live" /\ j.mode # "stopped" /\ j.active = t
        /\ j.pclaim = k.pclaim
    BY <1>1, <1>2, StoppedFollows DEF Follows, Restricts
  <1>4. /\ "release" \in Ops /\ "issue_release" \in Tools /\ t.issue \in Issues \cup {NoIssue}
        /\ t.holder \in Nat /\ t.claim \in Nat /\ FALSE \in BOOLEAN
    BY <1>1, FieldTypes DEF Ops, Tools
  <1>5. /\ q.op = "release" /\ q.tool = "issue_release"
        /\ q.holder = t.holder /\ q.claim = t.claim
    BY DEF Asked, NoRequest
  <1>6. Agrees(j, t.holder, t.claim, minted)
    BY <1>1, <1>2, <1>3, HeldAgrees DEF Agrees, Has
  <1> HIDE DEF k, j, q
  <1>7. OperationOK(j, q) /\ RequestOK(j, q, minted)
    BY <1>3, <1>5, <1>6 DEF OperationOK, RequestOK, Beating
  <1> QED BY <1>2, <1>3, <1>4, <1>7, FollowsSendInv DEF k, q

\* A look at the issue, by itself or before a close or a checkout.
LEMMA LookInv ==
    ASSUME ControllerInv, NEW p \in Controllers, Running(p), Idle(p),
           NEW j, Follows(ctl[p], j), SetCtl(p, j), UNCHANGED <<authorityVars, minted>>,
           NEW op \in {"look", "close", "checkout"}, NEW i \in Issues \cup {NoIssue},
           NEW h \in Nat, NEW c \in Nat,
           Send(p, op, "issue_get", i, h, c, 0, FALSE)
    PROVE  ControllerInv' /\ Proper
  <1> DEFINE q == Asked(op, "issue_get", i, h, c, 0, FALSE)
  <1>1. OperationOK(ctl[p], req[p][0])
    BY InvIsOwn
  <1>2. Beating(ctl[p]) /\ ctl[p].mode # "stopped"
    BY <1>1 DEF OperationOK, Idle, NoRequest, Running
  <1>3. Beating(j) /\ j.mode # "stopped"
    BY <1>2 DEF Follows, Restricts
  <1>4. q.op = op /\ q.tool = "issue_get"
    BY DEF Asked, NoRequest
  <1>5. ~q.retry
    BY Zenon DEF Asked, NoRequest
  <1> HIDE DEF q
  <1>6. OperationOK(j, q) /\ RequestOK(j, q, minted)
    BY <1>3, <1>4, <1>5 DEF OperationOK, RequestOK
  <1>7. op \in Ops /\ "issue_get" \in Tools /\ FALSE \in BOOLEAN
    BY DEF Ops, Tools
  <1>8. Restricts(ctl[p], j)
    BY DEF Follows
  <1> QED BY <1>6, <1>7, <1>8, FollowsSendInv DEF q

\* Nothing changes about a controller's fields.
LEMMA SelfFollows ==
    ASSUME NEW k, Sound(k)
    PROVE  Follows(k, k)
  BY SameFields DEF Follows, Sound

\* guardTool, context() and issue_get of the bound issue.
LEMMA StartLookInv ==
    ASSUME ControllerInv, NEW p \in Controllers, StartLook(p)
    PROVE  ControllerInv' /\ Proper
  <1>1. /\ Running(p) /\ Idle(p) /\ UNCHANGED <<authorityVars, ctl, minted>>
        /\ Send(p, "look", "issue_get", ctl[p].bound, NoHolder, NoClaim, 0, FALSE)
    BY DEF StartLook
  <1>2. Follows(ctl[p], ctl[p]) /\ ctl \in [Controllers -> Controller]
    BY InvIsOwn, SelfFollows
  <1>3. SetCtl(p, ctl[p])
    BY <1>1, <1>2 DEF SetCtl
  <1>4. /\ ctl[p].bound \in Issues \cup {NoIssue} /\ NoHolder \in Nat /\ NoClaim \in Nat
        /\ "look" \in {"look", "close", "checkout"}
    BY <1>2, FieldTypes DEF NoHolder, NoClaim
  <1> QED BY <1>1, <1>2, <1>3, <1>4, LookInv

\* A fresh close or checkout looks at the issue first.
LEMMA LookFirstInv ==
    ASSUME ControllerInv, NEW p \in Controllers, NEW op \in {"close", "checkout"},
           Running(p), Idle(p), LookFirst(p, op, FALSE)
    PROVE  ControllerInv' /\ Proper
  <1>1. /\ UNCHANGED <<authorityVars, minted>> /\ SetCtl(p, ctl[p])
        /\ Send(p, op, "issue_get", ctl[p].bound, ctl[p].active.holder, ctl[p].active.claim, 0,
                FALSE)
    BY DEF LookFirst, Dequeued
  <1>2. Follows(ctl[p], ctl[p]) /\ ctl[p] \in Controller
    BY InvIsOwn, SelfFollows
  <1>3. /\ ctl[p].bound \in Issues \cup {NoIssue} /\ ctl[p].active.holder \in Nat
        /\ ctl[p].active.claim \in Nat
    BY <1>2, FieldTypes
  <1> QED BY <1>1, <1>2, <1>3, LookInv

\* The retained close is sent again as it was.
LEMMA AgainCloseInv ==
    ASSUME ControllerInv, NEW p \in Controllers, NEW retry \in BOOLEAN, Running(p), Idle(p),
           AgainClose(p, retry)
    PROVE  ControllerInv' /\ Proper
  <1> DEFINE c == ctl[p].pclose
             j == Dequeued(Stopped(ctl[p]), retry)
             q == Asked("close", "issue_close", c.issue, c.holder, c.claim, c.id, retry)
  <1>1. /\ Sound(ctl[p]) /\ ctl[p] \in Controller /\ AuthorityTypeOK
        /\ RequestsOK(ctl[p], req[p], minted) /\ Covered(ctl[p])
    BY InvIsOwn
  <1>2. /\ c # NoPendingClose /\ UNCHANGED <<authorityVars, minted>> /\ SetCtl(p, j)
        /\ Send(p, "close", "issue_close", c.issue, c.holder, c.claim, c.id, retry)
    BY DEF AgainClose
  <1>3. Restricts(ctl[p], Stopped(ctl[p])) /\ Stopped(ctl[p]).mode # "live"
    BY <1>1, StoppedFollows DEF Follows
  <1>4. Restricts(Stopped(ctl[p]), j) /\ j.mode = Stopped(ctl[p]).mode
        /\ j.active = Stopped(ctl[p]).active
    BY <1>3, DequeuedFollows DEF Follows, Restricts
  <1>5. Restricts(ctl[p], j) /\ j.mode # "live" /\ j.mode # "stopped" /\ j.pclose = c
    BY <1>3, <1>4 DEF Restricts, Has, Running
  <1>6. RequestsOK(j, req[p], minted)
    BY <1>1, <1>5, RestrictsKeeps
  <1>7. /\ "close" \in Ops /\ "issue_close" \in Tools /\ c.issue \in Issues \cup {NoIssue}
        /\ c.holder \in Nat /\ c.claim \in Nat /\ c.id \in Nat
    BY <1>1, FieldTypes DEF Ops, Tools
  <1>8. q.op = "close" /\ q.tool = "issue_close" /\ q.holder = c.holder /\ q.claim = c.claim
    BY DEF Asked, NoRequest
  <1> HIDE DEF j, q, c
  <1>9. OperationOK(j, q) /\ RequestOK(j, q, minted)
    BY <1>2, <1>5, <1>6, <1>8 DEF OperationOK, RequestOK, Beating, RequestsOK
  <1> QED BY <1>2, <1>5, <1>7, <1>9, FollowsSendInv DEF q

\* The retained checkout.
LEMMA AgainCheckoutInv ==
    ASSUME ControllerInv, NEW p \in Controllers, NEW retry \in BOOLEAN, Running(p), Idle(p),
           AgainCheckout(p, retry)
    PROVE  ControllerInv' /\ Proper
  <1> DEFINE n == ctl[p].pcheckout
             j == Dequeued(ctl[p], retry)
             q == Asked("checkout", "checkout", NoIssue, NoHolder, NoClaim, n, retry)
  <1>1. Sound(ctl[p]) /\ ctl[p] \in Controller /\ OperationOK(ctl[p], req[p][0])
    BY InvIsOwn
  <1>2. /\ UNCHANGED <<authorityVars, minted>> /\ SetCtl(p, j)
        /\ Send(p, "checkout", "checkout", NoIssue, NoHolder, NoClaim, n, retry)
    BY DEF AgainCheckout
  <1>3. Restricts(ctl[p], j) /\ Beating(j) /\ j.mode # "stopped"
    BY <1>1, DequeuedFollows DEF Follows, OperationOK, Idle, NoRequest, Running
  <1>4. /\ "checkout" \in Ops /\ "checkout" \in Tools /\ NoIssue \in Issues \cup {NoIssue}
        /\ NoHolder \in Nat /\ NoClaim \in Nat /\ n \in Nat
    BY <1>1, FieldTypes DEF Ops, Tools, NoHolder, NoClaim
  <1>5. q.op = "checkout" /\ q.tool = "checkout"
    BY DEF Asked, NoRequest
  <1> HIDE DEF j, q, n
  <1>6. OperationOK(j, q) /\ RequestOK(j, q, minted)
    BY <1>3, <1>5 DEF OperationOK, RequestOK
  <1> QED BY <1>2, <1>3, <1>4, <1>6, FollowsSendInv DEF q

\* What retryPending captures.
LEMMA PendingType ==
    ASSUME NEW k \in Controller
    PROVE  Pending(k) \in Captured
  <1>1. /\ k.bound \in Issues \cup {NoIssue} /\ k.pcheckout \in Nat
        /\ k.pclose.issue \in Issues \cup {NoIssue} /\ k.pclose.id \in Nat
        /\ k.pclaim.issue \in Issues \cup {NoIssue} /\ k.pclaim.id \in Nat
    BY FieldTypes
  <1>2. CASE k.pcheckout # 0
    BY <1>1, <1>2 DEF Pending, Captured
  <1>3. CASE k.pcheckout = 0 /\ k.pclose # NoPendingClose
    BY <1>1, <1>3 DEF Pending, Captured
  <1>4. CASE k.pcheckout = 0 /\ k.pclose = NoPendingClose
    BY <1>1, <1>4 DEF Pending, Captured
  <1> QED BY <1>2, <1>3, <1>4

\* While a request is retained no operation begins anew: the test of identity is
\* what keeps a queued retryPending from it (controller.ts:141).
LEMMA RetainedRefusesAnew ==
    ASSUME ControllerInv, NEW p \in Controllers, StillRetained(ctl[p])
    PROVE  /\ \A i : ~NewClaim(p, i, TRUE)
           /\ \A op \in {"close", "checkout"} : ~LookFirst(p, op, TRUE)
  <1> DEFINE k == ctl[p]
  <1>1. Sound(k) /\ Restricts(k, Unlapsed(k))
    BY InvIsOwn, UnlapsedFollows DEF Follows
  <1>2. Retained(k) # {}
    BY DEF StillRetained
  <1>3. ~(k.pclaim = NoPendingClaim /\ k.pclose = NoPendingClose /\ k.pcheckout = 0)
    BY <1>2 DEF Retained, NoPendingClaim, NoPendingClose
  <1>4. ASSUME NEW i PROVE ~NewClaim(p, i, TRUE)
    BY <1>1, <1>3 DEF NewClaim, Restricts
  <1>5. ASSUME NEW op \in {"close", "checkout"} PROVE ~LookFirst(p, op, TRUE)
    <2>1. Has(Unlapsed(k)) => k.pclaim = NoPendingClaim
      BY <1>1 DEF Restricts, Sound, FieldsOK, Has
    <2> QED BY <1>3, <2>1 DEF LookFirst, MayBegin, Requires
  <1> QED BY <1>4, <1>5

\* Every call.
LEMMA CallInv ==
    ASSUME ControllerInv, NEW p \in Controllers, Call(p)
    PROVE  ControllerInv' /\ Proper
  <1>1. /\ Sound(ctl[p]) /\ ctl[p] \in Controller
    BY InvIsOwn
  <1>2. ASSUME NEW x \in Captured, SetCtl(p, [ctl[p] EXCEPT !.retry = x]),
               UNCHANGED <<authorityVars, req, minted>>
        PROVE  ControllerInv' /\ Proper
    <2> DEFINE j == [ctl[p] EXCEPT !.retry = x]
    <2>1. /\ j \in Controller /\ j.active = ctl[p].active /\ j.mode = ctl[p].mode
          /\ j.pclaim = ctl[p].pclaim /\ j.pclose = ctl[p].pclose
          /\ j.pcheckout = ctl[p].pcheckout /\ j.timer = ctl[p].timer /\ j.beats = ctl[p].beats
      BY <1>1 DEF Controller
    <2> HIDE DEF j
    <2>2. Follows(ctl[p], j)
      BY <1>1, <2>1, SameFields DEF Follows, Beating
    <2> QED BY <1>2, <2>2, FollowsInv DEF j
  <1>3. CASE ReadState(p)
    BY <1>1, <1>3, UnlapsedFollows, FollowsInv DEF ReadState
  <1>4. CASE StartRetained(p)
    BY <1>4, NewClaimInv, AgainClaimInv, LookFirstInv, AgainCloseInv, AgainCheckoutInv
    DEF StartRetained
  <1>5. CASE CallRetry(p)
    BY <1>1, <1>2, <1>5, PendingType DEF CallRetry
  <1>6. CASE RunRetry(p)
    <2>1. Running(p) /\ Idle(p)
      BY <1>6 DEF RunRetry
    <2>2. CASE StillRetained(ctl[p]) /\ Execute(p, ctl[p].retry)
      <3>1. AgainClaim(p, TRUE) \/ AgainClose(p, TRUE) \/ AgainCheckout(p, TRUE)
        BY <2>2, RetainedRefusesAnew DEF Execute
      <3> QED BY <2>1, <3>1, AgainClaimInv, AgainCloseInv, AgainCheckoutInv
    <2>3. CASE /\ SetCtl(p, Dequeued(ctl[p], TRUE))
               /\ UNCHANGED <<authorityVars, req, minted>>
      BY <1>2, <2>3, NullTypes DEF Dequeued
    <2> QED BY <1>6, <2>2, <2>3 DEF RunRetry
  <1> QED BY <1>3, <1>4, <1>5, <1>6, StartRenewInv, StartReleaseInv, StartLookInv DEF Call

\* A heartbeat's timer that fires has queued it.
LEMMA TimerInv ==
    ASSUME ControllerInv, NEW p \in Controllers, Timer(p)
    PROVE  ControllerInv' /\ Proper
  <1>1. CASE Fire(p)
    <2> DEFINE k == ctl[p]
               j == [k EXCEPT !.timer = Off, !.beats = @ + 1]
    <2>1. Sound(k) /\ k \in Controller /\ k.beats \in 0..MaxBeats /\ k.beats < MaxBeats
      BY <1>1, InvIsOwn, FieldTypes DEF Fire
    <2>2. Off \in 0..Off /\ k.beats + 1 \in 0..MaxBeats /\ k.beats + 1 > 0
      BY <2>1, AuthorityAssumption, ControllerAssumption DEF Off
    <2>3. /\ j \in Controller /\ j.active = k.active /\ j.mode = k.mode
          /\ j.pclaim = k.pclaim /\ j.pclose = k.pclose /\ j.pcheckout = k.pcheckout
          /\ j.beats = k.beats + 1
      BY <2>1, <2>2 DEF Controller
    <2>4. SetCtl(p, j) /\ UNCHANGED <<authorityVars, req, minted>>
      BY <1>1 DEF Fire
    <2> HIDE DEF j
    <2>5. Follows(k, j)
      BY <2>1, <2>2, <2>3, SameFields DEF Follows, Beating
    <2> QED BY <2>4, <2>5, FollowsInv
  <1>2. CASE Heartbeat(p)
    BY <1>2, HeartbeatInv
  <1> QED BY <1>1, <1>2 DEF Timer
-----------------------------------------------------------------------------
(* Answers: what ends an operation.                                          *)

\* An operation ends.
LEMMA EndInv ==
    ASSUME ControllerInv, NEW p \in Controllers, NEW j \in Controller, FieldsOK(j), Covered(j),
           RequestsOK(j, req[p], minted), Beating(j), End(p, j),
           (Has(ctl[p]) /\ ctl[p].active.left = 0) => j.active \in {NoTenure, ctl[p].active}
    PROVE  ControllerInv' /\ Proper
  <1> DEFINE r == [req[p] EXCEPT ![0] = NoRequest]
  <1>1. /\ req[p] \in [Slots -> Request] /\ req \in [Controllers -> [Slots -> Request]]
        /\ minted \in Nat /\ minted <= minted
    BY InvIsOwn
  <1>2. OwnOK(j, r, minted)
    BY <1>1, Ended
  <1>3. /\ ctl' = [ctl EXCEPT ![p] = j] /\ req' = [req EXCEPT ![p] = r] /\ minted' = minted
        /\ UNCHANGED authorityVars
    BY <1>1 DEF End, SetCtl
  <1>4. r[0] = NoRequest
    BY <1>1, ControllerAssumption DEF Slots
  <1>5. ~NoRequest.retry
    BY DEF NoRequest
  <1>6. Moves(ctl[p], j, r)
    BY <1>4, <1>5 DEF Moves
  <1> HIDE DEF r
  <1> QED BY <1>1, <1>2, <1>3, <1>6, ClientInv

\* The same after a method.
LEMMA RestrictsEndInv ==
    ASSUME ControllerInv, NEW p \in Controllers, NEW j, Restricts(ctl[p], j), Beating(j),
           End(p, j)
    PROVE  ControllerInv' /\ Proper
  <1>1. /\ j \in Controller /\ FieldsOK(j) /\ Covered(j) /\ RequestsOK(j, req[p], minted)
        /\ (Has(ctl[p]) /\ ctl[p].active.left = 0) => j.active \in {NoTenure, ctl[p].active}
    BY InvIsOwn, RestrictsKeeps
  <1> QED BY <1>1, EndInv

\* ... and after a method that follows a change which EndInv allows.
LEMMA ThenEndInv ==
    ASSUME ControllerInv, NEW p \in Controllers, NEW g \in Controller, FieldsOK(g), Covered(g),
           RequestsOK(g, req[p], minted),
           (Has(ctl[p]) /\ ctl[p].active.left = 0) => g.active \in {NoTenure, ctl[p].active},
           NEW j, Restricts(g, j), Beating(j), End(p, j)
    PROVE  ControllerInv' /\ Proper
  <1>1. AuthorityTypeOK /\ Sound(g)
    BY InvIsOwn, OwnSound
  <1>2. /\ j \in Controller /\ FieldsOK(j) /\ Covered(j) /\ RequestsOK(j, req[p], minted)
        /\ (Has(g) /\ g.active.left = 0) => j.active \in {NoTenure, g.active}
    BY <1>1, RestrictsKeeps
  <1>3. (Has(ctl[p]) /\ ctl[p].active.left = 0) => j.active \in {NoTenure, ctl[p].active}
    <2>1. ~Has(g) => j.active = NoTenure
      BY DEF Restricts
    <2> QED BY <1>2, <2>1 DEF Has
  <1> QED BY <1>2, <1>3, EndInv

\* #deadline and #schedule, after an answer that sets a tenure.
LEMMA RescheduledFollows ==
    ASSUME NEW g, Sound(g), NEW d \in 1..TTL
    PROVE  /\ Restricts(g, Scheduled(Unlapsed(g), d)) /\ Beating(Scheduled(Unlapsed(g), d))
  <1>1. Follows(g, Unlapsed(g)) /\ Sound(Unlapsed(g))
    BY UnlapsedFollows DEF Follows, Restricts
  <1>2. /\ Follows(Unlapsed(g), Scheduled(Unlapsed(g), d))
        /\ Beating(Scheduled(Unlapsed(g), d))
    BY <1>1, ScheduledFollows
  <1> QED BY <1>1, <1>2, FollowsTransitive DEF Follows

\* A granted claim: its attempt has never been granted before.
LEMMA FinishClaimInv ==
    ASSUME ControllerInv, NEW p \in Controllers, FinishClaim(p)
    PROVE  ControllerInv' /\ Proper
  <1> DEFINE k == ctl[p]
             q == req[p][0]
             g == Granted(k, q)
             f == [k EXCEPT !.pclaim = NoPendingClaim]
             t == [issue |-> q.issue, holder |-> q.holder, claim |-> q.got, left |-> AnswerLeft(q)]
  <1>1. /\ Sound(k) /\ k \in Controller /\ FieldsOK(k) /\ Covered(k) /\ q \in Request
        /\ OperationOK(k, q) /\ AnswerOK(q) /\ RequestsOK(k, req[p], minted)
        /\ AuthorityTypeOK /\ req[p] \in [Slots -> Request] /\ minted \in Nat
    BY InvIsOwn
  <1>2. /\ q.op = "claim" /\ q.tool = "issue_claim"
        /\ \/ q.out = "ok" /\ End(p, Scheduled(Unlapsed(g), RenewEvery))
           \/ q.out = "rejected" /\ End(p, Stopped(f))
           \/ End(p, Stopped(k))
    BY DEF FinishClaim, Replied, At
  <1>3. /\ k.pclaim # NoPendingClaim /\ k.pclaim = [issue |-> q.issue, id |-> q.holder]
        /\ k.pclose = NoPendingClose /\ k.mode # "stopped" /\ ~Has(k)
    BY <1>1, <1>2 DEF OperationOK, FieldsOK
  <1>4. CASE q.out = "ok" /\ End(p, Scheduled(Unlapsed(g), RenewEvery))
    <2>1. /\ Backed(q.issue, q.holder, q.got, Monus(q.span, q.age))
          /\ AnswerLeft(q) \in 0..TTL /\ Monus(q.span, q.age) \in 0..TTL
          /\ AnswerLeft(q) <= Monus(q.span, q.age)
      BY <1>1, <1>2, <1>4, AnswerTime DEF AnswerOK
    <2>2. AnswerLeft(q) \in Nat /\ Monus(q.span, q.age) \in Nat
      BY <2>1, AuthorityAssumption
    <2>3. Backed(q.issue, q.holder, q.got, AnswerLeft(q))
      BY <1>1, <2>1, <2>2, LeaseLastsLess DEF Backed
    <2>4. q.issue \in Issues \cup {NoIssue} /\ q.holder \in Nat /\ q.got \in Nat
      BY <1>1 DEF Request
    <2>5. t \in Tenure
      BY <2>1, <2>4 DEF Tenure
    <2>6. t.claim # NoClaim /\ t # NoTenure
      BY <2>3 DEF Backed, Lasts, Claims, NoClaim, NoTenure
    <2>7. NoPendingClaim \in PendingClaim
      BY NullTypes
    <2>8. /\ g \in Controller /\ g.active = t /\ g.mode = "live" /\ g.pclaim = NoPendingClaim
          /\ g.pclose = k.pclose
      BY <1>1, <2>4, <2>5, <2>7 DEF Granted, Controller
    <2> HIDE DEF g
    <2>9. FieldsOK(g) /\ Covered(g) /\ Has(g)
      BY <1>3, <2>3, <2>6, <2>8 DEF FieldsOK, Covered, Has
    <2>10. Sound(g)
      BY <2>6, <2>8, <2>9 DEF Sound
    <2>11. RequestsOK(g, req[p], minted)
      <3>1. /\ k.pclaim.id = q.holder /\ q.holder <= minted /\ NoPendingClaim.id = 0
        BY <1>1, <1>3 DEF RequestsOK, NoPendingClaim
      <3>2. ASSUME NEW h, NEW c, Agrees(k, h, c, minted) PROVE Agrees(g, h, c, minted)
        BY <1>3, <2>8, <3>1, <3>2 DEF Agrees
      <3>3. \A s \in Slots : RequestOK(g, req[p][s], minted)
        BY <1>1, <3>2 DEF RequestsOK, RequestOK
      <3> QED BY <1>1, <1>3, <2>8, <3>1, <3>3 DEF RequestsOK
    <2>12. /\ Restricts(g, Scheduled(Unlapsed(g), RenewEvery))
           /\ Beating(Scheduled(Unlapsed(g), RenewEvery))
      BY <2>10, RescheduledFollows, ControllerAssumption
    <2> HIDE DEF k
    <2> QED BY <1>3, <1>4, <2>8, <2>9, <2>11, <2>12, ThenEndInv DEF k
  <1>5. CASE q.out = "rejected" /\ End(p, Stopped(f))
    <2>1. /\ f \in Controller /\ f.active = k.active /\ f.mode = k.mode
          /\ f.pclaim = NoPendingClaim /\ f.pclose = k.pclose
      BY <1>1, NullTypes DEF Controller
    <2> HIDE DEF f
    <2>2. FieldsOK(f) /\ Covered(f)
      BY <1>1, <2>1 DEF FieldsOK, Covered, Has
    <2>3. Sound(f)
      BY <2>1, <2>2, OwnSound
    <2>4. RequestsOK(f, req[p], minted)
      <3>1. \A h, c : Agrees(k, h, c, minted) => Agrees(f, h, c, minted)
        BY <2>1 DEF Agrees, Has
      <3>2. NoPendingClaim.id <= minted
        BY <1>1 DEF NoPendingClaim
      <3> QED BY <1>1, <2>1, <3>1, <3>2 DEF RequestsOK, RequestOK, Has
    <2>5. Restricts(f, Stopped(f)) /\ Beating(Stopped(f))
      BY <2>3, StoppedFollows DEF Follows, Beating
    <2> QED BY <1>3, <1>5, <2>1, <2>2, <2>4, <2>5, ThenEndInv
  <1>6. CASE End(p, Stopped(k))
    <2>1. Restricts(k, Stopped(k)) /\ Beating(Stopped(k))
      BY <1>1, StoppedFollows DEF Follows, Beating
    <2> QED BY <1>6, <2>1, RestrictsEndInv
  <1> QED BY <1>2, <1>4, <1>5, <1>6

\* A renewal that names the tenure held sets its deadline again.
LEMMA FinishRenewInv ==
    ASSUME ControllerInv, NEW p \in Controllers, FinishRenew(p)
    PROVE  ControllerInv' /\ Proper
  <1> DEFINE k == ctl[p]
             q == req[p][0]
             x == AnswerLeft(q)
             g == [k EXCEPT !.active.left = AnswerLeft(q), !.mode = "live"]
             t == [k.active EXCEPT !.left = x]
  <1>1. /\ Sound(k) /\ k \in Controller /\ FieldsOK(k) /\ Covered(k) /\ q \in Request
        /\ OperationOK(k, q) /\ AnswerOK(q) /\ RequestsOK(k, req[p], minted)
        /\ AuthorityTypeOK /\ req[p] \in [Slots -> Request] /\ minted \in Nat
        /\ k.active \in Tenure
    BY InvIsOwn, FieldTypes
  <1>2. /\ q.op = "renew" /\ q.tool = "issue_renew"
        /\ \/ Renews(k, q) /\ End(p, Scheduled(Unlapsed(g), RenewEvery))
           \/ End(p, Scheduled(Stopped(k), RenewRetry))
           \/ End(p, Lost(k))
    BY DEF FinishRenew, Replied, At
  <1>3. CASE Renews(k, q) /\ End(p, Scheduled(Unlapsed(g), RenewEvery))
    <2>1. q.out = "ok" /\ q.got = q.claim /\ Has(k) /\ k.active.left > 0
      BY <1>1, <1>3, UnlapsedFollows DEF Renews
    <2>2. /\ Backed(q.issue, q.holder, q.got, Monus(q.span, q.age))
          /\ x \in 0..TTL /\ Monus(q.span, q.age) \in 0..TTL /\ x <= Monus(q.span, q.age)
      BY <1>1, <1>2, <2>1, AnswerTime DEF AnswerOK
    <2>3. x \in Nat /\ Monus(q.span, q.age) \in Nat
      BY <2>2, AuthorityAssumption
    <2> HIDE DEF x
    <2>4. Backed(q.issue, q.holder, q.got, x)
      BY <1>1, <2>2, <2>3, LeaseLastsLess DEF Backed
    <2>5. /\ k.active.issue = q.issue /\ k.active.holder = q.holder /\ k.active.claim = q.got
          /\ k.pclose = NoPendingClose /\ k.pclaim = NoPendingClaim /\ k.mode # "stopped"
      BY <1>1, <1>2, <2>1 DEF OperationOK, FieldsOK
    <2>6. /\ t \in Tenure /\ t.issue = q.issue /\ t.holder = q.holder /\ t.claim = q.got
          /\ t.left = x
      BY <1>1, <2>2, <2>5 DEF Tenure
    <2>7. t.claim # NoClaim /\ t # NoTenure
      BY <2>4, <2>6 DEF Backed, Lasts, Claims, NoClaim, NoTenure
    <2>8. g = [k EXCEPT !.active = t, !.mode = "live"]
      BY <1>1 DEF x, Controller
    <2> HIDE DEF t
    <2>9. /\ g \in Controller /\ g.active = t /\ g.mode = "live" /\ g.pclaim = k.pclaim
          /\ g.pclose = k.pclose
      BY <1>1, <2>6, <2>8 DEF Controller
    <2> HIDE DEF g
    <2>10. FieldsOK(g) /\ Covered(g) /\ Has(g)
      BY <2>4, <2>5, <2>6, <2>7, <2>9 DEF FieldsOK, Covered, Has
    <2>11. Sound(g)
      BY <2>7, <2>9, <2>10 DEF Sound
    <2>12. RequestsOK(g, req[p], minted)
      <3>1. \A h, c : Agrees(k, h, c, minted) => Agrees(g, h, c, minted)
        BY <2>1, <2>5, <2>6, <2>9, <2>10 DEF Agrees
      <3> QED BY <1>1, <2>1, <2>5, <2>6, <2>9, <3>1 DEF RequestsOK, RequestOK
    <2>13. /\ Restricts(g, Scheduled(Unlapsed(g), RenewEvery))
           /\ Beating(Scheduled(Unlapsed(g), RenewEvery))
      BY <2>11, RescheduledFollows, ControllerAssumption
    <2> QED BY <1>3, <2>1, <2>9, <2>10, <2>12, <2>13, ThenEndInv
  <1>4. CASE End(p, Scheduled(Stopped(k), RenewRetry))
    <2>1. Follows(k, Stopped(k)) /\ Sound(Stopped(k))
      BY <1>1, StoppedFollows DEF Follows, Restricts
    <2>2. /\ Follows(Stopped(k), Scheduled(Stopped(k), RenewRetry))
          /\ Beating(Scheduled(Stopped(k), RenewRetry))
      BY <2>1, ScheduledFollows, ControllerAssumption
    <2>3. Follows(k, Scheduled(Stopped(k), RenewRetry))
      BY <1>1, <2>1, <2>2, FollowsTransitive
    <2> QED BY <1>4, <2>2, <2>3, RestrictsEndInv DEF Follows
  <1>5. CASE End(p, Lost(k))
    <2>1. Restricts(k, Lost(k)) /\ Beating(Lost(k))
      BY <1>1, LostFollows DEF Follows, Beating
    <2> QED BY <1>5, <2>1, RestrictsEndInv
  <1> QED BY <1>2, <1>3, <1>4, <1>5
\* #clearTenure, after any change that leaves the requests in order.
LEMMA ClearedOK ==
    ASSUME NEW k \in Controller, NEW r, NEW m \in Nat, RequestsOK(k, r, m)
    PROVE  /\ Cleared(k) \in Controller /\ FieldsOK(Cleared(k)) /\ Covered(Cleared(k))
           /\ Beating(Cleared(k)) /\ RequestsOK(Cleared(k), r, m)
           /\ Cleared(k).active = NoTenure
  <1> DEFINE j == Cleared(k)
  <1>1. NoTenure \in Tenure /\ NoPendingClaim \in PendingClaim
    BY NullTypes
  <1>2. Off \in 0..Off
    BY AuthorityAssumption DEF Off
  <1>3. /\ j \in Controller /\ j.active = NoTenure /\ j.pclaim = NoPendingClaim
        /\ j.mode = "idle" /\ j.pclose = k.pclose
    BY <1>1, <1>2 DEF Cleared, Controller
  <1> HIDE DEF j
  <1>4. FieldsOK(j) /\ Covered(j) /\ Beating(j) /\ ~Has(j)
    BY <1>3 DEF FieldsOK, Covered, Beating, Has
  <1>5. RequestsOK(j, r, m)
    <2>1. \A h, c : Agrees(k, h, c, m) => Agrees(j, h, c, m)
      BY <1>3, <1>4 DEF Agrees
    <2>2. NoPendingClaim.id <= m
      BY DEF NoPendingClaim
    <2> QED BY <1>3, <1>4, <2>1, <2>2 DEF RequestsOK, RequestOK
  <1> QED BY <1>3, <1>4, <1>5 DEF j

\* The tenure is cleared, dropped, or kept behind a shut gate.
LEMMA FinishReleaseInv ==
    ASSUME ControllerInv, NEW p \in Controllers, FinishRelease(p)
    PROVE  ControllerInv' /\ Proper
  <1> DEFINE k == ctl[p]
  <1>1. Sound(k) /\ k \in Controller /\ RequestsOK(k, req[p], minted) /\ minted \in Nat
    BY InvIsOwn
  <1>2. End(p, Cleared(k)) \/ End(p, Stopped(k)) \/ End(p, Lost(k))
    BY DEF FinishRelease
  <1>3. CASE End(p, Cleared(k))
    BY <1>1, <1>3, ClearedOK, EndInv
  <1>4. CASE End(p, Stopped(k))
    <2>1. Restricts(k, Stopped(k)) /\ Beating(Stopped(k))
      BY <1>1, StoppedFollows DEF Follows, Beating
    <2> QED BY <1>4, <2>1, RestrictsEndInv
  <1>5. CASE End(p, Lost(k))
    <2>1. Restricts(k, Lost(k)) /\ Beating(Lost(k))
      BY <1>1, LostFollows DEF Follows, Beating
    <2> QED BY <1>5, <2>1, RestrictsEndInv
  <1> QED BY <1>2, <1>3, <1>4, <1>5

\* What a look leaves behind.
LEMMA LookedFollows ==
    ASSUME ControllerInv, NEW p \in Controllers, req[p][0].op # "renew"
    PROVE  /\ Restricts(ctl[p], Refreshed(ctl[p], req[p][0]))
           /\ Beating(Refreshed(ctl[p], req[p][0]))
  <1>1. Sound(ctl[p]) /\ req[p][0] \in Request /\ OperationOK(ctl[p], req[p][0])
    BY InvIsOwn
  <1>2. Beating(ctl[p])
    BY <1>1 DEF OperationOK
  <1> QED BY <1>1, <1>2, RefreshedFollows DEF Follows

\* A look confirms the tenure or shuts the gate.
LEMMA FinishLookInv ==
    ASSUME ControllerInv, NEW p \in Controllers, FinishLook(p)
    PROVE  ControllerInv' /\ Proper
  <1>1. req[p][0].op # "renew" /\ End(p, Refreshed(ctl[p], req[p][0]))
    BY DEF FinishLook, Replied
  <1> QED BY <1>1, LookedFollows, RestrictsEndInv

\* The operation that looked first goes on with a fresh key.
LEMMA GoOnInv ==
    ASSUME ControllerInv, NEW p \in Controllers, NEW k, Restricts(ctl[p], k), Beating(k),
           req[p][0].tool = "issue_get", k.mode = "live", GoOn(p, k)
    PROVE  ControllerInv' /\ Proper
  <1> DEFINE q == req[p][0]
             t == k.active
             m == minted + 1
             c == [issue |-> t.issue, holder |-> t.holder, claim |-> t.claim, id |-> m]
             f == [k EXCEPT !.pclose = c]
             g == [k EXCEPT !.pcheckout = m]
  <1>1. /\ Sound(ctl[p]) /\ Covered(ctl[p]) /\ AuthorityTypeOK
        /\ RequestsOK(ctl[p], req[p], minted) /\ minted \in Nat
        /\ req[p] \in [Slots -> Request] /\ q \in Request /\ OperationOK(ctl[p], q)
    BY InvIsOwn
  <1>2. /\ k \in Controller /\ FieldsOK(k) /\ Covered(k) /\ RequestsOK(k, req[p], minted)
        /\ (Has(ctl[p]) /\ ctl[p].active.left = 0) => k.active \in {NoTenure, ctl[p].active}
        /\ Sound(k)
    BY <1>1, RestrictsKeeps DEF Restricts
  <1>3. /\ m \in Nat /\ minted <= m /\ RequestsOK(k, req[p], m)
    BY <1>1, <1>2, MoreDrawn
  <1>4. Has(k) /\ k.pclose = NoPendingClose /\ k.pclaim = NoPendingClaim
    BY <1>2 DEF FieldsOK
  <1>5. /\ t.issue \in Issues \cup {NoIssue} /\ t.holder \in Nat /\ t.claim \in Nat
        /\ t \in Tenure
    BY <1>2, FieldTypes
  <1>6. /\ ~q.retry /\ q.retry \in BOOLEAN
    BY <1>1 DEF OperationOK, Request
  <1>7. Agrees(k, t.holder, t.claim, m)
    BY <1>2, <1>3, <1>4, HeldAgrees
  <1>8. /\ minted' = m /\ UNCHANGED authorityVars
        /\ \/ /\ q.op = "close" /\ SetCtl(p, Stopped(f))
              /\ Send(p, "close", "issue_close", t.issue, t.holder, t.claim, m, q.retry)
           \/ /\ q.op = "checkout" /\ SetCtl(p, g)
              /\ Send(p, "checkout", "checkout", NoIssue, NoHolder, NoClaim, m, q.retry)
    BY DEF GoOn
  <1> HIDE DEF m
  <1>9. CASE /\ SetCtl(p, Stopped(f))
             /\ Send(p, "close", "issue_close", t.issue, t.holder, t.claim, m, q.retry)
    <2> DEFINE j == [f EXCEPT !.mode = "stop-editing", !.timer = Off]
               a == Asked("close", "issue_close", t.issue, t.holder, t.claim, m, q.retry)
    <2>1. c \in PendingClose /\ c.holder = t.holder /\ c.claim = t.claim
      BY <1>3, <1>5 DEF PendingClose
    <2> HIDE DEF c
    <2>2. f \in Controller /\ f.mode = "live" /\ f.active = t /\ f.pclaim = k.pclaim
          /\ f.pclose = c
      BY <1>2, <2>1 DEF Controller
    <2>3. Off \in 0..Off
      BY AuthorityAssumption DEF Off
    <2> HIDE DEF f, t
    <2>4. /\ j \in Controller /\ j.mode = "stop-editing" /\ j.active = t /\ j.pclaim = k.pclaim
          /\ j.pclose = c
      BY <2>2, <2>3 DEF Controller
    <2>5. Stopped(f) = j
      BY <2>2 DEF Stopped
    <2> HIDE DEF j
    <2>6. FieldsOK(j) /\ Covered(j) /\ Beating(j) /\ Has(j)
      BY <1>2, <1>4, <2>4 DEF FieldsOK, Covered, Beating, Has, t
    <2>7. \A h, d : Agrees(k, h, d, m) => Agrees(j, h, d, m)
      BY <1>4, <2>4, <2>6 DEF Agrees, t
    <2>8. RequestsOK(j, req[p], m)
      <3>1. Agrees(j, t.holder, t.claim, m)
        BY <1>7, <2>7
      <3>2. j.active.holder <= m /\ j.pclaim.id <= m
        BY <1>3, <1>4, <2>4 DEF RequestsOK, t
      <3> QED BY <1>3, <2>1, <2>4, <2>7, <3>1, <3>2 DEF RequestsOK, RequestOK
    <2>9. a.op = "close" /\ a.tool = "issue_close" /\ a.holder = t.holder /\ a.claim = t.claim
      BY DEF Asked, NoRequest
    <2> HIDE DEF a
    <2>10. OperationOK(j, a) /\ RequestOK(j, a, m)
      BY <1>7, <2>4, <2>6, <2>7, <2>9 DEF OperationOK, RequestOK
    <2>11. "close" \in Ops /\ "issue_close" \in Tools
      BY DEF Ops, Tools
    <2>12. (Has(ctl[p]) /\ ctl[p].active.left = 0) => j.active \in {NoTenure, ctl[p].active}
      BY <1>2, <2>4 DEF t
    <2>13. SetCtl(p, j) /\ Send(p, "close", "issue_close", t.issue, t.holder, t.claim, m, q.retry)
      BY <1>9, <2>5
    <2> HIDE DEF q
    <2>14. t.issue \in Issues \cup {NoIssue} /\ t.holder \in Nat /\ t.claim \in Nat
      BY <1>5
    <2> QED BY <1>3, <1>6, <1>8, <2>4, <2>6, <2>8, <2>10, <2>11, <2>12, <2>13, <2>14,
               SendInv DEF a
  <1>10. CASE /\ q.op = "checkout" /\ SetCtl(p, g)
              /\ Send(p, "checkout", "checkout", NoIssue, NoHolder, NoClaim, m, q.retry)
    <2> DEFINE a == Asked("checkout", "checkout", NoIssue, NoHolder, NoClaim, m, q.retry)
    <2>1. /\ g \in Controller /\ g.active = k.active /\ g.mode = k.mode /\ g.timer = k.timer
          /\ g.pclaim = k.pclaim /\ g.pclose = k.pclose /\ g.beats = k.beats
      BY <1>2, <1>3 DEF Controller
    <2> HIDE DEF g
    <2>2. FieldsOK(g) /\ Covered(g) /\ Beating(g)
      BY <1>2, <2>1 DEF FieldsOK, Covered, Beating, Has
    <2>3. RequestsOK(g, req[p], m)
      BY <1>3, <2>1 DEF RequestsOK, RequestOK, Agrees, Has
    <2>4. a.op = "checkout" /\ a.tool = "checkout"
      BY DEF Asked, NoRequest
    <2> HIDE DEF a
    <2>5. g.mode # "stopped"
      BY <2>1
    <2>6. OperationOK(g, a) /\ RequestOK(g, a, m)
      BY <2>2, <2>4, <2>5 DEF OperationOK, RequestOK
    <2>7. /\ "checkout" \in Ops /\ "checkout" \in Tools /\ NoIssue \in Issues \cup {NoIssue}
          /\ NoHolder \in Nat /\ NoClaim \in Nat
      BY DEF Ops, Tools, NoHolder, NoClaim
    <2>8. (Has(ctl[p]) /\ ctl[p].active.left = 0) => g.active \in {NoTenure, ctl[p].active}
      BY <1>2, <2>1
    <2> HIDE DEF q
    <2> QED BY <1>3, <1>6, <1>8, <1>10, <2>1, <2>2, <2>3, <2>6, <2>7, <2>8, SendInv DEF a
  <1> QED BY <1>8, <1>9, <1>10

\* A close or a checkout goes on after its look, or ends.
LEMMA AfterLookInv ==
    ASSUME ControllerInv, NEW p \in Controllers, AfterLook(p)
    PROVE  ControllerInv' /\ Proper
  <1> DEFINE k == Refreshed(ctl[p], req[p][0])
  <1>1. req[p][0].op # "renew" /\ req[p][0].tool = "issue_get"
    BY DEF AfterLook, Replied, At
  <1>2. \/ k.mode = "live" /\ GoOn(p, k)
        \/ End(p, k)
    BY DEF AfterLook, Confirmed
  <1>3. Restricts(ctl[p], k) /\ Beating(k)
    BY <1>1, LookedFollows
  <1> HIDE DEF k
  <1> QED BY <1>1, <1>2, <1>3, GoOnInv, RestrictsEndInv

\* The close is resolved, or stays as it was.
LEMMA FinishCloseInv ==
    ASSUME ControllerInv, NEW p \in Controllers, FinishClose(p)
    PROVE  ControllerInv' /\ Proper
  <1> DEFINE c == ctl[p]
             k == [c EXCEPT !.pclose = NoPendingClose]
  <1>1. /\ Sound(c) /\ c \in Controller /\ FieldsOK(c) /\ Covered(c)
        /\ RequestsOK(c, req[p], minted) /\ minted \in Nat /\ OperationOK(c, req[p][0])
    BY InvIsOwn
  <1>2. /\ req[p][0].op = "close"
        /\ \/ End(p, Cleared(k)) \/ End(p, Lost(k)) \/ End(p, Scheduled(Stopped(k), RenewEvery))
           \/ End(p, c)
    BY DEF FinishClose, Replied
  <1>3. /\ k \in Controller /\ k.active = c.active /\ k.mode = c.mode
        /\ k.pclaim = c.pclaim /\ k.pclose = NoPendingClose
    BY <1>1, NullTypes DEF Controller
  <1> HIDE DEF k
  <1>4. FieldsOK(k) /\ Covered(k)
    BY <1>1, <1>3 DEF FieldsOK, Covered, Has
  <1>5. Sound(k)
    BY <1>3, <1>4, OwnSound
  <1>6. RequestsOK(k, req[p], minted)
    <2>1. \A h, d : Agrees(c, h, d, minted) => Agrees(k, h, d, minted)
      BY <1>3 DEF Agrees, Has
    <2> QED BY <1>1, <1>3, <2>1 DEF RequestsOK, RequestOK, Has
  <1>7. CASE End(p, Cleared(k))
    BY <1>1, <1>3, <1>6, <1>7, ClearedOK, EndInv
  <1>8. CASE End(p, Lost(k))
    <2>1. Restricts(k, Lost(k)) /\ Beating(Lost(k))
      BY <1>5, LostFollows DEF Follows, Beating
    <2> QED BY <1>3, <1>4, <1>6, <1>8, <2>1, ThenEndInv
  <1>9. CASE End(p, Scheduled(Stopped(k), RenewEvery))
    <2>1. Follows(k, Stopped(k)) /\ Sound(Stopped(k))
      BY <1>5, StoppedFollows DEF Follows, Restricts
    <2>2. /\ Follows(Stopped(k), Scheduled(Stopped(k), RenewEvery))
          /\ Beating(Scheduled(Stopped(k), RenewEvery))
      BY <2>1, ScheduledFollows, ControllerAssumption
    <2>3. Restricts(k, Scheduled(Stopped(k), RenewEvery))
      BY <1>5, <2>1, <2>2, FollowsTransitive DEF Follows
    <2> QED BY <1>3, <1>4, <1>6, <1>9, <2>2, <2>3, ThenEndInv
  <1>10. CASE End(p, c)
    <2>1. Beating(c) /\ Restricts(c, c)
      BY <1>1, <1>2, SelfFollows DEF OperationOK, Follows
    <2> QED BY <1>10, <2>1, RestrictsEndInv
  <1> QED BY <1>2, <1>7, <1>8, <1>9, <1>10

\* Every answer.
LEMMA FinishInv ==
    ASSUME ControllerInv, NEW p \in Controllers, Finish(p)
    PROVE  ControllerInv' /\ Proper
  <1> DEFINE c == ctl[p]
             j == [c EXCEPT !.pcheckout = 0]
  <1>1. Sound(c) /\ c \in Controller /\ OperationOK(c, req[p][0])
    BY InvIsOwn
  <1>2. ASSUME req[p][0].op # "renew", End(p, c)
        PROVE  ControllerInv' /\ Proper
    <2>1. Beating(c) /\ Restricts(c, c)
      BY <1>1, <1>2, SelfFollows DEF OperationOK, Follows
    <2> QED BY <1>2, <2>1, RestrictsEndInv
  <1>3. CASE FinishCheckout(p) /\ End(p, j)
    <2>1. /\ j \in Controller /\ j.active = c.active /\ j.mode = c.mode /\ j.timer = c.timer
          /\ j.pclaim = c.pclaim /\ j.pclose = c.pclose /\ j.beats = c.beats
      BY <1>1 DEF Controller
    <2> HIDE DEF j
    <2>2. /\ FieldsOK(c) /\ Covered(c) /\ RequestsOK(c, req[p], minted)
      BY InvIsOwn
    <2>3. Beating(c)
      BY <1>1, <1>3 DEF OperationOK, FinishCheckout, Replied
    <2>4. FieldsOK(j) /\ Covered(j) /\ Beating(j)
      BY <2>1, <2>2, <2>3 DEF FieldsOK, Covered, Beating, Has
    <2>5. RequestsOK(j, req[p], minted)
      BY <2>1, <2>2 DEF RequestsOK, RequestOK, Agrees, Has
    <2> QED BY <1>3, <2>1, <2>4, <2>5, EndInv
  <1>4. CASE FinishCheckout(p) /\ End(p, c)
    BY <1>2, <1>4 DEF FinishCheckout, Replied
  <1>5. CASE FinishFarewell(p)
    BY <1>2, <1>5 DEF FinishFarewell, Replied
  <1>6. FinishCheckout(p) => End(p, c) \/ End(p, j)
    BY DEF FinishCheckout
  <1> QED BY <1>3, <1>4, <1>5, <1>6, FinishClaimInv, FinishRenewInv, FinishReleaseInv,
             FinishLookInv, AfterLookInv, FinishCloseInv DEF Finish
-----------------------------------------------------------------------------
(* Requests given up, and runtimes that end.                                 *)

\* A request that lives on names what it named before.
LEMMA StrayOK ==
    ASSUME NEW q \in Request
    PROVE  /\ Stray(q) \in Request /\ Stray(q).tool = q.tool /\ Stray(q).issue = q.issue
           /\ Stray(q).holder = q.holder /\ Stray(q).claim = q.claim
  <1>1. 0 \in 0..TTL
    BY AuthorityAssumption
  <1> QED BY <1>1 DEF Stray, Request

\* What the slots of a controller hold once it stopped waiting for a request.
LEMMA AbandonedOK ==
    ASSUME NEW p \in Controllers, req[p] \in [Slots -> Request], NEW x \in Request,
           NEW slots \in Abandoned(p, x), NEW k, NEW m,
           \A s \in Slots : RequestOK(k, req[p][s], m), RequestOK(k, x, m)
    PROVE  /\ slots \in [Slots -> Request] /\ slots[0] = x
           /\ \A s \in Slots : RequestOK(k, slots[s], m)
  <1> DEFINE q == req[p][0]
             r == [req[p] EXCEPT ![0] = x]
  <1>1. 0 \in Slots
    BY ControllerAssumption DEF Slots
  <1>2. q \in Request /\ RequestOK(k, q, m)
    BY <1>1
  <1>3. /\ r \in [Slots -> Request] /\ r[0] = x
        /\ \A s \in Slots : RequestOK(k, r[s], m)
    BY <1>1
  <1>4. \/ slots = r
        \/ \E s \in Slots \ {0} : slots = [req[p] EXCEPT ![0] = x, ![s] = Stray(q)]
    BY DEF Abandoned
  <1>5. CASE slots = r
    BY <1>3, <1>5
  <1>6. CASE slots # r
    <2>1. PICK s \in Slots \ {0} : slots = [r EXCEPT ![s] = Stray(q)]
      BY <1>4, <1>6
    <2>2. Stray(q) \in Request /\ RequestOK(k, Stray(q), m)
      BY <1>2, StrayOK DEF RequestOK
    <2> HIDE DEF q, r
    <2> QED BY <1>1, <1>3, <2>1, <2>2
  <1> QED BY <1>5, <1>6

\* A time limit, an abort or a lost answer: the outcome is unknown.
LEMMA LossInv ==
    ASSUME ControllerInv, NEW p \in Controllers, Loss(p)
    PROVE  ControllerInv' /\ Proper
  <1> DEFINE k == ctl[p]
             q == req[p][0]
             x == [q EXCEPT !.stage = "reply", !.out = "unknown"]
  <1>1. /\ Sound(k) /\ k \in Controller /\ OwnOK(k, req[p], minted) /\ minted \in Nat
        /\ req[p] \in [Slots -> Request] /\ q \in Request /\ OperationOK(k, q)
        /\ ctl \in [Controllers -> Controller] /\ req \in [Controllers -> [Slots -> Request]]
        /\ \A s \in Slots : RequestOK(k, req[p][s], minted)
    BY InvIsOwn DEF RequestsOK
  <1>2. UNCHANGED <<authorityVars, minted>> /\ ctl' = ctl
    BY DEF Loss, GiveUp, Vanish
  <1>3. ctl' = [ctl EXCEPT ![p] = k] /\ minted' = minted /\ minted <= minted
    BY <1>1, <1>2
  <1>4. 0 \in Slots
    BY ControllerAssumption DEF Slots
  <1>5. CASE GiveUp(p)
    <2>1. PICK slots \in Abandoned(p, x) : req' = [req EXCEPT ![p] = slots]
      BY <1>5 DEF GiveUp
    <2>2. /\ x \in Request /\ x.op = q.op /\ x.tool = q.tool /\ x.issue = q.issue
          /\ x.holder = q.holder /\ x.claim = q.claim /\ x.out = "unknown" /\ x.stage = "reply"
      BY <1>1 DEF Request
    <2>3. x.retry <=> q.retry
      BY <1>1, Zenon DEF Request
    <2> HIDE DEF x
    <2>4. RequestOK(k, q, minted)
      BY <1>1, <1>4
    <2>5. OperationOK(k, x) /\ AnswerOK(x) /\ RequestOK(k, x, minted)
      <3>1. AnswerOK(x)
        BY <2>2 DEF AnswerOK
      <3>2. RequestOK(k, x, minted)
        BY <2>2, <2>4 DEF RequestOK
      <3>3. OperationOK(k, x)
        BY <1>1, <2>2, <2>3 DEF OperationOK
      <3> QED BY <3>1, <3>2, <3>3
    <2>6. /\ slots \in [Slots -> Request] /\ slots[0] = x
          /\ \A s \in Slots : RequestOK(k, slots[s], minted)
      BY <1>1, <2>2, <2>5, AbandonedOK
    <2>7. OwnOK(k, slots, minted)
      BY <1>1, <2>5, <2>6 DEF OwnOK, RequestsOK
    <2>8. Moves(k, k, slots)
      BY DEF Moves
    <2> QED BY <1>1, <1>2, <1>3, <2>1, <2>7, <2>8, ClientInv
  <1>6. ASSUME NEW s \in Slots, Vanish(p, s)
        PROVE  ControllerInv' /\ Proper
    <2> DEFINE r == [req[p] EXCEPT ![s] = NoRequest]
    <2>1. s # 0 /\ req' = [req EXCEPT ![p] = r]
      BY <1>1, <1>6 DEF Vanish
    <2>2. NoRequest \in Request /\ RequestOK(k, NoRequest, minted)
      BY NullTypes DEF RequestOK, NoRequest
    <2>3. r \in [Slots -> Request] /\ r[0] = q /\ \A t \in Slots : RequestOK(k, r[t], minted)
      BY <1>1, <1>4, <2>1, <2>2
    <2> HIDE DEF r, q
    <2>4. OwnOK(k, r, minted)
      BY <1>1, <2>3 DEF OwnOK, RequestsOK, q
    <2>5. Moves(k, k, r)
      BY DEF Moves
    <2> QED BY <1>1, <1>2, <1>3, <2>1, <2>4, <2>5, ClientInv
  <1> QED BY <1>5, <1>6 DEF Loss

\* A runtime that ends holds and awaits nothing; what it leaves behind agrees
\* with fields that hold nothing.
LEMMA StopInv ==
    ASSUME ControllerInv, UNCHANGED <<authorityVars, minted>>, NEW p \in Controllers,
           NEW x \in Request, x.op \in {"none", "farewell"}, x.out = "none",
           x.stage \in {"none", "kata"}, x.tool \in {"none", "issue_release"},
           ~x.retry, x.holder <= minted,
           SetCtl(p, StoppedForGood(ctl[p])),
           \E slots \in Abandoned(p, x) : req' = [req EXCEPT ![p] = slots]
    PROVE  ControllerInv' /\ Proper
  <1> DEFINE k == ctl[p]
             j == StoppedForGood(k)
  <1>1. /\ k \in Controller /\ minted \in Nat /\ req[p] \in [Slots -> Request]
        /\ RequestsOK(k, req[p], minted)
    BY InvIsOwn
  <1>2. /\ j \in Controller /\ j.mode = "stopped" /\ j.active = NoTenure
        /\ j.pclaim = NoPendingClaim /\ j.pclose = NoPendingClose
    BY <1>1, NullTypes DEF StoppedForGood, NewController, Controller
  <1>3. SetCtl(p, j)
    OBVIOUS
  <1> HIDE DEF j
  <1>4. ASSUME NEW h, NEW c, h <= minted PROVE Agrees(j, h, c, minted)
    BY <1>2, <1>4 DEF Agrees, Has
  <1>5. \A s \in Slots : RequestOK(j, req[p][s], minted)
    BY <1>1, <1>4 DEF RequestsOK, RequestOK, Agrees
  <1>6. RequestOK(j, x, minted)
    BY <1>4 DEF RequestOK
  <1>7. PICK slots \in Abandoned(p, x) : req' = [req EXCEPT ![p] = slots]
    OBVIOUS
  <1>8. /\ slots \in [Slots -> Request] /\ slots[0] = x
        /\ \A s \in Slots : RequestOK(j, slots[s], minted)
    BY <1>1, <1>5, <1>6, AbandonedOK
  <1>9. FieldsOK(j) /\ Covered(j)
    BY <1>2 DEF FieldsOK, Covered, Has
  <1>10. OperationOK(j, x) /\ AnswerOK(x)
    <2>1. x.op # "claim" /\ x.op # "renew" /\ x.tool # "issue_get"
      OBVIOUS
    <2>2. Beating(j)
      BY <1>2 DEF Beating
    <2> QED BY <2>1, <2>2 DEF OperationOK, AnswerOK
  <1>11. RequestsOK(j, slots, minted)
    BY <1>1, <1>2, <1>8 DEF RequestsOK, Has, NoPendingClaim
  <1>12. OwnOK(j, slots, minted)
    BY <1>2, <1>8, <1>9, <1>10, <1>11 DEF OwnOK
  <1>13. Moves(k, j, slots)
    BY <1>2, <1>8 DEF Moves
  <1>14. minted <= minted /\ minted' = minted /\ UNCHANGED authorityVars
    BY <1>1
  <1>15. ctl' = [ctl EXCEPT ![p] = j]
    BY <1>3 DEF SetCtl
  <1> HIDE DEF k
  <1> QED BY <1>1, <1>7, <1>12, <1>13, <1>14, <1>15, ClientInv DEF k

\* shutdown leaves one release of its own tenure behind, a crash nothing.
LEMMA StopsInv ==
    ASSUME ControllerInv, NEW p \in Controllers, Shutdown(p) \/ Crash(p)
    PROVE  ControllerInv' /\ Proper
  <1> DEFINE t == ctl[p].active
             f == [NoRequest EXCEPT !.op = "farewell", !.tool = "issue_release",
                      !.stage = "kata", !.issue = t.issue, !.holder = t.holder,
                      !.claim = t.claim]
  <1>1. /\ ctl[p] \in Controller /\ minted \in Nat /\ RequestsOK(ctl[p], req[p], minted)
    BY InvIsOwn
  <1>2. t.issue \in Issues \cup {NoIssue} /\ t.holder \in Nat /\ t.claim \in Nat
    BY <1>1, FieldTypes
  <1>3. UNCHANGED <<authorityVars, minted>> /\ SetCtl(p, StoppedForGood(ctl[p]))
    BY DEF Shutdown, Crash
  <1>4. /\ NoRequest \in Request /\ NoRequest.op = "none" /\ NoRequest.out = "none"
        /\ NoRequest.stage = "none" /\ NoRequest.tool = "none" /\ NoRequest.holder <= minted
    BY <1>1, NullTypes DEF NoRequest, NoHolder
  <1>5. ~NoRequest.retry
    BY Zenon DEF NoRequest
  <1>6. CASE \E slots \in Abandoned(p, NoRequest) : req' = [req EXCEPT ![p] = slots]
    BY <1>3, <1>4, <1>5, <1>6, StopInv
  <1>7. CASE /\ t # NoTenure
             /\ \E slots \in Abandoned(p, f) : req' = [req EXCEPT ![p] = slots]
    <2>1. /\ f.op = "farewell" /\ f.out = "none" /\ f.stage = "kata"
          /\ f.tool = "issue_release" /\ f.holder = t.holder
      BY DEF NoRequest
    <2>2. f \in Request
      BY <1>2, <1>4 DEF Request
    <2>3. ~f.retry
      BY Zenon DEF NoRequest
    <2>4. f.holder <= minted
      BY <1>1, <1>7, <2>1 DEF RequestsOK, Has
    <2> HIDE DEF f
    <2> QED BY <1>3, <1>7, <2>1, <2>2, <2>3, <2>4, StopInv
  <1>8. \/ \E slots \in Abandoned(p, NoRequest) : req' = [req EXCEPT ![p] = slots]
        \/ /\ t # NoTenure
           /\ \E slots \in Abandoned(p, f) : req' = [req EXCEPT ![p] = slots]
    <2>1. CASE Crash(p)
      BY <2>1 DEF Crash
    <2>2. CASE Shutdown(p) /\ t = NoTenure
      BY <2>2 DEF Shutdown
    <2>3. CASE Shutdown(p) /\ t # NoTenure
      BY <2>3 DEF Shutdown
    <2> QED BY <2>1, <2>2, <2>3
  <1> HIDE DEF t, f
  <1> QED BY <1>6, <1>7, <1>8
-----------------------------------------------------------------------------
(* The authority moves.                                                      *)

\* A transaction keeps what covers a tenure, and what backs an answer.
LEMMA TransactionCovers ==
    ASSUME AuthorityOK, Transaction
    PROVE  /\ \A k \in Controller : Covered(k) => Covered(k)'
           /\ \A q \in Request : AnswerOK(q) => AnswerOK(q)'
  <1>1. ASSUME NEW i, NEW h, NEW c, NEW n \in Nat, Backed(i, h, c, n)
        PROVE  Backed(i, h, c, n)'
    BY <1>1, BackedAfter
  <1>2. ASSUME NEW k \in Controller, Covered(k)
        PROVE  Covered(k)'
    <2>1. k.active.left \in Nat
      BY FieldTypes
    <2> QED BY <1>1, <1>2, <2>1 DEF Covered
  <1>3. ASSUME NEW q \in Request, AnswerOK(q)
        PROVE  AnswerOK(q)'
    <2>1. q.span \in Nat /\ Monus(q.span, q.age) \in Nat
      BY AnswerTime, AuthorityAssumption DEF Request
    <2>2. Monus(q.span, q.age)' = Monus(q.span, q.age)
      BY DEF Monus
    <2> QED BY <1>1, <1>3, <2>1, <2>2 DEF AnswerOK
  <1> QED BY <1>2, <1>3

\* A transaction that leaves x in slot s of controller p.
LEMMA ServerInv ==
    ASSUME ControllerInv, Transaction, UNCHANGED <<ctl, minted>>,
           NEW p \in Controllers, NEW s \in Slots, NEW x \in Request,
           req' = [req EXCEPT ![p] = [req[p] EXCEPT ![s] = x]],
           RequestOK(ctl[p], x, minted),
           s = 0 => OperationOK(ctl[p], x) /\ AnswerOK(x)'
    PROVE  ControllerInv' /\ Proper
  <1>1. /\ AuthorityOK /\ minted \in Nat /\ req[p] \in [Slots -> Request]
        /\ ctl \in [Controllers -> Controller] /\ req \in [Controllers -> [Slots -> Request]]
    BY InvIsOwn
  <1>2. AuthorityTypeOK' /\ RowsOK'
    BY <1>1, TransactionType, TransactionRows DEF AuthorityOK
  <1> DEFINE r == [req[p] EXCEPT ![s] = x]
  <1>3. /\ r \in [Slots -> Request]
        /\ \A t \in Slots : r[t] = IF t = s THEN x ELSE req[p][t]
    BY <1>1
  <1>4. 0 \in Slots
    BY ControllerAssumption DEF Slots
  <1>5. req' = [req EXCEPT ![p] = r]
    OBVIOUS
  <1> HIDE DEF r
  <1>6. /\ req' \in [Controllers -> [Slots -> Request]] /\ req'[p] = r
        /\ \A y \in Controllers : y # p => req'[y] = req[y]
    BY <1>1, <1>3, <1>5
  <1>7. TypeOK'
    BY <1>1, <1>2, <1>6 DEF TypeOK, ControllerTypeOK
  <1>8. ASSUME NEW y \in Controllers
        PROVE  /\ FieldsOK(ctl[y])' /\ Covered(ctl[y])'
               /\ OperationOK(ctl[y], req[y][0])' /\ AnswerOK(req[y][0])'
               /\ RequestsOK(ctl[y], req[y], minted)' /\ Moves(ctl[y], ctl'[y], req'[y])
    <2>1. /\ FieldsOK(ctl[y]) /\ Covered(ctl[y]) /\ OperationOK(ctl[y], req[y][0])
          /\ AnswerOK(req[y][0]) /\ RequestsOK(ctl[y], req[y], minted)
          /\ ctl[y] \in Controller /\ req[y][0] \in Request
      BY InvIsOwn
    <2>2. PICK k \in Controller : k = ctl[y]
      BY <2>1
    <2>3. ctl'[y] = k
      BY <2>2
    <2>4. Covered(k)'
      BY <1>1, <2>1, <2>2, TransactionCovers
    <2>5. FieldsOK(ctl[y])' /\ Covered(ctl[y])'
      <3>1. FieldsOK(ctl[y])'
        BY <2>1, <2>2, <2>3 DEF FieldsOK, Has
      <3>2. Covered(ctl[y])'
        BY <2>3, <2>4 DEF Covered, Has
      <3> QED BY <3>1, <3>2
    <2>6. /\ OperationOK(ctl[y], req'[y][0])
          /\ RequestsOK(ctl[y], req'[y], minted)
      <3>1. CASE y = p
        BY <1>3, <1>4, <1>6, <2>1, <3>1 DEF RequestsOK
      <3>2. CASE y # p
        BY <1>6, <2>1, <3>2
      <3> QED BY <3>1, <3>2
    <2>7. AnswerOK(req[y][0])'
      <3>1. PICK q \in Request : q = req[y][0]
        BY <2>1
      <3>2. AnswerOK(q)'
        BY <1>1, <2>1, <3>1, TransactionCovers
      <3>3. req'[y][0] = q \/ (req'[y][0] = x /\ s = 0)
        BY <1>3, <1>4, <1>6, <3>1
      <3> QED BY <3>2, <3>3 DEF AnswerOK
    <2>8. /\ OperationOK(ctl[y], req[y][0])' /\ RequestsOK(ctl[y], req[y], minted)'
      <3>1. OperationOK(k, req'[y][0]) /\ RequestsOK(k, req'[y], minted')
        BY <2>2, <2>6
      <3> QED BY <2>3, <3>1
    <2>9. Moves(ctl[y], ctl'[y], req'[y])
      BY <2>2, <2>3 DEF Moves
    <2> QED BY <2>5, <2>7, <2>8, <2>9
  <1> QED BY <1>2, <1>7, <1>8 DEF ControllerInv, Proper
\* The facts about a request the server works on, by name.
LEMMA SlotFacts ==
    ASSUME ControllerInv, NEW p \in Controllers, NEW s \in Slots
    PROVE  /\ req[p][s] \in Request /\ RequestOK(ctl[p], req[p][s], minted)
           /\ req[p][s].issue \in Issues \cup {NoIssue} /\ req[p][s].holder \in Nat
           /\ req[p][s].claim \in Nat /\ req[p][s].key \in Nat
           /\ req[p][s].span \in 0..TTL /\ req[p][s].age \in 0..TTL /\ req[p][s].got \in Nat
           /\ s = 0 => OperationOK(ctl[p], req[p][s]) /\ AnswerOK(req[p][s])
           /\ AuthorityOK /\ req \in [Controllers -> [Slots -> Request]]
  <1>1. req[p] \in [Slots -> Request] /\ RequestsOK(ctl[p], req[p], minted)
    BY InvIsOwn
  <1>2. req[p][s] \in Request
    BY <1>1
  <1> QED BY <1>1, <1>2, InvIsOwn DEF Request, RequestsOK

\* A request goes on to another stage of its tool.
LEMMA StageInv ==
    ASSUME ControllerInv, Transaction, UNCHANGED <<ctl, minted>>,
           NEW p \in Controllers, NEW s \in Slots, NEW x \in Request,
           req' = [req EXCEPT ![p][s] = x],
           x.op = req[p][s].op, x.tool = req[p][s].tool, x.issue = req[p][s].issue,
           x.holder = req[p][s].holder, x.claim = req[p][s].claim,
           x.retry <=> req[p][s].retry,
           s = 0 => AnswerOK(x)'
    PROVE  ControllerInv' /\ Proper
  <1>1. /\ RequestOK(ctl[p], req[p][s], minted)
        /\ s = 0 => OperationOK(ctl[p], req[p][s])
        /\ req \in [Controllers -> [Slots -> Request]]
    BY SlotFacts
  <1>2. RequestOK(ctl[p], x, minted)
    BY <1>1 DEF RequestOK
  <1>3. s = 0 => OperationOK(ctl[p], x)
    BY <1>1 DEF OperationOK
  <1>4. req' = [req EXCEPT ![p] = [req[p] EXCEPT ![s] = x]]
    BY <1>1
  <1> QED BY <1>2, <1>3, <1>4, ServerInv

\* The answer of an abandoned request goes nowhere.
LEMMA UnheardInv ==
    ASSUME ControllerInv, Transaction, UNCHANGED <<ctl, minted>>,
           NEW p \in Controllers, NEW s \in Slots \ {0},
           req' = [req EXCEPT ![p][s] = NoRequest]
    PROVE  ControllerInv' /\ Proper
  <1>1. NoRequest \in Request /\ RequestOK(ctl[p], NoRequest, minted)
    BY NullTypes DEF RequestOK, NoRequest
  <1>2. req' = [req EXCEPT ![p] = [req[p] EXCEPT ![s] = NoRequest]]
    BY SlotFacts
  <1> QED BY <1>1, <1>2, ServerInv

\* An answer that grants no time.
LEMMA AnswerInv ==
    ASSUME ControllerInv, Transaction, UNCHANGED <<ctl, minted>>,
           NEW p \in Controllers, NEW s \in Slots,
           NEW out \in {"ok", "rejected", "lost", "unknown"}, Answer(p, s, out),
           out = "ok" => req[p][s].tool \notin {"issue_claim", "issue_renew"}
    PROVE  ControllerInv' /\ Proper
  <1> DEFINE q == req[p][s]
             x == [q EXCEPT !.stage = "reply", !.out = out]
  <1>1. q \in Request /\ req \in [Controllers -> [Slots -> Request]]
    BY SlotFacts
  <1>2. CASE s = 0
    <2>1. req' = [req EXCEPT ![p][s] = x]
      BY <1>1, <1>2 DEF Answer
    <2>2. /\ x \in Request /\ x.op = q.op /\ x.tool = q.tool /\ x.issue = q.issue
          /\ x.holder = q.holder /\ x.claim = q.claim /\ x.out = out /\ x.stage = "reply"
      <3> DEFINE y == [q EXCEPT !.stage = "reply"]
      <3>1. /\ y.op = q.op /\ y.tool = q.tool /\ y.issue = q.issue
            /\ y.holder = q.holder /\ y.claim = q.claim /\ y.stage = "reply"
        BY <1>1 DEF Request
      <3>2. y \in Request
        BY <1>1 DEF Request
      <3>3. x = [y EXCEPT !.out = out]
        OBVIOUS
      <3> HIDE DEF x, y
      <3>4. /\ x.op = y.op /\ x.tool = y.tool /\ x.issue = y.issue
            /\ x.holder = y.holder /\ x.claim = y.claim /\ x.out = out /\ x.stage = y.stage
        BY <3>2, <3>3 DEF Request
      <3>5. x \in Request
        BY <3>2, <3>3 DEF Request
      <3> QED BY <3>1, <3>4, <3>5
    <2>3. x.retry <=> q.retry
      BY <1>1, Zenon DEF Request
    <2>4. PICK y \in Request : y = x
      BY <2>2
    <2>5. /\ y.tool = q.tool /\ y.out = out /\ y.stage = "reply"
      BY <2>2, <2>4
    <2>6. out = "ok" => y.tool \notin {"issue_claim", "issue_renew"}
      BY <2>5
    <2>7. AnswerOK(y)'
      BY <2>5, <2>6 DEF AnswerOK
    <2>8. /\ y.op = q.op /\ y.issue = q.issue /\ y.holder = q.holder /\ y.claim = q.claim
          /\ req' = [req EXCEPT ![p][s] = y]
      BY <2>1, <2>2, <2>4
    <2>9. y.retry <=> q.retry
      BY <2>3, <2>4
    <2> HIDE DEF x
    <2> QED BY <2>5, <2>7, <2>8, <2>9, StageInv
  <1>3. CASE s # 0
    <2>1. req' = [req EXCEPT ![p][s] = NoRequest]
      BY <1>1, <1>3 DEF Answer
    <2> QED BY <1>3, <2>1, UnheardInv
  <1> QED BY <1>2, <1>3

\* An answer with a lease that the authority then backs.
LEMMA AnswerLeaseInv ==
    ASSUME ControllerInv, Transaction, UNCHANGED <<ctl, minted>>,
           NEW p \in Controllers, NEW s \in Slots, NEW c \in Nat, NEW span \in 0..TTL,
           AnswerLease(p, s, c, span),
           NEW i, NEW h, i = req[p][s].issue, h = req[p][s].holder,
           (s = 0 /\ req[p][s].tool \in {"issue_claim", "issue_renew"}) => Backed(i, h, c, span)'
    PROVE  ControllerInv' /\ Proper
  <1> DEFINE q == req[p][s]
             x == [q EXCEPT !.stage = "reply", !.out = "ok", !.got = c, !.span = span]
  <1>1. q \in Request /\ req \in [Controllers -> [Slots -> Request]] /\ AuthorityOK
    BY SlotFacts
  <1>2. CASE s = 0
    <2>1. req' = [req EXCEPT ![p][s] = x]
      BY <1>1, <1>2 DEF AnswerLease
    <2>2. /\ x \in Request /\ x.op = q.op /\ x.tool = q.tool /\ x.issue = q.issue
          /\ x.holder = q.holder /\ x.claim = q.claim /\ x.out = "ok" /\ x.stage = "reply"
          /\ x.got = c /\ x.span = span
      BY <1>1 DEF Request
    <2>3. x.retry <=> q.retry
      BY <1>1, Zenon DEF Request
    <2>4. PICK y \in Request : y = x
      BY <2>2
    <2>5. /\ y.tool = q.tool /\ y.stage = "reply" /\ y.got = c /\ y.span = span
          /\ y.op = q.op /\ y.issue = q.issue /\ y.holder = q.holder /\ y.claim = q.claim
          /\ req' = [req EXCEPT ![p][s] = y] /\ y.out = "ok"
      BY <2>1, <2>2, <2>4
    <2>6. y.retry <=> q.retry
      BY <2>3, <2>4
    <2>7. AnswerOK(y)'
      <3>1. /\ AuthorityTypeOK' /\ y.span \in Nat /\ y.age \in Nat
            /\ Monus(y.span, y.age) \in Nat /\ Monus(y.span, y.age) <= y.span
        <4>1. y.span \in 0..TTL /\ y.age \in 0..TTL
          BY DEF Request
        <4>2. AuthorityTypeOK'
          BY <1>1, TransactionType DEF AuthorityOK
        <4> QED BY <4>1, <4>2, AuthorityAssumption DEF Monus
      <3>2. ASSUME y.tool \in {"issue_claim", "issue_renew"}
            PROVE  Backed(y.issue, y.holder, y.got, Monus(y.span, y.age))'
        <4>1. Backed(i, h, c, span)'
          BY <1>2, <2>5, <3>2
        <4>2. PICK n \in Nat : n = Monus(y.span, y.age)
          BY <3>1
        <4>3. Lasts(c, n)'
          BY <2>5, <3>1, <4>1, <4>2, LastsLessAfter DEF Backed
        <4>4. Backed(i, h, c, n)'
          BY <4>1, <4>3 DEF Backed
        <4>5. Monus(y.span, y.age)' = n
          BY <4>2 DEF Monus
        <4> QED BY <2>5, <4>4, <4>5
      <3> QED BY <2>5, <3>2 DEF AnswerOK
    <2> HIDE DEF x
    <2> QED BY <2>5, <2>6, <2>7, StageInv
  <1>3. CASE s # 0
    <2>1. req' = [req EXCEPT ![p][s] = NoRequest]
      BY <1>1, <1>3 DEF AnswerLease
    <2> QED BY <1>3, <2>1, UnheardInv
  <1> QED BY <1>2, <1>3
\* issue_claim in the daemon: the issue is shown.
LEMMA ShowIssueInv ==
    ASSUME ControllerInv, NEW p \in Controllers, NEW s \in Slots, ShowIssue(p, s)
    PROVE  ControllerInv' /\ Proper
  <1> DEFINE q == req[p][s]
             x == [q EXCEPT !.stage = "acquire"]
  <1>1. UNCHANGED <<ctl, minted>> /\ Transaction /\ q.stage = "show"
    BY QuietTransaction DEF ShowIssue, At
  <1>2. /\ q \in Request /\ req \in [Controllers -> [Slots -> Request]]
        /\ s = 0 => AnswerOK(q)
    BY SlotFacts
  <1>3. CASE Answer(p, s, "rejected")
    BY <1>1, <1>3, AnswerInv
  <1>4. CASE req' = [req EXCEPT ![p][s].stage = "acquire"]
    <2>1. req' = [req EXCEPT ![p][s] = x]
      BY <1>2, <1>4
    <2>2. /\ x \in Request /\ x.op = q.op /\ x.tool = q.tool /\ x.issue = q.issue
          /\ x.holder = q.holder /\ x.claim = q.claim /\ x.out = q.out /\ x.stage = "acquire"
      BY <1>2 DEF Request
    <2>3. x.retry <=> q.retry
      BY <1>2, Zenon DEF Request
    <2>4. PICK y \in Request : y = x
      BY <2>2
    <2>5. /\ y.tool = q.tool /\ y.stage = "acquire" /\ y.op = q.op /\ y.issue = q.issue
          /\ y.holder = q.holder /\ y.claim = q.claim /\ y.out = q.out
          /\ req' = [req EXCEPT ![p][s] = y]
      BY <2>1, <2>2, <2>4
    <2>6. y.retry <=> q.retry
      BY <2>3, <2>4
    <2>7. s = 0 => y.out # "ok"
      BY <1>1, <1>2, <2>5 DEF AnswerOK
    <2>8. s = 0 => AnswerOK(y)'
      BY <2>5, <2>7 DEF AnswerOK
    <2> HIDE DEF x
    <2> QED BY <1>1, <2>5, <2>6, <2>8, StageInv
  <1> QED BY <1>3, <1>4 DEF ShowIssue

\* ... and its lease acquired: what the answer will say is backed from here on.
LEMMA AcquireLeaseInv ==
    ASSUME ControllerInv, NEW p \in Controllers, NEW s \in Slots, AcquireLease(p, s)
    PROVE  ControllerInv' /\ Proper
  <1> DEFINE q == req[p][s]
  <1>1. /\ q \in Request /\ req \in [Controllers -> [Slots -> Request]] /\ AuthorityOK
        /\ q.holder \in Nat /\ (s = 0 => AnswerOK(q)) /\ RequestOK(ctl[p], q, minted)
    BY SlotFacts
  <1>2. UNCHANGED <<ctl, minted>> /\ q.stage = "acquire" /\ q.issue \in Issues
    BY <1>1 DEF AcquireLease, At, RequestOK
  <1>3. CASE Answer(p, s, "rejected") /\ UNCHANGED authorityVars
    BY <1>2, <1>3, QuietTransaction, AnswerInv
  <1>4. ASSUME NEW c \in Claims, Acquire(q.issue, q.holder, c),
               req' = [req EXCEPT ![p][s].stage = "confirm", ![p][s].got = c,
                                  ![p][s].span = IF s = 0 THEN claims'[c].left ELSE 0]
        PROVE  ControllerInv' /\ Proper
    <2>1. Transaction
      BY <1>1, <1>2, <1>4 DEF Transaction
    <2>2. PICK i \in Issues, h \in Nat : i = q.issue /\ h = q.holder
      BY <1>1, <1>2
    <2>3. /\ claims'[c].left \in 0..TTL
          /\ \A n : n = claims'[c].left => Backed(i, h, c, n)'
      BY <1>1, <1>4, <2>1, <2>2, AcquiredBacked
    <2>4. PICK n \in 0..TTL : n = IF s = 0 THEN claims'[c].left ELSE 0
      BY <2>3, AuthorityAssumption
    <2> DEFINE x == [q EXCEPT !.stage = "confirm", !.got = c, !.span = n]
    <2>5. req' = [req EXCEPT ![p][s] = x]
      <3>1. req' = [req EXCEPT ![p][s].stage = "confirm", ![p][s].got = c, ![p][s].span = n]
        BY <1>4, <2>4
      <3> QED BY <1>1, <3>1
    <2>6. c \in Nat
      BY AuthorityAssumption DEF Claims
    <2>7. /\ x \in Request /\ x.op = q.op /\ x.tool = q.tool /\ x.issue = q.issue
          /\ x.holder = q.holder /\ x.claim = q.claim /\ x.out = q.out /\ x.stage = "confirm"
          /\ x.got = c /\ x.span = n
      BY <1>1, <2>6 DEF Request
    <2>8. x.retry <=> q.retry
      BY <1>1, Zenon DEF Request
    <2>9. PICK y \in Request : y = x
      BY <2>7
    <2>10. /\ y.tool = q.tool /\ y.stage = "confirm" /\ y.op = q.op /\ y.issue = q.issue
           /\ y.holder = q.holder /\ y.claim = q.claim /\ y.out = q.out
           /\ y.got = c /\ y.span = n /\ req' = [req EXCEPT ![p][s] = y]
      BY <2>5, <2>7, <2>9
    <2>11. y.retry <=> q.retry
      BY <2>8, <2>9
    <2> HIDE DEF x
    <2>12. s = 0 => y.out # "ok"
      BY <1>1, <1>2, <2>10 DEF AnswerOK
    <2>13. s = 0 => Backed(i, h, c, n)'
      BY <2>3, <2>4
    <2>14. s = 0 => AnswerOK(y)'
      BY <2>2, <2>10, <2>12, <2>13 DEF AnswerOK
    <2> HIDE DEF q
    <2> QED BY <1>2, <2>1, <2>10, <2>11, <2>14, StageInv DEF q
  <1> QED BY <1>3, <1>4 DEF AcquireLease

\* ... confirmed, or cleaned up when the issue was closed meanwhile.
LEMMA ConfirmIssueInv ==
    ASSUME ControllerInv, NEW p \in Controllers, NEW s \in Slots, ConfirmIssue(p, s)
    PROVE  ControllerInv' /\ Proper
  <1> DEFINE q == req[p][s]
             x == [q EXCEPT !.stage = "cleanup"]
  <1>1. /\ q \in Request /\ req \in [Controllers -> [Slots -> Request]] /\ AuthorityOK
        /\ q.holder \in Nat /\ q.got \in Nat /\ q.span \in 0..TTL /\ (s = 0 => AnswerOK(q))
    BY SlotFacts
  <1>2. UNCHANGED <<ctl, minted>> /\ q.stage = "confirm" /\ UNCHANGED authorityVars
    BY DEF ConfirmIssue, At
  <1>3. Transaction
    BY <1>2, QuietTransaction
  <1>4. CASE AnswerLease(p, s, q.got, q.span)
    <2>0. PICK i, h : i = q.issue /\ h = q.holder
      OBVIOUS
    <2>1. PICK c \in Nat, n \in 0..TTL : c = q.got /\ n = q.span
      BY <1>1
    <2>2. s = 0 => Backed(i, h, c, n)
      BY <1>1, <1>2, <2>0, <2>1 DEF AnswerOK
    <2>3. n \in Nat
      BY AuthorityAssumption
    <2>4. s = 0 => Backed(i, h, c, n)'
      BY <1>1, <1>3, <2>2, <2>3, TransactionBacked DEF Backed
    <2> HIDE DEF q
    <2> QED BY <1>2, <1>3, <1>4, <2>0, <2>1, <2>4, AnswerLeaseInv DEF q
  <1>5. CASE req' = [req EXCEPT ![p][s].stage = "cleanup"]
    <2>1. req' = [req EXCEPT ![p][s] = x]
      BY <1>1, <1>5
    <2>2. /\ x \in Request /\ x.op = q.op /\ x.tool = q.tool /\ x.issue = q.issue
          /\ x.holder = q.holder /\ x.claim = q.claim /\ x.out = q.out /\ x.stage = "cleanup"
      BY <1>1 DEF Request
    <2>3. x.retry <=> q.retry
      BY <1>1, Zenon DEF Request
    <2>4. PICK y \in Request : y = x
      BY <2>2
    <2>5. /\ y.tool = q.tool /\ y.stage = "cleanup" /\ y.op = q.op /\ y.issue = q.issue
          /\ y.holder = q.holder /\ y.claim = q.claim /\ y.out = q.out
          /\ req' = [req EXCEPT ![p][s] = y]
      BY <2>1, <2>2, <2>4
    <2>6. y.retry <=> q.retry
      BY <2>3, <2>4
    <2>7. s = 0 => y.out # "ok"
      BY <1>1, <1>2, <2>5 DEF AnswerOK
    <2>8. s = 0 => AnswerOK(y)'
      BY <2>5, <2>7 DEF AnswerOK
    <2> HIDE DEF x
    <2> QED BY <1>2, <1>3, <2>5, <2>6, <2>8, StageInv
  <1> QED BY <1>4, <1>5 DEF ConfirmIssue
\* ... and the lease of a refused claim given back, or left to its ttl.
LEMMA CleanupClaimInv ==
    ASSUME ControllerInv, NEW p \in Controllers, NEW s \in Slots, CleanupClaim(p, s)
    PROVE  ControllerInv' /\ Proper
  <1>1. /\ req[p][s].holder \in Nat /\ RequestOK(ctl[p], req[p][s], minted)
    BY SlotFacts
  <1>2. req[p][s].issue \in Issues
    BY <1>1 DEF RequestOK, CleanupClaim, At
  <1>3. Transaction
    BY <1>1, <1>2, QuietTransaction DEF CleanupClaim, Transaction
  <1> QED BY <1>3, AnswerInv DEF CleanupClaim

\* issue_renew in the daemon.
LEMMA RenewLeaseInv ==
    ASSUME ControllerInv, NEW p \in Controllers, NEW s \in Slots, RenewLease(p, s)
    PROVE  ControllerInv' /\ Proper
  <1>1. req[p][s].holder \in Nat /\ AuthorityOK /\ RowsOK
    BY SlotFacts, InvIsOwn
  <1>2. UNCHANGED <<ctl, minted>>
    BY DEF RenewLease
  <1>3. CASE Answer(p, s, "rejected") /\ UNCHANGED authorityVars
    BY <1>2, <1>3, QuietTransaction, AnswerInv
  <1>4. ASSUME NEW c \in Claims, Renew(req[p][s].issue, req[p][s].holder, c),
               AnswerLease(p, s, c, TTL)
        PROVE  ControllerInv' /\ Proper
    <2>1. PICK i, h : i = req[p][s].issue /\ h = req[p][s].holder
      OBVIOUS
    <2>2. Renew(i, h, c)
      BY <1>4, <2>1
    <2>3. i \in Issues
      BY <1>1, <2>2, LiveIssue DEF Renew
    <2>4. Transaction
      BY <1>1, <2>1, <2>2, <2>3 DEF Transaction
    <2>5. Backed(i, h, c, TTL)'
      BY <1>1, <2>2, RenewedBacked
    <2>6. TTL \in 0..TTL /\ c \in Nat
      BY AuthorityAssumption DEF Claims
    <2>7. PICK n \in 0..TTL : n = TTL
      BY <2>6
    <2>8. Backed(i, h, c, n)' /\ AnswerLease(p, s, c, n)
      BY <1>4, <2>5, <2>7
    <2> QED BY <1>2, <2>1, <2>4, <2>6, <2>8, AnswerLeaseInv
  <1> QED BY <1>3, <1>4 DEF RenewLease

\* issue_release in the daemon.
LEMMA ReleaseLeaseInv ==
    ASSUME ControllerInv, NEW p \in Controllers, NEW s \in Slots, ReleaseLease(p, s)
    PROVE  ControllerInv' /\ Proper
  <1>1. req[p][s].holder \in Nat /\ RowsOK
    BY SlotFacts, InvIsOwn
  <1>2. Transaction
    <2>1. CASE Release(req[p][s].issue, req[p][s].holder)
      <3>1. req[p][s].issue \in Issues
        BY <1>1, <2>1, LiveIssue DEF Release
      <3> QED BY <1>1, <2>1, <3>1 DEF Transaction
    <2>2. CASE UNCHANGED authorityVars
      BY <2>2, QuietTransaction
    <2> QED BY <2>1, <2>2 DEF ReleaseLease
  <1> QED BY <1>2, AnswerInv DEF ReleaseLease, At

\* issue_close in the daemon: done, done before, or refused.
LEMMA CloseIssueInv ==
    ASSUME ControllerInv, NEW p \in Controllers, NEW s \in Slots, CloseIssue(p, s)
    PROVE  ControllerInv' /\ Proper
  <1> DEFINE q == req[p][s]
  <1>1. q.holder \in Nat /\ q.key \in Nat /\ RowsOK
    BY SlotFacts, InvIsOwn
  <1>2. Transaction
    <2>1. CASE CloseCommit(q.issue, q.holder, q.claim, q.key)
      <3>1. q.claim \in LiveOf(q.issue, q.holder)
        BY <2>1 DEF CloseCommit, GuardHolds
      <3>2. q.issue \in Issues /\ q.claim \in Claims
        BY <1>1, <3>1, LiveIssue DEF LiveOf, Live
      <3> QED BY <1>1, <2>1, <3>2 DEF Transaction
    <2>2. CASE UNCHANGED authorityVars
      BY <2>2, QuietTransaction
    <2> QED BY <2>1, <2>2 DEF CloseIssue, CloseReplay
  <1>3. q.tool \notin {"issue_claim", "issue_renew"} /\ UNCHANGED <<ctl, minted>>
    BY DEF CloseIssue, At
  <1>4. Answer(p, s, "ok") \/ Answer(p, s, "lost") \/ Answer(p, s, "rejected")
    BY DEF CloseIssue
  <1> HIDE DEF q
  <1> QED BY <1>2, <1>3, <1>4, AnswerInv DEF q

\* issue_get in the daemon.
LEMMA LookAtIssueInv ==
    ASSUME ControllerInv, NEW p \in Controllers, LookAtIssue(p)
    PROVE  ControllerInv' /\ Proper
  <1>1. /\ UNCHANGED <<ctl, minted>> /\ UNCHANGED authorityVars
        /\ req[p][0].tool = "issue_get"
    BY DEF LookAtIssue, At
  <1>2. 0 \in Slots
    BY ControllerAssumption DEF Slots
  <1>3. Transaction
    BY <1>1, QuietTransaction
  <1>4. ASSUME NEW c \in Nat, NEW n \in 0..TTL, AnswerLease(p, 0, c, n)
        PROVE  ControllerInv' /\ Proper
    BY <1>1, <1>2, <1>3, <1>4, AnswerLeaseInv
  <1>5. CASE AnswerLease(p, 0, NoClaim, 0)
    <2>1. NoClaim \in Nat /\ 0 \in 0..TTL
      BY AuthorityAssumption DEF NoClaim
    <2> QED BY <1>4, <1>5, <2>1
  <1>6. ASSUME NEW c \in ShownRows(req[p][0].issue), AnswerLease(p, 0, c, claims[c].left)
        PROVE  ControllerInv' /\ Proper
    <2>1. c \in Claims /\ c \in Nat
      BY DEF ShownRows, Claims
    <2>2. claims[c].left \in 0..TTL
      BY <2>1, InvIsOwn DEF AuthorityTypeOK, Row
    <2> QED BY <1>4, <1>6, <2>1, <2>2
  <1> QED BY <1>5, <1>6 DEF LookAtIssue

\* Every step of the daemon.
LEMMA ServerStepInv ==
    ASSUME ControllerInv, NEW p \in Controllers, ServerStep(p)
    PROVE  ControllerInv' /\ Proper
  <1>1. ASSUME NEW s \in Slots, PrepareCheckout(p, s)
        PROVE  ControllerInv' /\ Proper
    <2>1. /\ UNCHANGED <<ctl, minted>> /\ UNCHANGED authorityVars
          /\ req[p][s].tool = "checkout"
          /\ Answer(p, s, "ok") \/ Answer(p, s, "rejected")
      BY <1>1 DEF PrepareCheckout, At
    <2> QED BY <2>1, QuietTransaction, AnswerInv
  <1>2. CASE DispatchFails(p)
    <2>1. 0 \in Slots
      BY ControllerAssumption DEF Slots
    <2> QED BY <1>2, <2>1, QuietTransaction, AnswerInv DEF DispatchFails
  <1> QED BY <1>1, <1>2, ShowIssueInv, AcquireLeaseInv, ConfirmIssueInv, CleanupClaimInv,
             RenewLeaseInv, ReleaseLeaseInv, CloseIssueInv, LookAtIssueInv DEF ServerStep
-----------------------------------------------------------------------------
(* Time.                                                                     *)

\* A unit of time on the fields of a controller, and on a request.
Later(k) == [k EXCEPT !.active.left = Monus(@, 1),
                      !.timer = IF @ = Off THEN Off ELSE Monus(@, 1)]

\* No tenure appears or goes, and no heartbeat is lost.
LEMMA LaterFields ==
    ASSUME NEW k, Sound(k)
    PROVE  /\ Later(k) \in Controller /\ (Has(Later(k)) <=> Has(k))
           /\ Later(k).active.issue = k.active.issue /\ Later(k).active.holder = k.active.holder
           /\ Later(k).active.claim = k.active.claim
           /\ Later(k).active.left = Monus(k.active.left, 1)
           /\ k.active.left = 0 => Later(k).active = k.active
           /\ Later(k).pclaim = k.pclaim /\ Later(k).pclose = k.pclose
           /\ Later(k).pcheckout = k.pcheckout /\ Later(k).mode = k.mode
           /\ Later(k).beats = k.beats /\ (Later(k).timer = Off <=> k.timer = Off)
  <1> DEFINE n == Monus(k.active.left, 1)
             t == [k.active EXCEPT !.left = n]
             d == IF k.timer = Off THEN Off ELSE Monus(k.timer, 1)
  <1>1. /\ k \in Controller /\ k.active \in Tenure /\ k.active.left \in 0..TTL
        /\ k.timer \in 0..Off
    BY FieldTypes DEF Sound
  <1>2. n \in 0..TTL /\ (k.active.left = 0 => n = 0)
    BY <1>1, AuthorityAssumption DEF Monus
  <1>3. d \in 0..Off /\ (d = Off <=> k.timer = Off)
    BY <1>1, AuthorityAssumption DEF Monus, Off
  <1> HIDE DEF n, d
  <1>4. /\ t \in Tenure /\ t.left = n /\ t.issue = k.active.issue
        /\ t.holder = k.active.holder /\ t.claim = k.active.claim
    BY <1>1, <1>2 DEF Tenure
  <1>5. k.active.left = 0 => t = k.active
    BY <1>1, <1>2 DEF Tenure
  <1>6. Later(k) = [k EXCEPT !.active = t, !.timer = d]
    BY <1>1 DEF Later, Controller, n, d
  <1> HIDE DEF t
  <1>7. /\ Later(k) \in Controller /\ Later(k).active = t /\ Later(k).timer = d
        /\ Later(k).pclaim = k.pclaim /\ Later(k).pclose = k.pclose
        /\ Later(k).pcheckout = k.pcheckout /\ Later(k).mode = k.mode
        /\ Later(k).beats = k.beats
    BY <1>1, <1>3, <1>4, <1>6 DEF Controller
  <1>8. Has(Later(k)) <=> Has(k)
    <2>1. CASE Has(k)
      BY <1>4, <1>7, <2>1 DEF Sound, Has, NoTenure
    <2>2. CASE ~Has(k)
      BY <1>5, <1>7, <2>2 DEF Has, NoTenure
    <2> QED BY <2>1, <2>2
  <1> QED BY <1>3, <1>4, <1>5, <1>7, <1>8 DEF n

\* An answer counts the time since its request, and a lease not yet answered
\* runs in the authority.
LEMMA AgedFields ==
    ASSUME NEW q \in Request
    PROVE  /\ Aged(q) \in Request
           /\ Aged(q).op = q.op /\ Aged(q).tool = q.tool /\ Aged(q).stage = q.stage
           /\ Aged(q).issue = q.issue /\ Aged(q).holder = q.holder /\ Aged(q).claim = q.claim
           /\ Aged(q).got = q.got /\ Aged(q).out = q.out /\ (Aged(q).retry <=> q.retry)
           /\ Aged(q).age = IF MeasuresTime(q) THEN Smaller(q.age + 1, TTL) ELSE q.age
           /\ Aged(q).span = IF q.stage = "confirm" THEN Monus(q.span, 1) ELSE q.span
  <1> DEFINE a == IF MeasuresTime(q) THEN Smaller(q.age + 1, TTL) ELSE q.age
             n == IF q.stage = "confirm" THEN Monus(q.span, 1) ELSE q.span
  <1>1. q.age \in 0..TTL /\ q.span \in 0..TTL
    BY DEF Request
  <1>2. a \in 0..TTL /\ n \in 0..TTL
    <2>1. Smaller(q.age + 1, TTL) \in 0..TTL
      BY <1>1, AuthorityAssumption DEF Smaller
    <2>2. Monus(q.span, 1) \in 0..TTL
      BY <1>1, AuthorityAssumption DEF Monus
    <2> QED BY <1>1, <2>1, <2>2
  <1>3. Aged(q) = [q EXCEPT !.age = a, !.span = n]
    BY DEF Aged
  <1> HIDE DEF a, n
  <1>4. /\ Aged(q) \in Request
        /\ Aged(q).op = q.op /\ Aged(q).tool = q.tool /\ Aged(q).stage = q.stage
        /\ Aged(q).issue = q.issue /\ Aged(q).holder = q.holder /\ Aged(q).claim = q.claim
        /\ Aged(q).got = q.got /\ Aged(q).out = q.out /\ Aged(q).age = a /\ Aged(q).span = n
    BY <1>2, <1>3 DEF Request
  <1>5. Aged(q).retry <=> q.retry
    BY <1>3, Zenon DEF Request
  <1> QED BY <1>4, <1>5 DEF a, n

\* The authority's clock runs no faster than the controllers'.
LEMMA ElapseCovers ==
    ASSUME AuthorityOK, Elapse
    PROVE  /\ \A k : (Sound(k) /\ Covered(k)) => Covered(Later(k))'
           /\ \A q \in Request : AnswerOK(q) => AnswerOK(Aged(q))'
  <1>1. ASSUME NEW i, NEW h, NEW c, NEW n \in Nat, NEW m, m = Monus(n, 1), Backed(i, h, c, n)
        PROVE  Backed(i, h, c, m)'
    BY <1>1, ElapseBacked
  <1>2. ASSUME NEW k, Sound(k), Covered(k)
        PROVE  Covered(Later(k))'
    <2>1. k.active.left \in Nat
      BY <1>2, FieldTypes DEF Sound
    <2>2. PICK j : j = Later(k)
      OBVIOUS
    <2>3. /\ Has(j) <=> Has(k)
          /\ j.active.issue = k.active.issue /\ j.active.holder = k.active.holder
          /\ j.active.claim = k.active.claim /\ j.active.left = Monus(k.active.left, 1)
      BY <1>2, <2>2, LaterFields
    <2>4. Has(j) => Backed(j.active.issue, j.active.holder, j.active.claim, j.active.left)'
      <3> SUFFICES ASSUME Has(j)
                   PROVE  Backed(j.active.issue, j.active.holder, j.active.claim, j.active.left)'
        OBVIOUS
      <3>1. Backed(j.active.issue, j.active.holder, j.active.claim, k.active.left)
        BY <1>2, <2>3 DEF Covered
      <3> QED BY <1>1, <2>1, <2>3, <3>1
    <2>5. Covered(j)'
      BY <2>4 DEF Covered, Has
    <2>6. Later(k)' = j
      BY <2>2 DEF Later, Monus
    <2> QED BY <2>5, <2>6 DEF Covered, Has
  <1>3. ASSUME NEW q \in Request, AnswerOK(q)
        PROVE  AnswerOK(Aged(q))'
    <2>1. PICK y : y = Aged(q)
      OBVIOUS
    <2>2. /\ y.stage = q.stage /\ y.tool = q.tool /\ y.out = q.out /\ y.got = q.got
          /\ y.issue = q.issue /\ y.holder = q.holder
          /\ y.age = IF MeasuresTime(q) THEN Smaller(q.age + 1, TTL) ELSE q.age
          /\ y.span = IF q.stage = "confirm" THEN Monus(q.span, 1) ELSE q.span
      BY <2>1, AgedFields
    <2>3. q.span \in 0..TTL /\ q.age \in 0..TTL /\ q.span \in Nat
      BY AuthorityAssumption DEF Request
    <2>4. q.stage = "confirm" => Backed(y.issue, y.holder, y.got, y.span)'
      BY <1>1, <1>3, <2>2, <2>3 DEF AnswerOK
    <2>5. ASSUME q.out = "ok", q.tool \in {"issue_claim", "issue_renew"}
          PROVE  Backed(y.issue, y.holder, y.got, Monus(y.span, y.age))'
      <3>1. q.stage = "reply"
        BY <1>3, <2>5 DEF AnswerOK
      <3>2. y.span = q.span /\ y.age = Smaller(q.age + 1, TTL)
        BY <2>2, <2>5, <3>1 DEF MeasuresTime
      <3>3. PICK n \in Nat : n = Monus(q.span, q.age)
        BY <2>3 DEF Monus
      <3>4. PICK m : m = Monus(y.span, y.age)
        OBVIOUS
      <3>5. m = Monus(n, 1)
        BY <2>3, <3>2, <3>3, <3>4, AuthorityAssumption DEF Monus, Smaller
      <3>6. Backed(y.issue, y.holder, y.got, n)
        BY <1>3, <2>2, <2>5, <3>3 DEF AnswerOK
      <3>7. Backed(y.issue, y.holder, y.got, m)'
        BY <1>1, <3>5, <3>6
      <3>8. Monus(y.span, y.age)' = m
        BY <3>4 DEF Monus
      <3> QED BY <3>7, <3>8
    <2>6. AnswerOK(y)'
      BY <1>3, <2>2, <2>4, <2>5 DEF AnswerOK
    <2>7. Aged(q)' = y
      BY <2>1 DEF Aged, MeasuresTime, Monus, Smaller
    <2> QED BY <2>6, <2>7 DEF AnswerOK
  <1> QED BY <1>2, <1>3
\* Time passes for everybody.
LEMMA AdvanceInv ==
    ASSUME ControllerInv, Advance
    PROVE  ControllerInv' /\ Proper
  <1>1. /\ Elapse /\ minted' = minted
        /\ ctl' = [p \in Controllers |-> Later(ctl[p])]
        /\ req' = [p \in Controllers |-> [req[p] EXCEPT ![0] = Aged(req[p][0])]]
    BY DEF Advance, Later
  <1>2. AuthorityOK /\ minted \in Nat
    BY DEF ControllerInv, TypeOK, ControllerTypeOK, AuthorityOK
  <1>3. AuthorityTypeOK' /\ RowsOK'
    BY <1>1, <1>2, ElapseKeeps
  <1>4. 0 \in Slots
    BY ControllerAssumption DEF Slots
  <1>5. ASSUME NEW x \in Controllers
        PROVE  /\ ctl'[x] \in Controller /\ req'[x] \in [Slots -> Request]
               /\ FieldsOK(ctl[x])' /\ Covered(ctl[x])'
               /\ OperationOK(ctl[x], req[x][0])' /\ AnswerOK(req[x][0])'
               /\ RequestsOK(ctl[x], req[x], minted)' /\ Moves(ctl[x], ctl'[x], req'[x])
    <2>1. PICK k : k = ctl[x]
      OBVIOUS
    <2>2. PICK r : r = req[x]
      OBVIOUS
    <2>3. /\ Sound(k) /\ FieldsOK(k) /\ Covered(k) /\ OperationOK(k, r[0]) /\ AnswerOK(r[0])
          /\ RequestsOK(k, r, minted) /\ r \in [Slots -> Request] /\ r[0] \in Request
      BY <2>1, <2>2, InvIsOwn
    <2>4. PICK j : j = Later(k)
      OBVIOUS
    <2>5. PICK q : q = r[0]
      OBVIOUS
    <2>6. PICK y : y = Aged(q)
      OBVIOUS
    <2>7. PICK s : s = [r EXCEPT ![0] = y]
      OBVIOUS
    <2>8. ctl'[x] = j /\ req'[x] = s
      BY <1>1, <2>1, <2>2, <2>4, <2>5, <2>6, <2>7
    <2>9. /\ j \in Controller /\ (Has(j) <=> Has(k))
          /\ j.active.issue = k.active.issue /\ j.active.holder = k.active.holder
          /\ j.active.claim = k.active.claim
          /\ k.active.left = 0 => j.active = k.active
          /\ j.pclaim = k.pclaim /\ j.pclose = k.pclose /\ j.pcheckout = k.pcheckout
          /\ j.mode = k.mode /\ j.beats = k.beats /\ (j.timer = Off <=> k.timer = Off)
      BY <2>3, <2>4, LaterFields
    <2>10. /\ y \in Request /\ y.op = q.op /\ y.tool = q.tool /\ y.stage = q.stage
           /\ y.issue = q.issue /\ y.holder = q.holder /\ y.claim = q.claim
           /\ (y.retry <=> q.retry)
      BY <2>3, <2>5, <2>6, AgedFields
    <2>11. /\ s \in [Slots -> Request] /\ s[0] = y
           /\ \A t \in Slots : s[t] = IF t = 0 THEN y ELSE r[t]
      BY <1>4, <2>3, <2>7, <2>10
    <2>12. FieldsOK(j)
      BY <2>3, <2>9 DEF FieldsOK
    <2>13. Covered(j)' /\ AnswerOK(y)'
      <3>1. Covered(Later(k))' /\ AnswerOK(Aged(q))'
        BY <1>1, <1>2, <2>3, <2>5, ElapseCovers
      <3>2. Later(k)' = j /\ Aged(q)' = y
        BY <2>4, <2>6 DEF Later, Aged, MeasuresTime, Monus, Smaller
      <3> QED BY <3>1, <3>2 DEF Covered, Has, AnswerOK
    <2>14. OperationOK(j, y)
      <3>1. Beating(k) => Beating(j)
        BY <2>9 DEF Beating
      <3> QED BY <2>3, <2>5, <2>9, <2>10, <3>1 DEF OperationOK
    <2>15. RequestsOK(j, s, minted)
      <3>1. \A h, c : Agrees(k, h, c, minted) => Agrees(j, h, c, minted)
        BY <2>9 DEF Agrees
      <3>2. \A t \in Slots : RequestOK(j, r[t], minted)
        BY <2>3, <3>1 DEF RequestsOK, RequestOK
      <3>3. RequestOK(j, y, minted)
        BY <1>4, <2>5, <2>10, <3>2 DEF RequestOK
      <3> QED BY <2>3, <2>9, <2>11, <3>1, <3>2, <3>3 DEF RequestsOK
    <2>16. Moves(k, j, s)
      BY <2>9 DEF Moves, Retained
    <2>17. FieldsOK(ctl'[x]) /\ OperationOK(ctl'[x], req'[x][0])
           /\ RequestsOK(ctl'[x], req'[x], minted') /\ Moves(ctl[x], ctl'[x], req'[x])
      BY <1>1, <2>1, <2>8, <2>11, <2>12, <2>14, <2>15, <2>16
    <2>18. Covered(ctl[x])' /\ AnswerOK(req[x][0])'
      <3>1. ctl'[x] = j /\ req'[x][0] = y
        BY <2>8, <2>11
      <3> QED BY <2>13, <3>1 DEF Covered, Has, AnswerOK
    <2> QED BY <2>8, <2>9, <2>11, <2>17, <2>18
  <1>6. TypeOK'
    <2>1. ctl' \in [Controllers -> Controller] /\ req' \in [Controllers -> [Slots -> Request]]
      BY <1>1, <1>5
    <2> QED BY <1>1, <1>2, <1>3, <2>1 DEF TypeOK, ControllerTypeOK
  <1> QED BY <1>3, <1>5, <1>6 DEF ControllerInv, Proper

\* Nothing a host, an operator or the sweeper does disturbs a controller.
LEMMA AuthorityInv ==
    ASSUME ControllerInv, Authority
    PROVE  ControllerInv' /\ Proper
  <1>1. Transaction /\ ctl' = ctl /\ req' = req /\ minted' = minted
    BY DEF Authority, Transaction, clientVars
  <1>2. AuthorityOK
    BY DEF ControllerInv, TypeOK, AuthorityOK
  <1>3. AuthorityTypeOK' /\ RowsOK'
    BY <1>1, <1>2, TransactionType, TransactionRows DEF AuthorityOK
  <1>4. TypeOK'
    BY <1>1, <1>3 DEF ControllerInv, TypeOK, ControllerTypeOK
  <1>5. ASSUME NEW x \in Controllers
        PROVE  /\ FieldsOK(ctl[x])' /\ Covered(ctl[x])'
               /\ OperationOK(ctl[x], req[x][0])' /\ AnswerOK(req[x][0])'
               /\ RequestsOK(ctl[x], req[x], minted)' /\ Moves(ctl[x], ctl'[x], req'[x])
    <2>1. /\ FieldsOK(ctl[x]) /\ Covered(ctl[x]) /\ OperationOK(ctl[x], req[x][0])
          /\ AnswerOK(req[x][0]) /\ RequestsOK(ctl[x], req[x], minted)
          /\ ctl[x] \in Controller /\ req[x][0] \in Request
      BY InvIsOwn
    <2>2. PICK k \in Controller, q \in Request : k = ctl[x] /\ q = req[x][0]
      BY <2>1
    <2>3. Covered(k)' /\ AnswerOK(q)'
      BY <1>1, <1>2, <2>1, <2>2, TransactionCovers
    <2>4. ctl'[x] = k /\ req'[x][0] = q
      BY <1>1, <2>2
    <2>5. Covered(ctl[x])' /\ AnswerOK(req[x][0])'
      BY <2>3, <2>4 DEF Covered, Has, AnswerOK
    <2>6. /\ FieldsOK(ctl'[x]) /\ OperationOK(ctl'[x], req'[x][0])
          /\ RequestsOK(ctl'[x], req'[x], minted') /\ Moves(ctl[x], ctl'[x], req'[x])
      BY <1>1, <2>1 DEF Moves
    <2> QED BY <2>5, <2>6
  <1> QED BY <1>3, <1>4, <1>5 DEF ControllerInv, Proper

-----------------------------------------------------------------------------
(* The specification.                                                        *)

\* A controller that has not begun obeys the invariant.
LEMMA InitInv == Init => ControllerInv
  <1> SUFFICES ASSUME Init PROVE ControllerInv
    OBVIOUS
  <1>1. AuthorityTypeOK /\ RowsOK
    BY AuthorityInitOK DEF Init
  <1>2. 0 \in Slots /\ NewController \in Controller /\ NoRequest \in Request
    BY NullTypes, ControllerAssumption DEF Slots
  <1>3. TypeOK
    BY <1>1, <1>2 DEF Init, TypeOK, ControllerTypeOK
  <1>4. ASSUME NEW p \in Controllers
        PROVE  /\ FieldsOK(ctl[p]) /\ Covered(ctl[p])
               /\ OperationOK(ctl[p], req[p][0]) /\ AnswerOK(req[p][0])
               /\ RequestsOK(ctl[p], req[p], minted)
    <2>1. ctl[p] = NewController /\ minted = 0 /\ \A s \in Slots : req[p][s] = NoRequest
      BY DEF Init
    <2>2. /\ ctl[p].mode = "idle" /\ ~Has(ctl[p]) /\ ctl[p].pclaim = NoPendingClaim
          /\ ctl[p].pclose = NoPendingClose /\ ctl[p].pclaim.id = 0
      BY <2>1 DEF NewController, Has, NoPendingClaim
    <2>3. FieldsOK(ctl[p]) /\ Covered(ctl[p]) /\ Beating(ctl[p])
      BY <2>2 DEF FieldsOK, Covered, Beating
    <2>4. /\ req[p][0].op = "none" /\ req[p][0].tool = "none" /\ req[p][0].stage = "none"
          /\ req[p][0].out = "none"
      BY <1>2, <2>1 DEF NoRequest
    <2>5. OperationOK(ctl[p], req[p][0]) /\ AnswerOK(req[p][0])
      BY <2>3, <2>4 DEF OperationOK, AnswerOK
    <2>6. \A s \in Slots : RequestOK(ctl[p], req[p][s], minted)
      BY <2>1 DEF RequestOK, NoRequest
    <2> QED BY <2>1, <2>2, <2>3, <2>5, <2>6 DEF RequestsOK
  <1> QED BY <1>1, <1>3, <1>4 DEF ControllerInv

\* A step that changes nothing.
LEMMA StutterInv ==
    ASSUME ControllerInv, UNCHANGED vars
    PROVE  ControllerInv' /\ Proper
  <1>1. UNCHANGED authorityVars /\ ctl' = ctl /\ req' = req /\ minted' = minted
    BY DEF vars, authorityVars
  <1>2. CASE Controllers = {}
    <2>1. TypeOK' /\ RowsOK'
      BY <1>1 DEF ControllerInv, TypeOK, ControllerTypeOK, AuthorityTypeOK, RowsOK, authorityVars
    <2> QED BY <1>2, <2>1 DEF ControllerInv, Proper
  <1>3. CASE Controllers # {}
    <2>1. PICK p \in Controllers : TRUE
      BY <1>3
    <2>2. Sound(ctl[p]) /\ ctl \in [Controllers -> Controller]
      BY <2>1, InvIsOwn
    <2>3. Follows(ctl[p], ctl[p]) /\ SetCtl(p, ctl[p])
      BY <1>1, <2>1, <2>2, SelfFollows DEF SetCtl
    <2> QED BY <1>1, <2>1, <2>3, FollowsInv
  <1> QED BY <1>2, <1>3

\* Every step.
LEMMA NextInv ==
    ASSUME ControllerInv, [Next]_vars
    PROVE  ControllerInv' /\ Proper
  <1>1. ASSUME NEW p \in Controllers, ControllerStep(p)
        PROVE  ControllerInv' /\ Proper
    BY <1>1, CallInv, TimerInv, ServerStepInv, FinishInv, LossInv, StopsInv DEF ControllerStep
  <1> QED BY <1>1, AdvanceInv, AuthorityInv, StutterInv DEF Next
\* The invariant is inductive.
THEOREM ControllerInvariance == Spec => []ControllerInv
  <1>1. Init => ControllerInv
    BY InitInv
  <1>2. ControllerInv /\ [Next]_vars => ControllerInv'
    BY NextInv
  <1> QED BY <1>1, <1>2, PTL DEF Spec

\* Every variable keeps its declared shape, with any number of abandoned
\* requests and drawn numbers.
THEOREM ControllerTypes == Spec => []TypeOK
  <1>1. ControllerInv => TypeOK
    BY DEF ControllerInv
  <1> QED BY <1>1, ControllerInvariance, PTL

\* An open gate has a tenure whose deadline has not passed.
LEMMA EditingLive ==
    ASSUME ControllerInv, NEW p \in Controllers, Editing(p)
    PROVE  /\ ctl[p].mode = "live" /\ Has(ctl[p]) /\ ctl[p].active.left > 0
           /\ ctl[p].pclose = NoPendingClose /\ Covered(ctl[p])
  <1>1. Sound(ctl[p]) /\ FieldsOK(ctl[p]) /\ Covered(ctl[p])
    BY InvIsOwn
  <1>2. Unlapsed(ctl[p]) = ctl[p] /\ ctl[p].mode = "live"
    BY <1>1, UnlapsedFollows DEF Editing
  <1>3. Has(ctl[p]) /\ ctl[p].pclose = NoPendingClose
    BY <1>1, <1>2 DEF FieldsOK
  <1>4. Has(Unlapsed(ctl[p]))
    BY <1>2, <1>3
  <1> QED BY <1>1, <1>2, <1>3, <1>4, UnlapsedFollows

\* While the gate is open the authority keeps the tenure at least as long as
\* the gate will stay open: guardTool and state() never permit an edit that
\* somebody else's lease could cover.
THEOREM EditsAreCovered == Spec => []EditCover
  <1>1. ControllerInv => EditCover
    <2> SUFFICES ASSUME ControllerInv, NEW p \in Controllers, Editing(p)
                 PROVE  /\ Has(ctl[p])
                        /\ RowOf(p).issue = ctl[p].active.issue
                        /\ RowOf(p).holder = ctl[p].active.holder
                        /\ \/ RowOf(p).state = "released"
                           \/ RowOf(p).state = "held" /\ RowOf(p).left >= ctl[p].active.left
      BY DEF EditCover
    <2>1. Has(ctl[p]) /\ ctl[p].active.left > 0 /\ Covered(ctl[p])
      BY EditingLive
    <2>2. ctl[p].active.left # 0
      BY <2>1
    <2> QED BY <2>1, <2>2 DEF Covered, Backed, Lasts, RowOf
  <1> QED BY <1>1, ControllerInvariance, PTL

\* Nothing opens the gate while the outcome of a close or a claim is unknown.
THEOREM UnknownOutcomesStopEditing == Spec => []UnresolvedStopsEditing
  <1>1. ControllerInv => UnresolvedStopsEditing
    <2> SUFFICES ASSUME ControllerInv, NEW p \in Controllers, Editing(p),
                        ctl[p].pclose # NoPendingClose \/ ctl[p].pclaim # NoPendingClaim
                 PROVE  FALSE
      BY DEF UnresolvedStopsEditing
    <2>1. Has(ctl[p]) /\ ctl[p].pclose = NoPendingClose
      BY EditingLive
    <2>2. FieldsOK(ctl[p])
      BY InvIsOwn
    <2> QED BY <2>1, <2>2 DEF FieldsOK
  <1> QED BY <1>1, ControllerInvariance, PTL

\* An open gate with nothing under way has a heartbeat scheduled or queued.
THEOREM OpenGatesAreRenewed == Spec => []LiveIsRenewed
  <1>1. ControllerInv => LiveIsRenewed
    <2> SUFFICES ASSUME ControllerInv, NEW p \in Controllers, Editing(p), Idle(p)
                 PROVE  ctl[p].timer # Off \/ ctl[p].beats > 0
      BY DEF LiveIsRenewed
    <2>1. ctl[p].mode = "live" /\ OperationOK(ctl[p], req[p][0])
      BY EditingLive, InvIsOwn
    <2>2. req[p][0].op # "renew"
      BY DEF Idle, NoRequest
    <2> QED BY <2>1, <2>2 DEF OperationOK, Beating
  <1> QED BY <1>1, ControllerInvariance, PTL

\* No answer gives time to a tenure past its deadline.
THEOREM DeadlinesAreFinal == Spec => NoLateRevival
  <1>1. ControllerInv /\ [Next]_vars =>
          [\A p \in Controllers : (Has(ctl[p]) /\ ctl[p].active.left = 0)
             => ctl'[p].active \in {NoTenure, ctl[p].active}]_vars
    BY NextInv DEF Proper, Moves
  <1> QED BY <1>1, ControllerInvariance, PTL DEF Spec, NoLateRevival

\* retryPending never retains a request that was not retained before: of all
\* that `execute` may do with what was captured, the test of identity leaves the
\* repetitions only, for any number of requests resolved and tenures begun
\* between its call and its turn.
THEOREM RetriesBeginNothing == Spec => RetryBeginsNothing
  <1>1. ControllerInv /\ [Next]_vars =>
          [\A p \in Controllers : req'[p][0].retry
             => Retained(ctl'[p]) \subseteq Retained(ctl[p])]_vars
    BY NextInv DEF Proper, Moves
  <1> QED BY <1>1, ControllerInvariance, PTL DEF Spec, RetryBeginsNothing

\* What a step of the server writes.
LEMMA ServerWrites ==
    ASSUME ControllerInv, NEW x \in Controllers, NEW t \in Slots, NEW p \in Controllers,
           NEW s \in Slots, NEW v, req' = [req EXCEPT ![x][t] = v],
           req'[p][s] # req[p][s]
    PROVE  x = p /\ t = s
  <1>1. req \in [Controllers -> [Slots -> Request]]
    BY SlotFacts
  <1>2. req' = [req EXCEPT ![x] = [req[x] EXCEPT ![t] = v]]
    BY <1>1
  <1>3. x = p
    BY <1>1, <1>2
  <1>4. req'[p] = [req[p] EXCEPT ![t] = v] /\ req[p] \in [Slots -> Request]
    BY <1>1, <1>2, <1>3
  <1> QED BY <1>3, <1>4

\* A release or a close carried out late spares the tenure its sender has now:
\* it names the principal of another tenure, for an attempt id is granted once.
LEMMA LateSpares ==
    ASSUME ControllerInv, [Next]_vars, NEW p \in Controllers, NEW s \in Slots,
           req[p][s].tool \in {"issue_release", "issue_close"},
           req'[p][s] # req[p][s],
           Has(ctl[p]), req[p][s].claim # ctl[p].active.claim,
           RowOf(p).state = "held", RowOf(p).left > 0
    PROVE  claims'[ctl[p].active.claim].state = "held"
  <1> DEFINE q == req[p][s]
             d == ctl[p].active.claim
  <1>1. /\ d \in Claims /\ claims[d].holder = ctl[p].active.holder
        /\ claims \in [Claims -> Row] /\ claims[d].state = "held" /\ claims[d].left > 0
    BY InvIsOwn DEF Covered, Backed, Lasts, RowOf, AuthorityTypeOK
  <1>2. claims[d].holder # q.holder
    <2>1. Agrees(ctl[p], q.holder, q.claim, minted)
      BY SlotFacts DEF RequestOK
    <2> QED BY <1>1, <2>1 DEF Agrees
  <1>3. CASE claims' = claims
    BY <1>1, <1>3
  <1>4. CASE Advance
    BY <1>1, <1>4, ElapseKeeps DEF Advance, Elapse, Row
  <1>5. ASSUME NEW x \in Controllers, ServerStep(x), claims' # claims
        PROVE  claims'[d].state = "held"
    <2>1. PICK t \in Slots : \/ AcquireLease(x, t) \/ CleanupClaim(x, t) \/ RenewLease(x, t)
                             \/ ReleaseLease(x, t) \/ CloseIssue(x, t)
      BY <1>5 DEF ServerStep, LookAtIssue, DispatchFails, ShowIssue, ConfirmIssue,
                  PrepareCheckout, authorityVars
    <2>2. \E v : req' = [req EXCEPT ![x][t] = v]
      <3>1. ASSUME NEW out, Answer(x, t, out) PROVE \E v : req' = [req EXCEPT ![x][t] = v]
        BY <3>1 DEF Answer
      <3>2. ASSUME NEW c, NEW n, AnswerLease(x, t, c, n)
            PROVE  \E v : req' = [req EXCEPT ![x][t] = v]
        BY <3>2 DEF AnswerLease
      <3>3. ASSUME NEW c, NEW n, req' = [req EXCEPT ![x][t].stage = "confirm", ![x][t].got = c,
                                                    ![x][t].span = n]
            PROVE  \E v : req' = [req EXCEPT ![x][t] = v]
        <4>1. req \in [Controllers -> [Slots -> Request]]
          BY SlotFacts
        <4>2. req' = [req EXCEPT ![x][t] = [req[x][t] EXCEPT !.stage = "confirm", !.got = c,
                                                             !.span = n]]
          BY <3>3, <4>1
        <4> QED BY <4>2
      <3>4. CASE AcquireLease(x, t)
        <4>1. CASE Answer(x, t, "rejected")
          BY <3>1, <4>1
        <4>2. CASE \E c \in Claims :
                      req' = [req EXCEPT ![x][t].stage = "confirm", ![x][t].got = c,
                                         ![x][t].span = IF t = 0 THEN claims'[c].left ELSE 0]
          <5>1. PICK c \in Claims :
                      req' = [req EXCEPT ![x][t].stage = "confirm", ![x][t].got = c,
                                         ![x][t].span = IF t = 0 THEN claims'[c].left ELSE 0]
            BY <4>2
          <5>2. PICK n : n = IF t = 0 THEN claims'[c].left ELSE 0
            OBVIOUS
          <5> QED BY <3>3, <5>1, <5>2
        <4> QED BY <3>4, <4>1, <4>2 DEF AcquireLease
      <3>5. CASE ~AcquireLease(x, t)
        BY <2>1, <3>1, <3>2, <3>5 DEF CleanupClaim, RenewLease, ReleaseLease, CloseIssue
      <3> QED BY <3>4, <3>5
    <2>3. x = p /\ t = s
      BY <2>2, ServerWrites
    <2>4. ReleaseLease(p, s) \/ CloseIssue(p, s)
      BY <2>1, <2>3 DEF AcquireLease, CleanupClaim, RenewLease, At
    <2>5. CASE claims' = ReleasedFrom(Swept, LiveOf(q.issue, q.holder))
      <3>1. d \notin LiveOf(q.issue, q.holder)
        BY <1>2 DEF LiveOf
      <3>2. Swept[d] = claims[d]
        BY <1>1 DEF Swept
      <3> QED BY <1>1, <2>5, <3>1, <3>2 DEF ReleasedFrom
    <2>6. CASE claims' = ReleasedFrom(claims, {q.claim})
      BY <1>1, <2>6 DEF ReleasedFrom
    <2>7. \/ claims' = ReleasedFrom(Swept, LiveOf(q.issue, q.holder))
          \/ claims' = ReleasedFrom(claims, {q.claim})
      BY <1>5, <2>4 DEF ReleaseLease, CloseIssue, Release, CloseReplay, CloseCommit, authorityVars
    <2> QED BY <2>5, <2>6, <2>7
  <1>6. ASSUME NEW x \in Controllers, ControllerStep(x), ~ServerStep(x)
        PROVE  claims' = claims
    <2>1. (Finish(x) \/ Timer(x) \/ Loss(x) \/ Shutdown(x) \/ Crash(x)) => UNCHANGED authorityVars
      BY DEF Finish, FinishClaim, FinishRenew, FinishRelease, FinishLook, AfterLook, GoOn,
             FinishClose, FinishCheckout, FinishFarewell, End, Timer, Fire, Heartbeat, Loss,
             GiveUp, Vanish, Shutdown, Crash
    <2>2. Call(x) => UNCHANGED authorityVars
      BY DEF Call, ReadState, StartRetained, NewClaim, AgainClaim, LookFirst, AgainClose,
             AgainCheckout, StartRenew, StartRelease, StartLook, CallRetry, RunRetry, Execute
    <2> QED BY <1>6, <2>1, <2>2 DEF ControllerStep, authorityVars
  <1>7. Authority => req' = req
    BY DEF Authority, clientVars
  <1>8. UNCHANGED vars => claims' = claims
    BY DEF vars
  <1> HIDE DEF d
  <1> QED BY <1>3, <1>4, <1>5, <1>6, <1>7, <1>8 DEF Next, d

\* A release or close sent under one tenure and carried out late never ends
\* another tenure, the one its sender holds then.
THEOREM LateRequestsSpareTenures == Spec => LateRequestsSpareTheTenure
  <1>1. ControllerInv /\ [Next]_vars =>
          [\A p \in Controllers, s \in Slots :
             (/\ req[p][s].tool \in {"issue_release", "issue_close"}
              /\ req'[p][s] # req[p][s]
              /\ Has(ctl[p]) /\ req[p][s].claim # ctl[p].active.claim
              /\ RowOf(p).state = "held" /\ RowOf(p).left > 0)
                => claims'[ctl[p].active.claim].state = "held"]_vars
    BY LateSpares
  <1> QED BY <1>1, ControllerInvariance, PTL DEF Spec, LateRequestsSpareTheTenure
=============================================================================
