------------------------ MODULE LeaseAuthorityProofs ------------------------
(***************************************************************************)
(* What every transaction of the authority preserves, for any number of     *)
(* issues, tenures and any TTL.                                              *)
(***************************************************************************)
EXTENDS LeaseAuthority, TLAPS

AuthorityOK == AuthorityTypeOK /\ RowsOK

\* One transaction of any kind, or none.
Transaction ==
    \/ \E i \in Issues, h \in Nat, c \in Claims : Acquire(i, h, c)
    \/ \E i \in Issues, h \in Nat, c \in Claims : Renew(i, h, c)
    \/ \E i \in Issues, h \in Nat : Release(i, h)
    \/ \E i \in Issues, h \in Nat, c \in Claims, k \in Nat : CloseCommit(i, h, c, k)
    \/ \E i \in Issues : HumanClose(i) \/ HumanReopen(i) \/ ForceRelease(i)
    \/ Sweep
    \/ UNCHANGED authorityVars

\* What a transaction may do to a row that was granted: nothing, move its
\* expiry later, expire it when its time is up, or release it.
RowKept(c) ==
    /\ claims'[c].issue = claims[c].issue
    /\ claims'[c].holder = claims[c].holder
    /\ \/ claims'[c] = claims[c]
       \/ claims[c].state = "held" /\ claims'[c].state = "released"
       \/ /\ claims[c].state = "held" /\ claims'[c].state = "held"
          /\ claims[c].left > 0 /\ claims'[c].left >= claims[c].left
       \/ claims[c].state = "held" /\ claims[c].left = 0 /\ claims'[c].state = "expired"

-----------------------------------------------------------------------------
\* Expiring the lapsed rows keeps the shape of the table.
LEMMA SweptType ==
    ASSUME claims \in [Claims -> Row]
    PROVE  Swept \in [Claims -> Row]
  <1> SUFFICES ASSUME NEW c \in Claims
               PROVE  (IF claims[c].state = "held" /\ claims[c].left = 0
                       THEN [claims[c] EXCEPT !.state = "expired"] ELSE claims[c]) \in Row
    BY DEF Swept
  <1>1. claims[c] \in Row
    OBVIOUS
  <1> QED BY <1>1 DEF Row

\* Releasing rows keeps the shape of the table.
LEMMA ReleasedFromType ==
    ASSUME NEW rows \in [Claims -> Row], NEW S
    PROVE  ReleasedFrom(rows, S) \in [Claims -> Row]
  <1> SUFFICES ASSUME NEW c \in Claims
               PROVE  (IF c \in S THEN [rows[c] EXCEPT !.state = "released", !.left = 0]
                       ELSE rows[c]) \in Row
    BY DEF ReleasedFrom
  <1>1. rows[c] \in Row
    OBVIOUS
  <1>2. 0 \in 0..TTL
    BY AuthorityAssumption
  <1> QED BY <1>1, <1>2 DEF Row

\* The authority's variables keep their types through every transaction.
LEMMA TransactionType ==
    ASSUME AuthorityTypeOK, Transaction
    PROVE  AuthorityTypeOK'
  <1> USE AuthorityAssumption DEF AuthorityTypeOK
  <1>0. /\ Swept \in [Claims -> Row]
        /\ \A S : ReleasedFrom(Swept, S) \in [Claims -> Row]
        /\ \A S : ReleasedFrom(claims, S) \in [Claims -> Row]
    BY SweptType, ReleasedFromType
  <1>1. ASSUME NEW i \in Issues, NEW h \in Nat, NEW c \in Claims, Acquire(i, h, c)
        PROVE  AuthorityTypeOK'
    <2>1. [issue |-> i, holder |-> h, left |-> TTL, state |-> "held"] \in Row
      BY DEF Row
    <2>2. CASE claims' = Swept /\ UNCHANGED nextClaim
      BY <1>0, <1>1, <2>2 DEF Acquire
    <2>3. CASE /\ c = nextClaim
               /\ claims' = [Swept EXCEPT ![c] = [issue |-> i, holder |-> h,
                                                  left |-> TTL, state |-> "held"]]
               /\ nextClaim' = nextClaim + 1
      BY <1>0, <1>1, <2>1, <2>3 DEF Acquire, Claims
    <2> QED BY <1>1, <2>2, <2>3 DEF Acquire
  <1>2. ASSUME NEW i \in Issues, NEW h \in Nat, NEW c \in Claims, Renew(i, h, c)
        PROVE  AuthorityTypeOK'
    <2>1. Swept[c] \in Row
      BY <1>0
    <2>2. [Swept[c] EXCEPT !.left = TTL] \in Row
      BY <2>1 DEF Row
    <2> QED BY <1>0, <1>2, <2>2 DEF Renew
  <1>3. ASSUME NEW i \in Issues, NEW h \in Nat, Release(i, h)
        PROVE  AuthorityTypeOK'
    BY <1>0, <1>3 DEF Release
  <1>4. ASSUME NEW i \in Issues, NEW h \in Nat, NEW c \in Claims, NEW k \in Nat,
               CloseCommit(i, h, c, k)
        PROVE  AuthorityTypeOK'
    <2>1. CASE UNCHANGED authorityVars
      BY <2>1 DEF authorityVars
    <2>2. CASE /\ status' = [status EXCEPT ![i] = "closed"]
               /\ claims' = ReleasedFrom(claims, {c})
               /\ receipts' = receipts \cup {k} /\ UNCHANGED nextClaim
      <3>1. status' \in [Issues -> {"open", "closed"}] /\ claims' \in [Claims -> Row]
        BY <1>0, <2>2
      <3>2. nextClaim' \in 1..(MaxClaims + 1) /\ receipts' \subseteq Nat
        BY <1>4, <2>2
      <3> QED BY <3>1, <3>2
    <2> QED BY <1>4, <2>1, <2>2 DEF CloseCommit
  <1>5. ASSUME NEW i \in Issues, HumanClose(i) \/ HumanReopen(i) \/ ForceRelease(i)
        PROVE  AuthorityTypeOK'
    <2>1. CASE HumanClose(i)
      BY <1>0, <2>1 DEF HumanClose
    <2>2. CASE HumanReopen(i)
      BY <2>2 DEF HumanReopen
    <2>3. CASE ForceRelease(i)
      BY <1>0, <2>3 DEF ForceRelease
    <2> QED BY <1>5, <2>1, <2>2, <2>3
  <1>6. CASE Sweep
    BY <1>0, <1>6 DEF Sweep
  <1>7. CASE UNCHANGED authorityVars
    BY <1>7 DEF authorityVars
  <1> QED BY <1>1, <1>2, <1>3, <1>4, <1>5, <1>6, <1>7 DEF Transaction

\* A granted row is only kept, extended, released, or expired when lapsed.
LEMMA TransactionKeepsRows ==
    ASSUME AuthorityOK, Transaction,
           NEW c \in Claims, claims[c].state # "free"
    PROVE  RowKept(c)
  <1> USE AuthorityAssumption
  <1>0. /\ claims \in [Claims -> Row] /\ claims[c] \in Row
        /\ claims[c].left \in 0..TTL
    BY DEF AuthorityOK, AuthorityTypeOK, Row
  <1>1. ASSUME claims' = Swept PROVE RowKept(c)
    BY <1>0, <1>1 DEF Swept, RowKept, Row
  <1>2. ASSUME NEW S, S \subseteq {d \in Claims : claims[d].state = "held"},
               claims' = ReleasedFrom(Swept, S) \/ claims' = ReleasedFrom(claims, S)
        PROVE  RowKept(c)
    <2>0. \/ Swept[c] = claims[c]
          \/ /\ claims[c].state = "held" /\ claims[c].left = 0
             /\ Swept[c] = [claims[c] EXCEPT !.state = "expired"]
      BY DEF Swept
    <2>1. CASE c \in S
      <3>1. claims[c].state = "held"
        BY <1>2, <2>1
      <3>2. \/ claims'[c] = [Swept[c] EXCEPT !.state = "released", !.left = 0]
            \/ claims'[c] = [claims[c] EXCEPT !.state = "released", !.left = 0]
        BY <1>2, <2>1 DEF ReleasedFrom
      <3>3. ASSUME NEW r \in Row, r.issue = claims[c].issue, r.holder = claims[c].holder,
                   claims'[c] = [r EXCEPT !.state = "released", !.left = 0]
            PROVE  RowKept(c)
        BY <3>1, <3>3 DEF RowKept, Row
      <3>4. Swept[c] \in Row /\ Swept[c].issue = claims[c].issue /\ Swept[c].holder = claims[c].holder
        BY <1>0, <2>0 DEF Row
      <3> QED BY <1>0, <3>2, <3>3, <3>4
    <2>2. CASE c \notin S
      <3>1. claims'[c] = Swept[c] \/ claims'[c] = claims[c]
        BY <1>2, <2>2 DEF ReleasedFrom
      <3> QED BY <1>0, <2>0, <3>1 DEF RowKept, Row
    <2> QED BY <2>1, <2>2
  <1>3. ASSUME claims' = claims PROVE RowKept(c)
    BY <1>3 DEF RowKept
  <1>4. ASSUME NEW i \in Issues, NEW h \in Nat, NEW d \in Claims, Acquire(i, h, d)
        PROVE  RowKept(c)
    <2>1. CASE claims' = Swept
      BY <1>1, <2>1
    <2>2. CASE /\ d = nextClaim
               /\ claims' = [Swept EXCEPT ![d] = [issue |-> i, holder |-> h,
                                                  left |-> TTL, state |-> "held"]]
      <3>1. claims[d] = FreeRow
        BY <2>2 DEF AuthorityOK, AuthorityTypeOK, RowsOK, Claims
      <3>2. c # d
        BY <3>1 DEF FreeRow
      <3>3. claims'[c] = Swept[c]
        BY <2>2, <3>2 DEF Swept
      <3> QED BY <1>0, <3>3 DEF Swept, RowKept, Row
    <2> QED BY <1>4, <2>1, <2>2 DEF Acquire
  <1>5. ASSUME NEW i \in Issues, NEW h \in Nat, NEW d \in Claims, Renew(i, h, d)
        PROVE  RowKept(c)
    <2>1. /\ claims' = [Swept EXCEPT ![d].left = TTL]
          /\ claims[d].state = "held" /\ claims[d].left > 0
      BY <1>5 DEF Renew, LiveOf, Live
    <2>2. CASE c = d
      <3>1. Swept[d] = claims[d]
        BY <2>1 DEF Swept
      <3>2. claims'[c] = [claims[c] EXCEPT !.left = TTL]
        BY <2>1, <2>2, <3>1 DEF Swept
      <3> QED BY <1>0, <2>1, <2>2, <3>2 DEF RowKept, Row
    <2>3. CASE c # d
      <3>1. claims'[c] = Swept[c]
        BY <2>1, <2>3 DEF Swept
      <3> QED BY <1>0, <3>1 DEF Swept, RowKept, Row
    <2> QED BY <2>2, <2>3
  <1>6. ASSUME NEW i \in Issues, NEW h \in Nat, Release(i, h)
        PROVE  RowKept(c)
    BY <1>2, <1>6 DEF Release, LiveOf, Live
  <1>7. ASSUME NEW i \in Issues, NEW h \in Nat, NEW d \in Claims, NEW k \in Nat,
               CloseCommit(i, h, d, k)
        PROVE  RowKept(c)
    <2>1. claims' = ReleasedFrom(claims, {d}) \/ claims' = claims
      BY <1>7 DEF CloseCommit, authorityVars
    <2>2. {d} \subseteq {e \in Claims : claims[e].state = "held"}
      BY <1>7 DEF CloseCommit, GuardHolds, LiveOf, Live
    <2> QED BY <1>2, <1>3, <2>1, <2>2
  <1>8. ASSUME NEW i \in Issues, HumanClose(i) \/ HumanReopen(i) \/ ForceRelease(i)
        PROVE  RowKept(c)
    BY <1>2, <1>3, <1>8 DEF HumanClose, HumanReopen, ForceRelease, Live
  <1>9. ASSUME Sweep PROVE RowKept(c)
    BY <1>1, <1>9 DEF Sweep
  <1> QED BY <1>3, <1>4, <1>5, <1>6, <1>7, <1>8, <1>9 DEF Transaction, authorityVars

\* A row that was free stays so, or is the one tenure an acquire started for an
\* issue of which nothing else is held after it.
LEMMA TransactionOnFreeRows ==
    ASSUME AuthorityOK, Transaction,
           NEW c \in Claims, claims[c].state = "free"
    PROVE  \/ claims'[c] = claims[c]
           \/ /\ c = nextClaim /\ nextClaim' = nextClaim + 1
              /\ claims'[c].issue \in Issues
              /\ \A d \in Claims \ {c} :
                    claims'[d].state = "held" => claims'[d].issue # claims'[c].issue
  <1> USE AuthorityAssumption
  <1>0. claims \in [Claims -> Row] /\ claims[c] \in Row
    BY DEF AuthorityOK, AuthorityTypeOK, Row
  <1>1. Swept[c] = claims[c]
    BY DEF Swept
  <1>2. ASSUME NEW S, S \subseteq {d \in Claims : claims[d].state = "held"},
               claims' = ReleasedFrom(Swept, S) \/ claims' = ReleasedFrom(claims, S)
        PROVE  claims'[c] = claims[c]
    BY <1>0, <1>1, <1>2 DEF ReleasedFrom
  <1>3. ASSUME NEW i \in Issues, NEW h \in Nat, NEW d \in Claims, Acquire(i, h, d),
               claims'[c] # claims[c]
        PROVE  /\ c = nextClaim /\ nextClaim' = nextClaim + 1
               /\ claims'[c].issue \in Issues
               /\ \A e \in Claims \ {c} :
                     claims'[e].state = "held" => claims'[e].issue # claims'[c].issue
    <2>1. /\ Live(i) = {} /\ d = nextClaim /\ nextClaim' = nextClaim + 1
          /\ claims' = [Swept EXCEPT ![d] = [issue |-> i, holder |-> h,
                                             left |-> TTL, state |-> "held"]]
      BY <1>1, <1>3 DEF Acquire
    <2>2. c = d
      BY <1>1, <1>3, <2>1 DEF Swept
    <2>3. claims'[c].issue = i
      BY <2>1, <2>2 DEF Swept
    <2>4. ASSUME NEW e \in Claims \ {c}, claims'[e].state = "held"
          PROVE  claims'[e].issue # i
      <3>1. claims'[e] = Swept[e]
        BY <2>1, <2>2 DEF Swept
      <3>2. claims[e] \in Row
        BY <1>0
      <3>3. claims[e].state = "held" /\ claims[e].left > 0 /\ claims'[e].issue = claims[e].issue
        BY <2>4, <3>1, <3>2 DEF Swept, Row
      <3> QED BY <2>1, <3>3 DEF Live
    <2> QED BY <2>1, <2>2, <2>3, <2>4
  <1>4. ASSUME NEW i \in Issues, NEW h \in Nat, NEW d \in Claims, Renew(i, h, d)
        PROVE  claims'[c] = claims[c]
    <2>1. claims' = [Swept EXCEPT ![d].left = TTL] /\ claims[d].state = "held"
      BY <1>4 DEF Renew, LiveOf, Live
    <2> QED BY <1>1, <2>1 DEF Swept
  <1>5. ASSUME NEW i \in Issues, NEW h \in Nat, Release(i, h)
        PROVE  claims'[c] = claims[c]
    BY <1>2, <1>5 DEF Release, LiveOf, Live
  <1>6. ASSUME NEW i \in Issues, NEW h \in Nat, NEW d \in Claims, NEW k \in Nat,
               CloseCommit(i, h, d, k)
        PROVE  claims'[c] = claims[c]
    BY <1>2, <1>6 DEF CloseCommit, authorityVars, GuardHolds, LiveOf, Live
  <1>7. ASSUME NEW i \in Issues, HumanClose(i) \/ HumanReopen(i) \/ ForceRelease(i)
        PROVE  claims'[c] = claims[c]
    BY <1>2, <1>7 DEF HumanClose, HumanReopen, ForceRelease, Live
  <1>8. ASSUME Sweep PROVE claims'[c] = claims[c]
    BY <1>1, <1>8 DEF Sweep
  <1> QED BY <1>3, <1>4, <1>5, <1>6, <1>7, <1>8 DEF Transaction, authorityVars

\* No transaction leaves an issue with two unreleased rows: an acquire expires
\* the lapsed ones before it starts a tenure.
LEMMA TransactionRows ==
    ASSUME AuthorityOK, Transaction
    PROVE  RowsOK'
  <1>1. ASSUME NEW c \in Claims, c >= nextClaim'
        PROVE  claims'[c] = FreeRow
    <2>0. nextClaim' = nextClaim \/ nextClaim' = nextClaim + 1
      BY DEF Transaction, Acquire, Renew, Release, CloseCommit,
             HumanClose, HumanReopen, ForceRelease, Sweep, authorityVars
    <2>1. nextClaim' \in Nat /\ nextClaim \in Nat /\ nextClaim' >= nextClaim
      BY <2>0, AuthorityAssumption DEF AuthorityOK, AuthorityTypeOK
    <2>2. claims[c] = FreeRow
      BY <1>1, <2>1 DEF AuthorityOK, RowsOK, Claims
    <2>3. ~(c = nextClaim /\ nextClaim' = nextClaim + 1)
      BY <1>1, <2>1
    <2>4. claims[c].state = "free"
      BY <2>2 DEF FreeRow
    <2> QED BY <2>2, <2>3, <2>4, TransactionOnFreeRows
  <1>2. ASSUME NEW c \in Claims, NEW d \in Claims, c # d,
               claims'[c].state = "held", claims'[d].state = "held",
               claims'[c].issue = claims'[d].issue
        PROVE  FALSE
    <2>1. CASE claims[c].state = "free"
      <3>1. claims'[c] # claims[c]
        BY <1>2, <2>1
      <3> QED BY <1>2, <2>1, <3>1, TransactionOnFreeRows
    <2>2. CASE claims[d].state = "free"
      <3>1. claims'[d] # claims[d]
        BY <1>2, <2>2
      <3> QED BY <1>2, <2>2, <3>1, TransactionOnFreeRows
    <2>3. CASE claims[c].state # "free" /\ claims[d].state # "free"
      <3>1. RowKept(c) /\ RowKept(d)
        BY <2>3, TransactionKeepsRows
      <3>2. /\ claims[c].state = "held" /\ claims[d].state = "held"
            /\ claims[c].issue = claims[d].issue
        BY <1>2, <3>1 DEF RowKept
      <3> QED BY <1>2, <3>2 DEF AuthorityOK, RowsOK
    <2> QED BY <2>1, <2>2, <2>3
  <1>3. ASSUME NEW c \in Claims, claims'[c].state # "free"
        PROVE  claims'[c].issue \in Issues
    <2>1. CASE claims[c].state = "free"
      BY <1>3, <2>1, TransactionOnFreeRows
    <2>2. CASE claims[c].state # "free"
      BY <2>2, TransactionKeepsRows DEF RowKept, AuthorityOK, RowsOK
    <2> QED BY <2>1, <2>2
  <1> QED BY <1>1, <1>2, <1>3 DEF RowsOK, Claims

\* What lasts keeps lasting as long: no transaction shortens a lease.
LEMMA TransactionLasts ==
    ASSUME AuthorityOK, Transaction, NEW c, NEW left, Lasts(c, left), left \in Nat
    PROVE  Lasts(c, left)' /\ RowKept(c)
  <1>1. c \in Claims /\ claims[c].state # "free"
    BY DEF Lasts
  <1>2. RowKept(c)
    BY <1>1, TransactionKeepsRows
  <1>3. claims[c].left \in Nat /\ claims'[c].left \in Nat
    <2>1. claims[c] \in Row /\ claims'[c] \in Row
      BY <1>1, TransactionType DEF AuthorityOK, AuthorityTypeOK, Claims
    <2>2. 0..TTL \subseteq Nat
      BY AuthorityAssumption
    <2> QED BY <2>1, <2>2 DEF Row
  <1>4. Claims' = Claims
    BY DEF Claims
  <1> QED BY <1>1, <1>2, <1>3, <1>4 DEF Lasts, RowKept

\* The same with the issue and the principal the claim was granted for.
LEMMA TransactionBacked ==
    ASSUME AuthorityOK, Transaction, NEW i, NEW h, NEW c, NEW left \in Nat,
           Backed(i, h, c, left)
    PROVE  claims'[c].issue = i /\ claims'[c].holder = h /\ Lasts(c, left)'
  BY TransactionLasts DEF Backed, RowKept

\* A granted live claim's issue is closed only together with the claim.
LEMMA TransactionOpenWork ==
    ASSUME AuthorityOK, Transaction, NEW c \in Claims, claims[c].state # "free",
           OnOpenWork(c)
    PROVE  OnOpenWork(c)'
  <1> SUFFICES ASSUME claims'[c].state = "held", claims'[c].left > 0
               PROVE  status'[claims'[c].issue] = "open"
    BY DEF OnOpenWork
  <1>1. RowKept(c)
    BY TransactionKeepsRows
  <1>2. /\ claims[c].state = "held" /\ claims[c].left > 0
        /\ claims'[c].issue = claims[c].issue
    BY <1>1 DEF RowKept
  <1>3. status[claims[c].issue] = "open"
    BY <1>2 DEF OnOpenWork
  <1>4. status \in [Issues -> {"open", "closed"}] /\ claims \in [Claims -> Row]
    BY DEF AuthorityOK, AuthorityTypeOK
  <1>5. ASSUME NEW i \in Issues, NEW h \in Nat, NEW d \in Claims, NEW k \in Nat,
               CloseCommit(i, h, d, k), status' # status
        PROVE  i # claims[c].issue
    <2>1. /\ d \in Claims /\ claims[d].issue = i /\ claims[d].state = "held"
          /\ claims' = ReleasedFrom(claims, {d})
      BY <1>5 DEF CloseCommit, GuardHolds, LiveOf, Live, authorityVars
    <2>2. c # d
      BY <1>4, <2>1 DEF ReleasedFrom, Row
    <2> QED BY <1>2, <2>1, <2>2 DEF AuthorityOK, RowsOK
  <1>6. ASSUME NEW i \in Issues, HumanClose(i)
        PROVE  i # claims[c].issue
    <2>1. ASSUME i = claims[c].issue PROVE FALSE
      <3>1. c \in Live(i)
        BY <1>2, <2>1 DEF Live
      <3>2. claims'[c].state = "released"
        BY <1>4, <1>6, <3>1 DEF HumanClose, ReleasedFrom, Row
      <3> QED BY <3>2
    <2> QED BY <2>1
  <1>7. \/ status' = status
        \/ \E i \in Issues, h \in Nat, d \in Claims, k \in Nat :
              CloseCommit(i, h, d, k) /\ status' = [status EXCEPT ![i] = "closed"]
        \/ \E i \in Issues : HumanClose(i) /\ status' = [status EXCEPT ![i] = "closed"]
        \/ \E i \in Issues : status' = [status EXCEPT ![i] = "open"]
    BY DEF Transaction, Acquire, Renew, Release, CloseCommit, HumanClose, HumanReopen,
           ForceRelease, Sweep, authorityVars
  <1>8. status'[claims[c].issue] = "open"
    <2>1. CASE status' = status
      BY <1>3, <2>1
    <2>2. CASE status' # status
      <3>1. claims[c].issue \in Issues
        BY DEF AuthorityOK, RowsOK
      <3>2. ASSUME NEW i \in Issues, NEW v, i # claims[c].issue,
                   status' = [status EXCEPT ![i] = v]
            PROVE  status'[claims[c].issue] = "open"
        BY <1>3, <1>4, <3>1, <3>2
      <3>3. ASSUME NEW i \in Issues, status' = [status EXCEPT ![i] = "open"]
            PROVE  status'[claims[c].issue] = "open"
        BY <1>3, <1>4, <3>1, <3>3
      <3> QED BY <1>5, <1>6, <1>7, <2>2, <3>2, <3>3
    <2> QED BY <2>1, <2>2
  <1> QED BY <1>2, <1>8

-----------------------------------------------------------------------------
\* One unit of time keeps the table well formed, takes at most one unit from
\* what lasts, and closes nothing.
LEMMA ElapseKeeps ==
    ASSUME AuthorityOK, Elapse
    PROVE  /\ AuthorityTypeOK' /\ RowsOK'
           /\ \A c, left : (Lasts(c, left) /\ left \in Nat) => Lasts(c, Monus(left, 1))'
           /\ \A c \in Claims : /\ claims'[c].issue = claims[c].issue
                                /\ claims'[c].holder = claims[c].holder
           /\ \A c \in Claims : OnOpenWork(c) => OnOpenWork(c)'
  <1> USE AuthorityAssumption
  <1>0. claims \in [Claims -> Row] /\ nextClaim' = nextClaim /\ status' = status
    BY DEF AuthorityOK, AuthorityTypeOK, Elapse
  <1>1. ASSUME NEW c \in Claims
        PROVE  /\ claims'[c] = [claims[c] EXCEPT !.left = Monus(claims[c].left, 1)]
               /\ claims[c] \in Row /\ claims'[c] \in Row
               /\ claims[c].left \in Nat
               /\ claims'[c].left = Monus(claims[c].left, 1)
               /\ claims'[c].state = claims[c].state
               /\ claims'[c].issue = claims[c].issue
               /\ claims'[c].holder = claims[c].holder
    <2>1. claims[c] \in Row /\ claims[c].left \in 0..TTL
      BY <1>0 DEF Row
    <2>2. Monus(claims[c].left, 1) \in 0..TTL
      BY <2>1 DEF Monus
    <2>3. claims'[c] = [claims[c] EXCEPT !.left = Monus(claims[c].left, 1)]
      BY DEF Elapse
    <2> QED BY <2>1, <2>2, <2>3 DEF Row
  <1>2. AuthorityTypeOK'
    <2>1. claims' \in [Claims -> Row]
      BY <1>0, <1>1 DEF Elapse
    <2> QED BY <2>1 DEF AuthorityOK, AuthorityTypeOK, Elapse, Claims, Row
  <1>3. RowsOK'
    <2>1. ASSUME NEW c \in Claims, c >= nextClaim' PROVE claims'[c] = FreeRow
      BY <1>0, <1>1, <2>1 DEF AuthorityOK, RowsOK, FreeRow, Monus
    <2> QED BY <1>1, <2>1 DEF AuthorityOK, RowsOK, Claims
  <1>4. ASSUME NEW c, NEW left \in Nat, Lasts(c, left)
        PROVE  Lasts(c, Monus(left, 1))'
    <2>1. c \in Claims
      BY <1>4 DEF Lasts
    <2>2. Monus(left, 1)' = Monus(left, 1) /\ Claims' = Claims
      BY DEF Monus, Claims
    <2>3. /\ claims'[c].state = claims[c].state
          /\ claims[c].left >= left => claims'[c].left >= Monus(left, 1)
          /\ left = 0 => Monus(left, 1) = 0
      <3>1. /\ claims[c].left \in Nat /\ claims'[c].left = Monus(claims[c].left, 1)
            /\ claims'[c].state = claims[c].state
        BY <1>1, <2>1
      <3> QED BY <1>4, <3>1 DEF Monus
    <2> QED BY <1>4, <2>1, <2>2, <2>3 DEF Lasts
  <1>5. ASSUME NEW c \in Claims, OnOpenWork(c) PROVE OnOpenWork(c)'
    <2>1. claims'[c].left > 0 => claims[c].left > 0
      <3>1. claims[c].left \in Nat /\ claims'[c].left = Monus(claims[c].left, 1)
        BY <1>1
      <3> QED BY <3>1 DEF Monus
    <2> QED BY <1>0, <1>1, <1>5, <2>1 DEF OnOpenWork
  <1> QED BY <1>1, <1>2, <1>3, <1>4, <1>5

-----------------------------------------------------------------------------
(* Leases and answers.                                                       *)

\* What lasts for some time lasts for less.
LEMMA LastsLess ==
    ASSUME NEW c, NEW left \in Nat, NEW less \in Nat, less <= left,
           claims[c].left \in Nat, Lasts(c, left)
    PROVE  Lasts(c, less)
  BY DEF Lasts

\* A lease that lasts lasts for less, by the types alone.
LEMMA LeaseLastsLess ==
    ASSUME AuthorityTypeOK, NEW c, NEW x \in Nat, NEW y \in Nat, y <= x, Lasts(c, x)
    PROVE  Lasts(c, y)
  <1>1. c \in Claims /\ claims[c] \in Row
    BY DEF Lasts, AuthorityTypeOK
  <1>2. claims[c].left \in Nat
    BY <1>1, AuthorityAssumption DEF Row
  <1> QED BY <1>2, LastsLess

\* What lasts after a step lasts for less.
LEMMA LastsLessAfter ==
    ASSUME AuthorityTypeOK', NEW c, NEW x \in Nat, NEW y \in Nat, y <= x, Lasts(c, x)'
    PROVE  Lasts(c, y)'
  <1>1. c \in Claims' /\ claims'[c] \in Row'
    BY DEF Lasts, AuthorityTypeOK
  <1>2. claims'[c].left \in Nat
    BY <1>1, AuthorityAssumption DEF Row
  <1> QED BY <1>1, <1>2 DEF Lasts

\* A live row is of an issue.
LEMMA LiveIssue ==
    ASSUME RowsOK, NEW i, NEW h, LiveOf(i, h) # {}
    PROVE  i \in Issues
  BY DEF LiveOf, Live, RowsOK

\* Nothing changes in the authority.
LEMMA QuietTransaction ==
    ASSUME UNCHANGED authorityVars
    PROVE  Transaction
  BY DEF Transaction

\* An acquired claim is the caller's, and held.
LEMMA AcquiredBacked ==
    ASSUME AuthorityOK, Transaction, NEW i \in Issues, NEW h \in Nat, NEW c \in Claims,
           Acquire(i, h, c)
    PROVE  /\ claims'[c].left \in 0..TTL
           /\ \A n : n = claims'[c].left => Backed(i, h, c, n)'
  <1>1. claims'[c] \in Row
    BY TransactionType DEF AuthorityOK, AuthorityTypeOK, Claims, Row
  <1>2. claims'[c].left \in 0..TTL /\ claims'[c].left >= claims'[c].left
    BY <1>1, AuthorityAssumption DEF Row
  <1>3. claims \in [Claims -> Row] /\ Swept \in [Claims -> Row]
    BY SweptType DEF AuthorityOK, AuthorityTypeOK
  <1>4. (c \in LiveOf(i, h) /\ claims' = Swept)
        \/ claims' = [Swept EXCEPT ![c] = [issue |-> i, holder |-> h,
                                           left |-> TTL, state |-> "held"]]
    BY DEF Acquire
  <1>5. claims'[c].issue = i /\ claims'[c].holder = h /\ claims'[c].state = "held"
    <2>1. CASE c \in LiveOf(i, h) /\ claims' = Swept
      BY <1>3, <2>1 DEF LiveOf, Live, Swept
    <2>2. CASE claims' = [Swept EXCEPT ![c] = [issue |-> i, holder |-> h,
                                               left |-> TTL, state |-> "held"]]
      <3>1. claims'[c] = [issue |-> i, holder |-> h, left |-> TTL, state |-> "held"]
        BY <1>3, <2>2
      <3> QED BY <3>1
    <2> QED BY <1>4, <2>1, <2>2
  <1>6. ASSUME NEW n, n = claims'[c].left PROVE Backed(i, h, c, n)'
    BY <1>2, <1>5, <1>6 DEF Backed, Lasts, Claims
  <1> QED BY <1>2, <1>6

\* A renewed lease lasts a whole ttl.
LEMMA RenewedBacked ==
    ASSUME AuthorityOK, NEW i, NEW h, NEW c, Renew(i, h, c)
    PROVE  Backed(i, h, c, TTL)'
  <1>1. /\ c \in Claims /\ claims[c].issue = i /\ claims[c].holder = h
        /\ claims[c].state = "held" /\ claims[c].left > 0 /\ claims[c] \in Row
    BY DEF Renew, LiveOf, Live, AuthorityOK, AuthorityTypeOK
  <1>2. claims[c].left # 0
    BY <1>1, AuthorityAssumption DEF Row
  <1>3. Swept[c] = claims[c]
    BY <1>1, <1>2 DEF Swept
  <1>4. claims'[c] = [claims[c] EXCEPT !.left = TTL]
    BY <1>1, <1>3 DEF Renew, Swept
  <1>5. /\ claims'[c].issue = i /\ claims'[c].holder = h /\ claims'[c].state = "held"
        /\ claims'[c].left = TTL
    BY <1>1, <1>4 DEF Row
  <1> QED BY <1>1, <1>5, AuthorityAssumption DEF Backed, Lasts, Claims

\* A transaction keeps what backs a promise of n more units.
LEMMA BackedAfter ==
    ASSUME AuthorityOK, Transaction, NEW i, NEW h, NEW c, NEW n \in Nat, Backed(i, h, c, n)
    PROVE  Backed(i, h, c, n)'
  BY TransactionBacked DEF Backed

\* One unit of time takes at most one unit from it.
LEMMA ElapseBacked ==
    ASSUME AuthorityOK, Elapse, NEW i, NEW h, NEW c, NEW n \in Nat, NEW m, m = Monus(n, 1),
           Backed(i, h, c, n)
    PROVE  Backed(i, h, c, m)'
  <1>1. Lasts(c, Monus(n, 1))'
    BY ElapseKeeps DEF Backed
  <1>2. Monus(n, 1)' = m
    BY DEF Monus
  <1>3. c \in Claims /\ claims'[c].issue = claims[c].issue /\ claims'[c].holder = claims[c].holder
    BY ElapseKeeps DEF Backed, Lasts
  <1> QED BY <1>1, <1>2, <1>3 DEF Backed

-----------------------------------------------------------------------------
\* The empty table is well formed.
LEMMA AuthorityInitOK == AuthorityInit => AuthorityTypeOK /\ RowsOK
  <1> SUFFICES ASSUME AuthorityInit PROVE AuthorityTypeOK /\ RowsOK
    OBVIOUS
  <1>1. FreeRow \in Row
    BY AuthorityAssumption DEF FreeRow, Row, NoHolder
  <1>2. AuthorityTypeOK
    BY <1>1, AuthorityAssumption DEF AuthorityInit, AuthorityTypeOK
  <1>3. RowsOK
    BY DEF AuthorityInit, RowsOK, FreeRow
  <1> QED BY <1>2, <1>3
=============================================================================
