------------------------ MODULE RefreshTokensProofs ------------------------
(***************************************************************************)
(* What holds of an account's session for any number of requests and any   *)
(* lives of the tokens: when a revocation is final, and how a replaced     *)
(* token can come back.                                                    *)
(*                                                                         *)
(* The revocation argument: while a revocation no issue has overlapped is  *)
(* under way, no token is being made, so that when it commits whatever is  *)
(* stored later was made later.  It clears the hash even when the ORM      *)
(* writes nothing: it then loaded a NULL that is still there.              *)
(* The replacement argument: every stored, replaced or loaded token was    *)
(* stored by a request that is done, and a request stores its token once.  *)
(***************************************************************************)
EXTENDS RefreshTokens, TLAPS

\* Request q stored token t.
Made(q, t) ==
    /\ requests[q].op \in Issues
    /\ requests[q].pc = "done"
    /\ requests[q].token = t

\* A token made and not yet stored is as young as the fence.
FenceInv ==
    /\ fence <= now
    /\ hash # None => hash >= fence
    /\ \A r \in Requests :
          requests[r].pc = "built" => /\ requests[r].op \in Issues
                                      /\ requests[r].token \in Time
                                      /\ requests[r].token >= fence

CleanInv ==
    /\ clean # {} => Issuing = {}
    /\ \A r \in clean : /\ requests[r].op \in Revokes
                        /\ requests[r].pc = "loaded"
                        /\ requests[r].seen = None => hash = None

MadeInv ==
    /\ hash # None => \E q \in Requests : Made(q, hash)
    /\ \A t \in spent : \E q \in Requests : Made(q, t)
    /\ \A r \in Requests :
          requests[r].pc \in {"loaded", "built"} /\ requests[r].seen # None
             => \E q \in Requests : Made(q, requests[r].seen)
    /\ SpentStaysSpent

IInv == TypeOK /\ FenceInv /\ CleanInv /\ MadeInv

-----------------------------------------------------------------------------
LEMMA TypeInit == Init => TypeOK
BY TokenAssumption DEF Init, TypeOK, Time, Token, Request

\* A step that gives one request a new record.
LEMMA RequestStep ==
    ASSUME TypeOK, NEW r \in Requests, NEW q \in Request,
           requests' = [requests EXCEPT ![r] = q]
    PROVE  /\ requests' \in [Requests -> Request]
           /\ requests'[r] = q
           /\ \A s \in Requests \ {r} : requests'[s] = requests[s]
BY DEF TypeOK

\* The ways a step changes a request.
LEMMA StartStep ==
    ASSUME TypeOK, NEW r \in Requests, NEW t \in Token,
           NEW op \in Issues \cup Revokes \cup {"toggle"}, Loaded(r, op, t)
    PROVE  /\ requests' \in [Requests -> Request]
           /\ requests'[r].op = op /\ requests'[r].pc = "loaded"
           /\ requests'[r].seen = hash
           /\ \A s \in Requests \ {r} : requests'[s] = requests[s]
<1> DEFINE q == [op |-> op, pc |-> "loaded", seen |-> hash, sawActive |-> active, token |-> t]
<1>1. q \in Request
  BY DEF Request, TypeOK
<1>2. requests' = [requests EXCEPT ![r] = q]
  BY DEF Loaded
<1>3. q.op = op /\ q.pc = "loaded" /\ q.seen = hash
  OBVIOUS
<1> HIDE DEF q
<1> QED
  BY <1>1, <1>2, <1>3, RequestStep

LEMMA BuildStep ==
    ASSUME TypeOK, NEW r \in Requests, Build(r)
    PROVE  /\ requests' \in [Requests -> Request]
           /\ requests'[r].op = requests[r].op /\ requests'[r].pc = "built"
           /\ requests'[r].seen = requests[r].seen /\ requests'[r].token = now
           /\ \A s \in Requests \ {r} : requests'[s] = requests[s]
<1> DEFINE q == [requests[r] EXCEPT !.pc = "built", !.token = now]
<1>1. q \in Request
  BY DEF Request, TypeOK, Token
<1>2. requests' = [requests EXCEPT ![r] = q]
  BY DEF Build
<1>3. /\ q.op = requests[r].op /\ q.pc = "built"
      /\ q.seen = requests[r].seen /\ q.token = now
  BY DEF TypeOK, Request
<1> HIDE DEF q
<1> QED
  BY <1>1, <1>2, <1>3, RequestStep

LEMMA EndStep ==
    ASSUME TypeOK, NEW r \in Requests, NEW pc \in {"done", "failed"},
           requests' = [requests EXCEPT ![r].pc = pc]
    PROVE  /\ requests' \in [Requests -> Request]
           /\ requests'[r].op = requests[r].op /\ requests'[r].pc = pc
           /\ requests'[r].token = requests[r].token
           /\ \A s \in Requests \ {r} : requests'[s] = requests[s]
<1> DEFINE q == [requests[r] EXCEPT !.pc = pc]
<1>1. q \in Request
  BY DEF Request, TypeOK
<1>2. requests' = [requests EXCEPT ![r] = q]
  OBVIOUS
<1>3. q.op = requests[r].op /\ q.pc = pc /\ q.token = requests[r].token
  BY DEF TypeOK, Request
<1> HIDE DEF q
<1> QED
  BY <1>1, <1>2, <1>3, RequestStep

-----------------------------------------------------------------------------
LEMMA InitIInv == Init => IInv
<1> SUFFICES ASSUME Init PROVE IInv
  OBVIOUS
<1>1. TypeOK
  BY TypeInit
<1>2. FenceInv
  BY TokenAssumption DEF Init, FenceInv
<1>3. CleanInv /\ MadeInv
  BY DEF Init, CleanInv, MadeInv, SpentStaysSpent
<1> QED
  BY <1>1, <1>2, <1>3 DEF IInv

\* A request that has stored its token keeps it.
LEMMA MadeStays ==
    ASSUME NEW r \in Requests, requests[r].pc # "done",
           \A s \in Requests \ {r} : requests'[s] = requests[s]
    PROVE  \A q \in Requests, t \in Token : Made(q, t) => q # r /\ Made(q, t)'
BY DEF Made

\* The replacement part, for a step that stores nothing.
LEMMA MadeKept ==
    ASSUME IInv, hash' = hash, spent' = spent,
           NEW r \in Requests, requests[r].pc # "done",
           \A s \in Requests \ {r} : requests'[s] = requests[s],
           \/ requests'[r].pc \notin {"loaded", "built"}
           \/ requests'[r].seen = hash
           \/ requests[r].pc \in {"loaded", "built"} /\ requests'[r].seen = requests[r].seen
    PROVE  MadeInv'
<1> USE DEF IInv, TypeOK
<1>1. \A q \in Requests, t \in Token : Made(q, t) => Made(q, t)'
  BY MadeStays
<1>2. \A q \in Requests : requests[q].seen \in Token
  BY DEF Request
<1>3. hash' # None => \E q \in Requests : Made(q, hash)'
  BY <1>1 DEF MadeInv
<1>4. \A t \in spent' : \E q \in Requests : Made(q, t)'
  BY <1>1 DEF MadeInv, Token
<1>5. ASSUME NEW q \in Requests, requests'[q].pc \in {"loaded", "built"},
             requests'[q].seen # None
      PROVE  \E p \in Requests : Made(p, requests[q].seen)'
  <2>1. CASE requests'[q].seen = hash
    BY <1>1, <1>5, <2>1 DEF MadeInv, Made
  <2>2. CASE requests[q].pc \in {"loaded", "built"} /\ requests'[q].seen = requests[q].seen
    <3>1. PICK p \in Requests : Made(p, requests[q].seen)
      BY <1>5, <2>2 DEF MadeInv
    <3> QED
      BY <1>1, <1>2, <2>2, <3>1 DEF Made
  <2> QED
    BY <1>5, <2>1, <2>2
<1>6. SpentStaysSpent'
  BY DEF MadeInv, SpentStaysSpent
<1> QED
  BY <1>3, <1>4, <1>5, <1>6 DEF MadeInv

-----------------------------------------------------------------------------
LEMMA IssueStarts ==
    ASSUME IInv, NEW r \in Requests, NEW op \in Issues, StartIssue(r, op)
    PROVE  IInv'
<1> USE DEF IInv, StartIssue
<1>1. Loaded(r, op, None) /\ TypeOK /\ None \in Token
  BY DEF Token
<1>2. /\ requests' \in [Requests -> Request]
      /\ requests'[r].op = op /\ requests'[r].pc = "loaded"
      /\ requests'[r].seen = hash
      /\ \A s \in Requests \ {r} : requests'[s] = requests[s]
  BY <1>1, StartStep
<1>3. TypeOK'
  BY <1>1, <1>2 DEF TypeOK, Loaded
<1>4. FenceInv'
  BY <1>1, <1>2 DEF FenceInv, Loaded
<1>5. CleanInv'
  BY DEF CleanInv
<1>6. MadeInv'
  BY <1>1, <1>2, MadeKept DEF Loaded
<1> QED
  BY <1>3, <1>4, <1>5, <1>6

LEMMA RevokeStarts ==
    ASSUME IInv, NEW r \in Requests, NEW op \in Revokes, NEW t \in Token,
           StartRevoke(r, op, t)
    PROVE  IInv'
<1> USE DEF IInv, StartRevoke
<1>1. Loaded(r, op, t) /\ TypeOK
  OBVIOUS
<1>2. /\ requests' \in [Requests -> Request]
      /\ requests'[r].op = op /\ requests'[r].pc = "loaded"
      /\ requests'[r].seen = hash
      /\ \A s \in Requests \ {r} : requests'[s] = requests[s]
  BY <1>1, StartStep
<1>3. TypeOK'
  BY <1>1, <1>2 DEF TypeOK, Loaded
<1>4. FenceInv'
  BY <1>1, <1>2 DEF FenceInv, Loaded
<1>5. CleanInv'
  <2>1. Issuing' \subseteq Issuing
    BY <1>2 DEF Issuing, Issues, Revokes
  <2>2. clean' # {} => Issuing = {}
    BY DEF CleanInv
  <2>3. \A s \in clean' : s # r => s \in clean /\ requests'[s] = requests[s]
    BY <1>2 DEF TypeOK
  <2>4. hash' = hash
    BY DEF Loaded
  <2> QED
    BY <1>2, <2>1, <2>2, <2>3, <2>4 DEF CleanInv
<1>6. MadeInv'
  BY <1>1, <1>2, MadeKept DEF Loaded
<1> QED
  BY <1>3, <1>4, <1>5, <1>6

LEMMA ToggleStarts ==
    ASSUME IInv, NEW r \in Requests, Toggle(r)
    PROVE  IInv'
<1> USE DEF IInv, Toggle
<1>1. Loaded(r, "toggle", None) /\ TypeOK /\ None \in Token
  BY DEF Token
<1>2. /\ requests' \in [Requests -> Request]
      /\ requests'[r].op = "toggle" /\ requests'[r].pc = "loaded"
      /\ requests'[r].seen = hash
      /\ \A s \in Requests \ {r} : requests'[s] = requests[s]
  BY <1>1, StartStep
<1>3. TypeOK'
  BY <1>1, <1>2 DEF TypeOK, Loaded
<1>4. FenceInv'
  BY <1>1, <1>2 DEF FenceInv, Loaded
<1>5. CleanInv'
  <2>1. Issuing' \subseteq Issuing
    BY <1>2 DEF Issuing, Issues
  <2>2. r \notin clean
    BY <1>1 DEF CleanInv, Loaded
  <2> QED
    BY <1>1, <1>2, <2>1, <2>2 DEF CleanInv, TypeOK, Loaded
<1>6. MadeInv'
  BY <1>1, <1>2, MadeKept DEF Loaded
<1> QED
  BY <1>3, <1>4, <1>5, <1>6

\* A token is made now, which is not before the fence.
LEMMA BuildKeeps ==
    ASSUME IInv, NEW r \in Requests, Build(r)
    PROVE  IInv'
<1> USE DEF IInv
<1>1. /\ requests' \in [Requests -> Request]
      /\ requests'[r].op = requests[r].op /\ requests'[r].pc = "built"
      /\ requests'[r].seen = requests[r].seen /\ requests'[r].token = now
      /\ \A s \in Requests \ {r} : requests'[s] = requests[s]
  BY BuildStep
<1>2. TypeOK'
  BY <1>1 DEF TypeOK, Build
<1>3. FenceInv'
  BY <1>1 DEF FenceInv, Build, TypeOK
<1>4. CleanInv'
  BY <1>1 DEF CleanInv, Build, Issuing
<1>5. MadeInv'
  BY <1>1, MadeKept DEF Build
<1> QED
  BY <1>2, <1>3, <1>4, <1>5

\* An end that stores nothing.
LEMMA EndKeeps ==
    ASSUME IInv, NEW r \in Requests, NEW pc \in {"done", "failed"},
           requests[r].pc # "done", r \notin clean',
           requests' = [requests EXCEPT ![r].pc = pc],
           clean' \subseteq clean, active' \in BOOLEAN,
           UNCHANGED <<now, hash, provider, issued, resets, spent, fence>>
    PROVE  IInv'
<1> USE DEF IInv
<1>1. /\ requests' \in [Requests -> Request]
      /\ requests'[r].op = requests[r].op /\ requests'[r].pc = pc
      /\ \A s \in Requests \ {r} : requests'[s] = requests[s]
  BY EndStep
<1>2. TypeOK'
  BY <1>1 DEF TypeOK
<1>3. FenceInv'
  BY <1>1 DEF FenceInv
<1>4. CleanInv'
  <2>1. Issuing' \subseteq Issuing
    BY <1>1 DEF Issuing
  <2>2. \A s \in clean' : s \in Requests \ {r} /\ s \in clean
    BY DEF TypeOK
  <2> QED
    BY <1>1, <2>1, <2>2 DEF CleanInv
<1>5. MadeInv'
  BY <1>1, MadeKept
<1> QED
  BY <1>2, <1>3, <1>4, <1>5

\* Storing: what is stored, replaced and loaded was made by requests that are
\* done, and a token that comes back was made by two of them.
LEMMA CommitIssueKeeps ==
    ASSUME IInv, NEW r \in Requests, CommitIssue(r)
    PROVE  IInv'
<1> USE DEF IInv
<1> PICK t : t = requests[r].token
  OBVIOUS
<1> PICK seen : seen = requests[r].seen
  OBVIOUS
<1>1. /\ requests' \in [Requests -> Request]
      /\ requests'[r].op = requests[r].op /\ requests'[r].pc = "done"
      /\ requests'[r].token = t
      /\ \A s \in Requests \ {r} : requests'[s] = requests[s]
  BY EndStep DEF CommitIssue
<1>2. /\ requests[r].pc = "built" /\ requests[r].op \in Issues
      /\ t \in Time /\ t >= fence /\ t # None
  BY TokenAssumption DEF CommitIssue, FenceInv, Time
<1>3. seen \in Token
  BY DEF TypeOK, Request
<1>4. /\ hash' = IF t = seen THEN hash ELSE t
      /\ spent' = (spent \cup {IF t = seen THEN seen ELSE hash}) \ {None}
  BY DEF CommitIssue, Store
<1>5. hash' \in Token /\ spent' \in SUBSET Time
  BY <1>2, <1>3, <1>4 DEF TypeOK, Token
<1>6. TypeOK'
  <2>1. provider' \in {"local", "google"}
    BY DEF CommitIssue, TypeOK
  <2>2. issued' \in SUBSET Time
    BY <1>2 DEF CommitIssue, TypeOK
  <2> QED
    BY <1>1, <1>5, <2>1, <2>2 DEF CommitIssue, TypeOK
<1>7. FenceInv'
  BY <1>1, <1>2, <1>4 DEF FenceInv, CommitIssue
<1>8. clean' = {}
  <2>1. r \in Issuing
    BY <1>2 DEF Issuing
  <2> QED
    BY <2>1 DEF CommitIssue, CleanInv
<1>9. CleanInv'
  BY <1>8 DEF CleanInv
<1>10. MadeInv'
  <2>1. \A q \in Requests, u \in Token : Made(q, u) => q # r /\ Made(q, u)'
    BY <1>1, <1>2, MadeStays
  <2>2. Made(r, t)'
    BY <1>1, <1>2 DEF Made
  <2>3. /\ hash # None => \E q \in Requests : Made(q, hash)
        /\ seen # None => \E q \in Requests : Made(q, seen)
        /\ \A u \in spent : \E q \in Requests : Made(q, u)
    BY <1>2 DEF MadeInv
  <2>4. hash' # None => \E q \in Requests : Made(q, hash)'
    <3>1. CASE t = seen
      BY <1>4, <2>1, <2>3, <3>1 DEF TypeOK, Made
    <3>2. CASE t # seen
      BY <1>4, <2>2, <3>2 DEF Made
    <3> QED
      BY <3>1, <3>2
  <2>5. ASSUME NEW u \in spent'
        PROVE  \E q \in Requests : Made(q, u)'
    <3>1. u \in Token /\ u # None
      BY <1>4, <1>5 DEF Token
    <3>2. \E q \in Requests : Made(q, u)
      BY <1>4, <2>3, <3>1
    <3> QED
      BY <2>1, <3>1, <3>2
  <2>6. ASSUME NEW s \in Requests, requests'[s].pc \in {"loaded", "built"},
               requests'[s].seen # None
        PROVE  \E q \in Requests : Made(q, requests[s].seen)'
    <3>1. s # r /\ requests'[s] = requests[s] /\ requests[s].seen \in Token
      BY <1>1, <2>6 DEF TypeOK, Request
    <3>2. PICK q \in Requests : Made(q, requests[s].seen)
      BY <2>6, <3>1 DEF MadeInv
    <3> QED
      BY <2>1, <3>1, <3>2 DEF Made
  <2>7. ASSUME hash' \in spent'
        PROVE  \E r1, r2 \in Requests : r1 # r2 /\ Made(r1, hash)' /\ Made(r2, hash)'
    <3>1. CASE t # seen
      <4>1. hash' = t /\ (t \in spent \/ t = hash)
        BY <1>2, <1>4, <2>7, <3>1
      <4>2. PICK q \in Requests : Made(q, t)
        BY <1>2, <2>3, <4>1
      <4>3. q # r /\ Made(q, t)'
        BY <1>2, <2>1, <4>2 DEF Token
      <4> QED
        BY <2>2, <4>1, <4>3 DEF Made
    <3>2. CASE t = seen /\ hash = t
      <4>1. PICK q \in Requests : Made(q, t)
        BY <1>2, <2>3, <3>2
      <4>2. q # r /\ Made(q, t)'
        BY <1>2, <2>1, <4>1 DEF Token
      <4> QED
        BY <1>4, <2>2, <3>2, <4>2 DEF Made
    <3>3. CASE t = seen /\ hash # t
      <4>1. hash' = hash /\ hash \in spent
        BY <1>4, <2>7, <3>3
      <4>2. PICK r1 \in Requests, r2 \in Requests : r1 # r2 /\ Made(r1, hash) /\ Made(r2, hash)
        BY <4>1 DEF MadeInv, SpentStaysSpent, Made
      <4> QED
        BY <2>1, <4>1, <4>2 DEF TypeOK, Made
    <3> QED
      BY <3>1, <3>2, <3>3
  <2>8. SpentStaysSpent'
    BY <2>7 DEF SpentStaysSpent, Made
  <2> QED
    BY <2>4, <2>5, <2>6, <2>8 DEF MadeInv, Made
<1> QED
  BY <1>6, <1>7, <1>9, <1>10

\* A revocation leaves no token stored, or the ones an issue beside it stored.
LEMMA CommitRevokeKeeps ==
    ASSUME IInv, NEW r \in Requests, CommitRevoke(r)
    PROVE  IInv'
<1> USE DEF IInv
<1> DEFINE seen == requests[r].seen
<1>1. /\ requests' \in [Requests -> Request]
      /\ requests'[r].op = requests[r].op /\ requests'[r].pc = "done"
      /\ \A s \in Requests \ {r} : requests'[s] = requests[s]
  BY EndStep DEF CommitRevoke
<1>2. requests[r].op \in Revokes /\ requests[r].pc = "loaded"
  BY DEF CommitRevoke
<1>3. /\ hash' = IF seen = None THEN hash ELSE None
      /\ spent' = IF seen = None THEN spent \ {None} ELSE (spent \cup {hash}) \ {None}
  BY DEF CommitRevoke, Store
<1>4. hash' \in Token /\ spent' \in SUBSET Time
  BY <1>3 DEF TypeOK, Token
<1>5. TypeOK'
  BY <1>1, <1>4 DEF CommitRevoke, TypeOK
<1>6. ASSUME r \in clean PROVE FenceInv'
  <2>1. Issuing = {} /\ hash' = None
    BY <1>3, <1>6 DEF CleanInv
  <2>2. fence' = now /\ now' = now
    BY <1>6 DEF CommitRevoke
  <2>3. \A s \in Requests : requests'[s].pc # "built"
    BY <1>1, <2>1 DEF Issuing, FenceInv
  <2>4. now \in Nat
    BY DEF TypeOK, Time
  <2>5. (fence <= now)'
    BY <2>2, <2>4
  <2> HIDE DEF IInv
  <2> QED
    BY <2>1, <2>3, <2>5 DEF FenceInv
<1>7. ASSUME r \notin clean PROVE FenceInv'
  <2>1. fence' = fence /\ now' = now
    BY <1>7 DEF CommitRevoke
  <2>2. ASSUME NEW s \in Requests, requests'[s].pc = "built"
        PROVE  requests'[s] = requests[s]
    BY <1>1, <2>2
  <2>3. \A s \in Requests : requests'[s].pc = "built" =>
           /\ requests'[s].op \in Issues
           /\ requests'[s].token \in Time
           /\ requests'[s].token >= fence'
    BY <2>1, <2>2 DEF FenceInv
  <2>4. hash' # None => hash' >= fence'
    BY <1>3, <2>1 DEF FenceInv
  <2>5. fence' <= now'
    BY <2>1 DEF FenceInv
  <2> QED
    BY <2>3, <2>4, <2>5 DEF FenceInv
<1>8. FenceInv'
  BY <1>6, <1>7
<1>9. CleanInv'
  <2>1. Issuing' \subseteq Issuing /\ clean' = clean \ {r}
    BY <1>1 DEF Issuing, CommitRevoke
  <2>2. hash' \in {hash, None}
    BY <1>3
  <2> QED
    BY <1>1, <2>1, <2>2 DEF CleanInv, TypeOK
<1>10. MadeInv'
  <2>1. \A q \in Requests, u \in Token : Made(q, u) => Made(q, u)'
    BY <1>1, <1>2, MadeStays
  <2>2. hash' # None => hash' = hash
    BY <1>3
  <2>3. hash' # None => \E q \in Requests : Made(q, hash)'
    BY <2>1, <2>2 DEF MadeInv, TypeOK, Made
  <2>4. ASSUME NEW u \in spent'
        PROVE  \E q \in Requests : Made(q, u)'
    <3>1. u \in Token /\ u # None
      BY <1>3, <1>4 DEF Token
    <3>2. \E q \in Requests : Made(q, u)
      BY <1>3, <3>1 DEF MadeInv
    <3> QED
      BY <2>1, <3>1, <3>2
  <2>5. ASSUME NEW s \in Requests, requests'[s].pc \in {"loaded", "built"},
               requests'[s].seen # None
        PROVE  \E q \in Requests : Made(q, requests[s].seen)'
    <3>1. s # r /\ requests'[s] = requests[s] /\ requests[s].seen \in Token
      BY <1>1, <2>5 DEF TypeOK, Request
    <3>2. PICK q \in Requests : Made(q, requests[s].seen)
      BY <2>5, <3>1 DEF MadeInv
    <3> QED
      BY <2>1, <3>1, <3>2 DEF Made
  <2>6. ASSUME hash' \in spent'
        PROVE  \E r1, r2 \in Requests : r1 # r2 /\ Made(r1, hash)' /\ Made(r2, hash)'
    <3>1. seen = None /\ hash' = hash /\ hash \in spent
      BY <1>3, <2>6 DEF TypeOK
    <3>2. PICK r1 \in Requests, r2 \in Requests : r1 # r2 /\ Made(r1, hash) /\ Made(r2, hash)
      BY <3>1 DEF MadeInv, SpentStaysSpent, Made
    <3> QED
      BY <2>1, <3>1, <3>2 DEF TypeOK, Made
  <2>7. SpentStaysSpent'
    BY <2>6 DEF SpentStaysSpent, Made
  <2> QED
    BY <2>3, <2>4, <2>5, <2>7 DEF MadeInv, Made
<1> QED
  BY <1>5, <1>8, <1>9, <1>10

-----------------------------------------------------------------------------
\* A step that leaves the session and the requests alone.
LEMMA AsideKeeps ==
    ASSUME IInv, TypeOK', now' >= now,
           UNCHANGED <<hash, requests, spent, fence, clean>>
    PROVE  IInv'
<1> USE DEF IInv
<1>1. FenceInv'
  BY DEF FenceInv, TypeOK, Time
<1>2. CleanInv'
  BY DEF CleanInv, Issuing
<1>3. MadeInv'
  BY DEF MadeInv, Made, SpentStaysSpent
<1> QED
  BY <1>1, <1>2, <1>3

LEMMA StepIInv == IInv /\ [Next]_vars => IInv'
<1> SUFFICES ASSUME IInv, [Next]_vars PROVE IInv'
  OBVIOUS
<1> USE DEF IInv
<1>1. ASSUME NEW r \in Requests, Login(r) \/ Google(r) \/ Refresh(r)
      PROVE  IInv'
  <2>1. \E op \in Issues : StartIssue(r, op)
    BY <1>1 DEF Login, Google, Refresh, Issues
  <2> QED
    BY <2>1, IssueStarts
<1>2. ASSUME NEW r \in Requests,
             \/ Logout(r) \/ UpdatePassword(r)
             \/ \E t \in Time : ResetPassword(r, t)
      PROVE  IInv'
  <2>1. \E op \in Revokes, t \in Token : StartRevoke(r, op, t)
    BY <1>2 DEF Logout, UpdatePassword, ResetPassword, Revokes, Token
  <2> QED
    BY <2>1, RevokeStarts
<1>3. ASSUME NEW r \in Requests, Toggle(r)
      PROVE  IInv'
  BY <1>3, ToggleStarts
<1>4. ASSUME NEW r \in Requests, Build(r)
      PROVE  IInv'
  BY <1>4, BuildKeeps
<1>5. ASSUME NEW r \in Requests, CommitIssue(r)
      PROVE  IInv'
  BY <1>5, CommitIssueKeeps
<1>6. ASSUME NEW r \in Requests, CommitRevoke(r)
      PROVE  IInv'
  BY <1>6, CommitRevokeKeeps
<1>7. ASSUME NEW r \in Requests, CommitToggle(r)
      PROVE  IInv'
  <2>1. r \notin clean
    BY <1>7 DEF CommitToggle, CleanInv, Revokes
  <2>2. active' \in BOOLEAN
    BY <1>7 DEF CommitToggle
  <2> QED
    BY <1>7, <2>1, <2>2, EndKeeps DEF CommitToggle
<1>8. ASSUME NEW r \in Requests, Abort(r)
      PROVE  IInv'
  BY <1>8, EndKeeps DEF Abort, TypeOK
<1>9. CASE ForgotPassword
  <2>1. TypeOK'
    BY <1>9 DEF ForgotPassword, TypeOK
  <2> QED
    BY <1>9, <2>1, AsideKeeps DEF ForgotPassword, TypeOK, Time
<1>10. CASE Tick
  <2>1. TypeOK' /\ now' >= now
    BY <1>10, TokenAssumption DEF Tick, TypeOK, Time, Token, Request
  <2> QED
    BY <1>10, <2>1, AsideKeeps DEF Tick
<1>11. CASE UNCHANGED vars
  <2>1. TypeOK'
    BY <1>11 DEF vars, TypeOK
  <2> QED
    BY <1>11, <2>1, AsideKeeps DEF vars, TypeOK, Time
<1> QED
  BY <1>1, <1>2, <1>3, <1>4, <1>5, <1>6, <1>7, <1>8, <1>9, <1>10, <1>11 DEF Next

-----------------------------------------------------------------------------
\* The inductive invariant holds of every behaviour.
THEOREM Invariance == Spec => []IInv
BY InitIInv, StepIInv, PTL DEF Spec

\* Every variable keeps its type: a stored token is one of a second that has
\* been, and the history variables hold nothing else.
THEOREM TypeCorrect == Spec => []TypeOK
<1>1. IInv => TypeOK
  BY DEF IInv
<1> QED
  BY Invariance, <1>1, PTL

\* A logout, password reset or password change (auth.py:319-326, 372-377,
\* 416-437) that no sign-in or refresh overlaps is final: only tokens made
\* afterwards are ever stored again, however the requests interleave.
THEOREM RevocationIsFinal == Spec => []RevocationHolds
<1>1. IInv => RevocationHolds
  BY DEF IInv, FenceInv, RevocationHolds
<1> QED
  BY Invariance, <1>1, PTL

\* A replaced refresh token (auth.py:303-313) is stored again only if two
\* requests stored it, so that it was made twice in one second.
THEOREM SpentTokensStaySpent == Spec => []SpentStaysSpent
<1>1. IInv => SpentStaysSpent
  BY DEF IInv, MadeInv
<1> QED
  BY Invariance, <1>1, PTL
=============================================================================
