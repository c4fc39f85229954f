--------------------- MODULE MailboxProvisioningProofs ---------------------
(***************************************************************************)
(* Proofs about MailboxProvisioning, for any number of calls, mailboxes,   *)
(* users and attempts: an id the commercial service was given for a mailbox*)
(* keeps resolving, a binding is permanent, the whole amounts to one       *)
(* register per mailbox, and under what conditions no user has two.        *)
(*                                                                         *)
(* The inductive invariant says who may write a row of the claim table (the*)
(* holder of its key), that nobody has heard of an id before its user is   *)
(* committed, and that what a call has read about an id stays true of it.  *)
(***************************************************************************)
EXTENDS MailboxProvisioning, TLAPS

Holding == {"find", "guard", "register", "bind", "commit"}

\* A call past its claim holds the key of its mailbox.
Placed(r) ==
    /\ call[r].pc # "idle" => call[r].mailbox \in Mailboxes
    /\ call[r].pc \in Holding => key[call[r].mailbox] = r

\* What a call carries at each place.
Carries(r) ==
    /\ call[r].pc \in {"guard", "bind", "commit", "look up"} => call[r].user \in UserIds
    /\ call[r].pc = "commit" => call[r].bound = call[r].user
    /\ call[r].fresh => call[r].pc \in {"bind", "commit"}

\* An id whose user was never committed: nobody was told of it.
Unheard(u) ==
    /\ users[u] = None
    /\ \A m \in Mailboxes : claims[m] # u /\ u \notin answers[m]

\* The id of a call is nobody's to hand out, and no other call's new one.
Apart(r) ==
    /\ call[r].user \notin unused
    /\ \A q \in Requests : q # r /\ call[q].fresh => call[q].user # call[r].user
    /\ call[r].fresh => Unheard(call[r].user)

\* The user a call has read from a claim is still the one it names.
Reads(r) ==
    call[r].pc = "look up" =>
        users[call[r].user] = None \/ claims[call[r].mailbox] = call[r].user

CallOK(r) == Placed(r) /\ Carries(r) /\ Apart(r) /\ Reads(r)

\* A key is held by a call over an absent row, or by the erasure of its user.
RowOK(m) ==
    /\ \A r \in Requests : key[m] = r => claims[m] = None
    /\ \A u \in UserIds : key[m] = u => claims[m] = u
    /\ claims[m] # 0

UnusedIsUnheard == \A u \in unused : Unheard(u)

IInv ==
    /\ TypeOK
    /\ \A r \in Requests : CallOK(r)
    /\ \A m \in Mailboxes : RowOK(m)
    /\ UnusedIsUnheard
    /\ AnswersResolve

-----------------------------------------------------------------------------
(* A step of one call that commits nothing.                                *)

LEMMA InitHolds == Init => IInv
<1>. SUFFICES ASSUME Init PROVE IInv
  OBVIOUS
<1>1. TypeOK
  BY IdsAssumption DEF Init, TypeOK, Call, Idle, Operations
<1>2. ASSUME NEW r \in Requests PROVE CallOK(r)
  BY IdsAssumption DEF Init, CallOK, Placed, Carries, Apart, Reads, Unheard, Idle, Holding
<1>3. ASSUME NEW m \in Mailboxes PROVE RowOK(m)
  BY NoneAssumption DEF Init, RowOK
<1>4. UnusedIsUnheard /\ AnswersResolve
  BY NoneAssumption DEF Init, UnusedIsUnheard, Unheard, AnswersResolve, Live
<1>. QED  BY <1>1, <1>2, <1>3, <1>4 DEF IInv

LEMMA BecomesOne ==
    ASSUME call \in [Requests -> Call], NEW r \in Requests, NEW next \in Call, Becomes(r, next)
    PROVE  /\ call' \in [Requests -> Call]
           /\ call'[r] = next
           /\ \A q \in Requests : q # r => call'[q] = call[q]
BY DEF Becomes

LEMMA IdleIsCall == Idle \in Call
BY IdsAssumption DEF Idle, Call, Operations

\* What happens to the keys while r alone moves.
KeyMoves(r) ==
    /\ key' \in [Mailboxes -> Requests \cup UserIds \cup {None}]
    /\ \A m \in Mailboxes :
          \/ key'[m] = key[m]
          \/ key'[m] = None /\ key[m] = r
          \/ key'[m] = r /\ key[m] = None /\ claims[m] = None

\* What the call r may become while it commits nothing.
Fits(r, next) ==
    /\ next \in Call
    /\ next.pc # "idle" => next.mailbox \in Mailboxes
    /\ next.pc \in Holding => key'[next.mailbox] = r
    /\ next.pc \in {"guard", "bind", "commit", "look up"} => next.user \in UserIds
    /\ next.pc = "commit" => next.bound = next.user
    /\ next.user \notin unused'
    /\ \A q \in Requests : q # r /\ call[q].fresh => call[q].user # next.user
    /\ next.fresh =>
          /\ next.pc \in {"bind", "commit"}
          /\ Unheard(next.user)
          /\ \A q \in Requests : q # r => call[q].user # next.user
    /\ next.pc = "look up" => users[next.user] = None \/ claims[next.mailbox] = next.user

LEMMA CallMoves ==
    ASSUME IInv, NEW r \in Requests, NEW next, Becomes(r, next), Fits(r, next), KeyMoves(r),
           UNCHANGED <<users, claims, erasing, answers>>, unused' \subseteq unused
    PROVE  IInv'
<1>1. TypeOK /\ CallOK(r)
  BY DEF IInv
<1>2. /\ call' \in [Requests -> Call]
      /\ call'[r] = next
      /\ \A q \in Requests : q # r => call'[q] = call[q]
  BY <1>1, BecomesOne DEF Fits, TypeOK
<1>3. TypeOK'
  BY <1>1, <1>2 DEF TypeOK, KeyMoves
<1>4. Placed(r)' /\ Carries(r)' /\ Reads(r)'
  BY <1>2 DEF Fits, Placed, Carries, Reads
<1>5. Apart(r)'
  BY <1>2 DEF Fits, Apart, Unheard
<1>6. ASSUME NEW q \in Requests, q # r PROVE CallOK(q)'
  <2>1. CallOK(q) /\ call'[q] = call[q]
    BY <1>2, <1>6 DEF IInv
  <2>2. Placed(q)'
    BY <2>1, <1>6, NoneAssumption DEF CallOK, Placed, KeyMoves, Holding
  <2>3. Carries(q)' /\ Reads(q)'
    BY <2>1 DEF CallOK, Carries, Reads
  <2>4. Apart(q)'
    <3>1. call[q].user \notin unused' /\ (call[q].fresh => Unheard(call[q].user)')
      BY <2>1 DEF CallOK, Apart, Unheard
    <3>2. ASSUME NEW p \in Requests, p # q, call'[p].fresh PROVE call'[p].user # call[q].user
      BY <2>1, <1>2, <1>6, <3>2 DEF CallOK, Apart, Fits
    <3>. QED  BY <2>1, <3>1, <3>2 DEF Apart
  <2>. QED  BY <2>2, <2>3, <2>4 DEF CallOK
<1>7. ASSUME NEW m \in Mailboxes PROVE RowOK(m)'
  BY NoneAssumption DEF IInv, RowOK, KeyMoves
<1>8. UnusedIsUnheard' /\ AnswersResolve'
  BY DEF IInv, UnusedIsUnheard, Unheard, AnswersResolve, Live
<1>. QED  BY <1>3, <1>4, <1>5, <1>6, <1>7, <1>8 DEF IInv, CallOK

\* Giving up fits always: the transaction is rolled back.
LEMMA IdleFits ==
    ASSUME IInv, NEW r \in Requests, UNCHANGED unused
    PROVE  Fits(r, Idle)
<1>1. ASSUME NEW q \in Requests, call[q].fresh PROVE call[q].user # 0
  BY <1>1, IdsAssumption DEF IInv, CallOK, Carries
<1>2. 0 \notin unused
  BY IdsAssumption DEF IInv, TypeOK
<1>. QED  BY <1>1, <1>2, IdleIsCall DEF Fits, Idle, Holding

LEMMA KeysStay == ASSUME IInv, NEW r \in Requests, UNCHANGED key PROVE KeyMoves(r)
BY DEF IInv, TypeOK, KeyMoves

LEMMA KeysFreed ==
    ASSUME IInv, NEW r \in Requests, NEW next, RollBack(r, next)
    PROVE  KeyMoves(r)
BY DEF IInv, TypeOK, KeyMoves, RollBack

LEMMA BeginKeeps ==
    ASSUME IInv, NEW r \in Requests, NEW op \in Operations, NEW m \in Mailboxes, Begin(r, op, m)
    PROVE  IInv'
<1>. DEFINE next == [Idle EXCEPT !.pc = "claim", !.op = op, !.mailbox = m, !.attempt = 1]
<1>1. Fits(r, Idle)
  BY IdleFits DEF Begin
<1>2. 1 \in 0..MaxAttempts
  BY IdsAssumption
<1>3. next \in Call
  BY <1>2, IdleIsCall DEF Call
<1>4. Fits(r, next)
  BY <1>1, <1>3 DEF Fits, Holding, Idle
<1>5. Becomes(r, next)
  BY DEF Begin
<1>. HIDE DEF next
<1>. QED  BY <1>4, <1>5, KeysStay, CallMoves DEF Begin

LEMMA ClaimKeeps == ASSUME IInv, NEW r \in Requests, Claim(r) PROVE IInv'
<1>. DEFINE next == [call[r] EXCEPT !.pc = IF call[r].op = "create_user" THEN "find" ELSE "register"]
<1>1. TypeOK /\ call[r] \in Call /\ CallOK(r)
  BY DEF IInv, TypeOK
<1>2. next \in Call
  <2>1. CASE call[r].op = "create_user"
    BY <1>1, <2>1 DEF Call
  <2>2. CASE call[r].op # "create_user"
    BY <1>1, <2>2 DEF Call
  <2>. QED  BY <2>1, <2>2
<1>3. KeyMoves(r)
  BY <1>1 DEF Claim, KeyMoves, TypeOK
<1>4. Fits(r, next)
  BY <1>1, <1>2, IdsAssumption DEF Fits, Holding, CallOK, Placed, Carries, Apart, Claim, TypeOK
<1>5. Becomes(r, next)
  BY DEF Claim, TypeOK
<1>. HIDE DEF next
<1>. QED  BY <1>3, <1>4, <1>5, CallMoves DEF Claim, TypeOK

LEMMA ClaimTakenKeeps == ASSUME IInv, NEW r \in Requests, ClaimTaken(r) PROVE IInv'
<1>. DEFINE next == [call[r] EXCEPT !.pc = "resolve"]
<1>1. TypeOK /\ call[r] \in Call /\ CallOK(r)
  BY DEF IInv, TypeOK
<1>2. CASE call[r].op = "create_user"
  <2>1. Fits(r, next)
    BY <1>1 DEF Fits, Holding, CallOK, Placed, Carries, Apart, ClaimTaken, Call
  <2>2. RollBack(r, next)
    BY <1>2 DEF ClaimTaken
  <2>. HIDE DEF next
  <2>. QED  BY <2>1, <2>2, KeysFreed, CallMoves DEF ClaimTaken, RollBack
<1>3. CASE call[r].op # "create_user"
  BY <1>3, IdleFits, KeysFreed, CallMoves DEF ClaimTaken, RollBack
<1>. QED  BY <1>2, <1>3

LEMMA ResolveKeeps == ASSUME IInv, NEW r \in Requests, Resolve(r) PROVE IInv'
<1>. DEFINE m == call[r].mailbox
            next == [call[r] EXCEPT !.pc = "look up", !.user = claims[m]]
<1>1. TypeOK /\ call[r] \in Call /\ CallOK(r)
  BY DEF IInv, TypeOK
<1>2. next \in Call
  BY <1>1 DEF Call, Resolve
<1>3. m \in Mailboxes
  BY <1>1 DEF CallOK, Placed, Resolve
<1>4. ASSUME NEW q \in Requests, call[q].fresh PROVE call[q].user # claims[m]
  BY <1>3, <1>4 DEF IInv, CallOK, Apart, Unheard
<1>5. claims[m] \notin unused
  BY <1>3 DEF IInv, UnusedIsUnheard, Unheard
<1>6. ~ call[r].fresh
  BY <1>1 DEF CallOK, Carries, Resolve
<1>7. Fits(r, next)
  BY <1>1, <1>2, <1>3, <1>4, <1>5, <1>6 DEF Fits, Holding, Resolve, Call
<1>8. Becomes(r, next)
  BY DEF Resolve
<1>. HIDE DEF next
<1>. QED  BY <1>7, <1>8, KeysStay, CallMoves DEF Resolve

LEMMA ResolveLostKeeps == ASSUME IInv, NEW r \in Requests, ResolveLost(r) PROVE IInv'
<1>. DEFINE next == [call[r] EXCEPT !.pc = "claim", !.attempt = @ + 1]
<1>1. TypeOK /\ call[r] \in Call /\ CallOK(r)
  BY DEF IInv, TypeOK
<1>2. CASE call[r].attempt < MaxAttempts
  <2>1. next \in Call
    <3>1. call[r].attempt \in 0..MaxAttempts
      BY <1>1 DEF Call
    <3>2. call[r].attempt + 1 \in 0..MaxAttempts
      BY <3>1, <1>2, IdsAssumption
    <3>. QED  BY <3>2, <1>1 DEF Call
  <2>2. Fits(r, next)
    BY <1>1, <2>1 DEF Fits, Holding, CallOK, Placed, Carries, Apart, ResolveLost
  <2>. HIDE DEF next
  <2>. QED  BY <1>2, <2>2, KeysStay, CallMoves DEF ResolveLost, next
<1>3. CASE ~ (call[r].attempt < MaxAttempts)
  BY <1>3, IdleFits, KeysStay, CallMoves DEF ResolveLost
<1>. QED  BY <1>2, <1>3

LEMMA FindExistingKeeps == ASSUME IInv, NEW r \in Requests, FindExisting(r) PROVE IInv'
<1>1. TypeOK /\ call[r] \in Call /\ CallOK(r)
  BY DEF IInv, TypeOK
<1>2. PICK u \in Live : Becomes(r, [call[r] EXCEPT !.pc = "guard", !.user = u])
  BY DEF FindExisting
<1>. DEFINE next == [call[r] EXCEPT !.pc = "guard", !.user = u]
<1>3. u \in UserIds /\ users[u] # None
  BY DEF Live
<1>4. ASSUME NEW q \in Requests, call[q].fresh PROVE call[q].user # u
  BY <1>3, <1>4 DEF IInv, CallOK, Apart, Unheard
<1>5. u \notin unused
  BY <1>3 DEF IInv, UnusedIsUnheard, Unheard
<1>6. ~ call[r].fresh
  BY <1>1 DEF CallOK, Carries, FindExisting
<1>7. next \in Call
  BY <1>1, <1>3 DEF Call
<1>8. Fits(r, next)
  BY <1>1, <1>3, <1>4, <1>5, <1>6, <1>7 DEF Fits, Holding, FindExisting, Call, CallOK, Placed
<1>9. Becomes(r, next)
  BY <1>2
<1>. HIDE DEF next
<1>. QED  BY <1>8, <1>9, KeysStay, CallMoves DEF FindExisting

LEMMA RegisterKeeps == ASSUME IInv, NEW r \in Requests, Register(r) PROVE IInv'
<1>1. TypeOK /\ call[r] \in Call /\ CallOK(r)
  BY DEF IInv, TypeOK
<1>2. PICK u \in unused :
        /\ unused' = unused \ {u}
        /\ Becomes(r, [call[r] EXCEPT !.pc = "bind", !.user = u, !.fresh = TRUE])
  BY DEF Register
<1>. DEFINE next == [call[r] EXCEPT !.pc = "bind", !.user = u, !.fresh = TRUE]
<1>3. u \in UserIds /\ Unheard(u)
  BY <1>1 DEF IInv, TypeOK, UnusedIsUnheard
<1>4. ASSUME NEW q \in Requests PROVE call[q].user # u
  BY DEF IInv, CallOK, Apart
<1>5. next \in Call
  BY <1>1, <1>3 DEF Call
<1>6. Fits(r, next)
  BY <1>1, <1>2, <1>3, <1>4, <1>5 DEF Fits, Holding, Register, Call, CallOK, Placed
<1>7. Becomes(r, next)
  BY <1>2
<1>. HIDE DEF next
<1>. QED  BY <1>2, <1>6, <1>7, KeysStay, CallMoves DEF Register

LEMMA BindKeeps == ASSUME IInv, NEW r \in Requests, Bind(r) PROVE IInv'
<1>. DEFINE next == [call[r] EXCEPT !.pc = "commit", !.bound = call[r].user]
<1>1. TypeOK /\ call[r] \in Call /\ CallOK(r)
  BY DEF IInv, TypeOK
<1>2. call[r].user \in UserIds
  BY <1>1 DEF CallOK, Carries, Bind
<1>3. next \in Call
  BY <1>1, <1>2 DEF Call
<1>4. ASSUME NEW q \in Requests, q # r, call[r].fresh PROVE call[q].user # call[r].user
  BY <1>4 DEF IInv, CallOK, Apart
<1>5. Fits(r, next)
  BY <1>1, <1>2, <1>3, <1>4 DEF Fits, Holding, Bind, Call, CallOK, Placed, Apart
<1>. HIDE DEF next
<1>. QED  BY <1>5, KeysStay, CallMoves DEF Bind, next

LEMMA FindNobodyKeeps == ASSUME IInv, NEW r \in Requests, FindNobody(r) PROVE IInv'
<1>. DEFINE next == [call[r] EXCEPT !.pc = "register"]
<1>1. TypeOK /\ call[r] \in Call /\ CallOK(r)
  BY DEF IInv, TypeOK
<1>2. next \in Call
  BY <1>1, IdleIsCall, IdsAssumption DEF Call
<1>3. KeyMoves(r)
  BY <1>1, KeysStay DEF FindNobody, Goto
<1>4. Fits(r, next)
  BY <1>1, <1>2, IdsAssumption DEF Fits, Holding, CallOK, Placed, Carries, Apart, FindNobody, Goto
<1>5. Becomes(r, next)
  BY DEF FindNobody, Goto
<1>. HIDE DEF next
<1>. QED  BY <1>3, <1>4, <1>5, CallMoves DEF FindNobody, Goto

LEMMA GuardPassesKeeps == ASSUME IInv, NEW r \in Requests, GuardPasses(r) PROVE IInv'
<1>. DEFINE next == [call[r] EXCEPT !.pc = "bind"]
<1>1. TypeOK /\ call[r] \in Call /\ CallOK(r)
  BY DEF IInv, TypeOK
<1>2. next \in Call
  BY <1>1, IdleIsCall, IdsAssumption DEF Call
<1>3. KeyMoves(r)
  BY <1>1, KeysStay DEF GuardPasses, Goto
<1>4. Fits(r, next)
  BY <1>1, <1>2, IdsAssumption DEF Fits, Holding, CallOK, Placed, Carries, Apart, GuardPasses, Goto
<1>5. Becomes(r, next)
  BY DEF GuardPasses, Goto
<1>. HIDE DEF next
<1>. QED  BY <1>3, <1>4, <1>5, CallMoves DEF GuardPasses, Goto

LEMMA GuardRefusesKeeps == ASSUME IInv, NEW r \in Requests, GuardRefuses(r) PROVE IInv'
BY IdleFits, KeysFreed, CallMoves DEF GuardRefuses, RollBack

LEMMA RegisterRefusesKeeps == ASSUME IInv, NEW r \in Requests, RegisterRefuses(r) PROVE IInv'
BY IdleFits, KeysFreed, CallMoves DEF RegisterRefuses, RollBack

LEMMA FailKeeps == ASSUME IInv, NEW r \in Requests, Fail(r) PROVE IInv'
BY IdleFits, KeysFreed, CallMoves DEF Fail, RollBack

-----------------------------------------------------------------------------
(* The steps that are seen outside: an answer, a commit, people's own.     *)

LEMMA AnswerAddsOne ==
    ASSUME TypeOK, NEW r \in Requests, call[r].mailbox \in Mailboxes, NEW u \in UserIds, Answer(r, u)
    PROVE  /\ answers' \in [Mailboxes -> SUBSET UserIds]
           /\ \A n \in Mailboxes : \A v \in answers'[n] :
                 v \in answers[n] \/ (v = u /\ n = call[r].mailbox)
<1>. DEFINE m == call[r].mailbox
<1>1. answers \in [Mailboxes -> SUBSET UserIds]
  BY DEF TypeOK
<1>2. answers' = [answers EXCEPT ![m] = answers[m] \cup {u}]
  BY DEF Answer
<1>. HIDE DEF m
<1>3. answers' \in [Mailboxes -> SUBSET UserIds]
  <2>1. answers[m] \cup {u} \in SUBSET UserIds
    BY <1>1 DEF m
  <2>. QED  BY <1>1, <1>2, <2>1
<1>4. ASSUME NEW n \in Mailboxes PROVE answers'[n] = IF n = m THEN answers[m] \cup {u} ELSE answers[n]
  BY <1>1, <1>2
<1>5. ASSUME NEW n \in Mailboxes, NEW v \in answers'[n]
      PROVE  v \in answers[n] \/ (v = u /\ n = m)
  BY <1>4
<1>. QED  BY <1>3, <1>5 DEF m

LEMMA LookUpKeeps == ASSUME IInv, NEW r \in Requests, LookUp(r) PROVE IInv'
<1>. DEFINE u == call[r].user
            m == call[r].mailbox
<1>1. TypeOK /\ CallOK(r) /\ m \in Mailboxes /\ u \in UserIds
  BY DEF IInv, CallOK, Placed, Carries, LookUp
<1>2. UNCHANGED <<users, unused, claims, key, erasing>>
  BY DEF LookUp
<1>3. /\ call' \in [Requests -> Call]
      /\ call'[r] = Idle
      /\ \A q \in Requests : q # r => call'[q] = call[q]
  BY <1>1, IdleIsCall, BecomesOne DEF LookUp, TypeOK
<1>4. /\ answers' \in [Mailboxes -> SUBSET UserIds]
      /\ \A n \in Mailboxes : \A v \in answers'[n] :
            v \in answers[n] \/ (v = u /\ n = m /\ u \in Live)
  <2>1. CASE u \in Live
    <3>1. Answer(r, u)
      BY <2>1 DEF LookUp
    <3>. QED  BY <1>1, <2>1, <3>1, AnswerAddsOne
  <2>2. CASE u \notin Live
    <3>1. answers' = answers
      BY <2>2 DEF LookUp
    <3>. QED  BY <1>1, <3>1 DEF TypeOK
  <2>. QED  BY <2>1, <2>2
<1>5. TypeOK'
  BY <1>1, <1>2, <1>3, <1>4 DEF TypeOK
<1>6. ASSUME NEW v, Unheard(v), v # u PROVE Unheard(v)'
  BY <1>2, <1>4, <1>6 DEF Unheard
<1>7. CallOK(r)'
  <2>1. ASSUME NEW q \in Requests, q # r, call[q].fresh PROVE call[q].user # 0
    BY <2>1, IdsAssumption DEF IInv, CallOK, Carries
  <2>2. 0 \notin unused
    BY <1>1, IdsAssumption DEF TypeOK
  <2>3. Apart(r)'
    BY <2>1, <2>2, <1>2, <1>3 DEF Apart, Idle
  <2>. QED  BY <2>3, <1>3 DEF CallOK, Placed, Carries, Reads, Idle, Holding
<1>8. ASSUME NEW q \in Requests, q # r PROVE CallOK(q)'
  <2>1. CallOK(q) /\ call'[q] = call[q]
    BY <1>3, <1>8 DEF IInv
  <2>2. Placed(q)' /\ Carries(q)' /\ Reads(q)'
    BY <2>1, <1>2 DEF CallOK, Placed, Carries, Reads
  <2>3. call[q].fresh => Unheard(call[q].user)'
    BY <2>1, <1>1, <1>6, <1>8 DEF CallOK, Apart
  <2>4. ASSUME NEW p \in Requests, p # q, call'[p].fresh PROVE call'[p].user # call[q].user
    BY <2>1, <2>4, <1>3 DEF CallOK, Apart, Idle
  <2>5. Apart(q)'
    BY <2>1, <2>3, <2>4, <1>2 DEF CallOK, Apart
  <2>. QED  BY <2>2, <2>5 DEF CallOK
<1>9. ASSUME NEW n \in Mailboxes PROVE RowOK(n)'
  BY <1>2 DEF IInv, RowOK
<1>10. UnusedIsUnheard'
  BY <1>1, <1>2, <1>6 DEF IInv, UnusedIsUnheard, CallOK, Apart
<1>11. AnswersResolve'
  <2>1. SUFFICES ASSUME NEW n \in Mailboxes, NEW v \in answers'[n], v \in Live
                 PROVE  claims[n] = v
    BY <1>2 DEF AnswersResolve, Live
  <2>2. CASE v \in answers[n]
    BY <2>1, <2>2 DEF IInv, AnswersResolve
  <2>3. CASE v = u /\ n = m /\ u \in Live
    BY <1>1, <2>3 DEF CallOK, Reads, LookUp, Live
  <2>. QED  BY <2>1, <2>2, <2>3, <1>4
<1>. QED  BY <1>5, <1>7, <1>8, <1>9, <1>10, <1>11 DEF IInv

LEMMA CommitKeeps == ASSUME IInv, NEW r \in Requests, Commit(r) PROVE IInv'
<1>. DEFINE u == call[r].user
            m == call[r].mailbox
<1>1. TypeOK /\ CallOK(r) /\ m \in Mailboxes /\ u \in UserIds /\ key[m] = r
  BY DEF IInv, CallOK, Placed, Carries, Commit, Holding
<1>2. claims[m] = None
  BY <1>1 DEF IInv, RowOK
<1>3. /\ claims' \in [Mailboxes -> UserIds \cup {0, None}]
      /\ claims'[m] = u
      /\ \A n \in Mailboxes : n # m => claims'[n] = claims[n]
  BY <1>1 DEF Commit, TypeOK, CallOK, Carries
<1>4. /\ key' \in [Mailboxes -> Requests \cup UserIds \cup {None}]
      /\ key'[m] = None
      /\ \A n \in Mailboxes : n # m => key'[n] = key[n]
  BY <1>1 DEF Commit, TypeOK
<1>5. /\ call' \in [Requests -> Call]
      /\ call'[r] = Idle
      /\ \A q \in Requests : q # r => call'[q] = call[q]
  BY <1>1, IdleIsCall, BecomesOne DEF Commit, TypeOK
<1>6. /\ answers' \in [Mailboxes -> SUBSET UserIds]
      /\ \A n \in Mailboxes : \A v \in answers'[n] : v \in answers[n] \/ (v = u /\ n = m)
  BY <1>1, AnswerAddsOne DEF Commit
<1>7. users' \in [UserIds -> [address : Mailboxes, issuer : {"local", "provider"}] \cup {None}]
  BY <1>1 DEF Commit, TypeOK
<1>8. \A v \in UserIds : users'[v] = users[v] \/ (v = u /\ call[r].fresh)
  <2>1. CASE call[r].fresh
    BY <1>1, <2>1 DEF Commit, TypeOK
  <2>2. CASE ~ call[r].fresh
    <3>1. users' = users
      BY <2>2 DEF Commit
    <3>. QED  BY <3>1
  <2>. QED  BY <2>1, <2>2
<1>9. UNCHANGED <<unused, erasing>>
  BY DEF Commit
<1>10. TypeOK'
  BY <1>1, <1>3, <1>4, <1>5, <1>6, <1>7, <1>9 DEF TypeOK
<1>11. ASSUME NEW v \in UserIds, Unheard(v), v # u PROVE Unheard(v)'
  BY <1>3, <1>6, <1>8, <1>11 DEF Unheard
<1>12. CallOK(r)'
  <2>1. ASSUME NEW q \in Requests, q # r, call[q].fresh PROVE call[q].user # 0
    BY <2>1, IdsAssumption DEF IInv, CallOK, Carries
  <2>2. 0 \notin unused
    BY <1>1, IdsAssumption DEF TypeOK
  <2>3. Apart(r)'
    BY <2>1, <2>2, <1>5, <1>9 DEF Apart, Idle
  <2>. QED  BY <2>3, <1>5 DEF CallOK, Placed, Carries, Reads, Idle, Holding
<1>13. ASSUME NEW q \in Requests, q # r PROVE CallOK(q)'
  <2>1. CallOK(q) /\ call'[q] = call[q]
    BY <1>5, <1>13 DEF IInv
  <2>2. Placed(q)'
    BY <2>1, <1>1, <1>4, <1>13 DEF CallOK, Placed, Holding
  <2>3. Carries(q)'
    BY <2>1 DEF CallOK, Carries
  <2>4. Reads(q)'
    <3>1. SUFFICES ASSUME call[q].pc = "look up"
                   PROVE  users'[call[q].user] = None \/ claims'[call[q].mailbox] = call[q].user
      BY <2>1 DEF Reads
    <3>2. call[q].user \in UserIds /\ call[q].mailbox \in Mailboxes
      BY <2>1, <3>1 DEF CallOK, Carries, Placed
    <3>3. users'[call[q].user] = users[call[q].user]
      BY <2>1, <3>2, <1>8, <1>13 DEF CallOK, Apart
    <3>4. CASE users[call[q].user] = None
      BY <3>3, <3>4
    <3>5. CASE claims[call[q].mailbox] = call[q].user
      BY <3>2, <3>5, <1>2, <1>3, NoneAssumption
    <3>. QED  BY <2>1, <3>1, <3>4, <3>5 DEF CallOK, Reads
  <2>5. call[q].fresh => Unheard(call[q].user)'
    BY <2>1, <1>1, <1>11, <1>13 DEF CallOK, Apart, Carries
  <2>6. ASSUME NEW p \in Requests, p # q, call'[p].fresh PROVE call'[p].user # call[q].user
    BY <2>1, <2>6, <1>5 DEF CallOK, Apart, Idle
  <2>7. Apart(q)'
    BY <2>1, <2>5, <2>6, <1>9 DEF CallOK, Apart
  <2>. QED  BY <2>2, <2>3, <2>4, <2>7 DEF CallOK
<1>14. ASSUME NEW n \in Mailboxes PROVE RowOK(n)'
  BY <1>1, <1>3, <1>4, NoneAssumption, IdsAssumption DEF IInv, RowOK
<1>15. UnusedIsUnheard'
  BY <1>1, <1>9, <1>11 DEF IInv, UnusedIsUnheard, CallOK, Apart, TypeOK
<1>16. AnswersResolve'
  <2>1. SUFFICES ASSUME NEW n \in Mailboxes, NEW v \in answers'[n], v \in UserIds, users'[v] # None
                 PROVE  claims'[n] = v
    BY <1>6 DEF AnswersResolve, Live
  <2>2. CASE v = u /\ n = m
    BY <2>2, <1>3
  <2>3. CASE v \in answers[n]
    <3>1. users'[v] = users[v]
      BY <2>1, <2>3, <1>1, <1>8 DEF CallOK, Apart, Unheard
    <3>2. claims[n] = v
      BY <2>1, <2>3, <3>1 DEF IInv, AnswersResolve, Live
    <3>. QED  BY <3>2, <2>1, <1>2, <1>3, NoneAssumption
  <2>. QED  BY <2>1, <2>2, <2>3, <1>6
<1>. QED  BY <1>10, <1>12, <1>13, <1>14, <1>15, <1>16 DEF IInv

\* Steps of people while no call moves: what they must leave as it was.
LEMMA PeopleMove ==
    ASSUME IInv, TypeOK', UNCHANGED <<call, answers>>, unused' \subseteq unused,
           \A u \in UserIds : users[u] = None /\ u \notin unused \ unused' => users'[u] = None,
           \A m \in Mailboxes : \/ claims'[m] = claims[m]
                                \/ claims[m] \in UserIds /\ claims'[m] = None /\ users'[claims[m]] = None,
           \A m \in Mailboxes : \A r \in Requests : key[m] = r <=> key'[m] = r,
           \A m \in Mailboxes : \A u \in UserIds : key'[m] = u => claims'[m] = u
    PROVE  IInv'
<1>1. ASSUME NEW v \in UserIds, Unheard(v), v \notin unused \ unused' PROVE Unheard(v)'
  BY <1>1, NoneAssumption DEF Unheard
<1>2. ASSUME NEW q \in Requests PROVE CallOK(q)'
  <2>1. CallOK(q)
    BY DEF IInv
  <2>2. Placed(q)' /\ Carries(q)'
    BY <2>1 DEF CallOK, Placed, Carries, Holding
  <2>3. Apart(q)'
    BY <2>1, <1>1 DEF CallOK, Apart, Carries
  <2>4. Reads(q)'
    <3>1. SUFFICES ASSUME call[q].pc = "look up"
                   PROVE  users'[call[q].user] = None \/ claims'[call[q].mailbox] = call[q].user
      BY DEF Reads
    <3>2. call[q].user \in UserIds /\ call[q].mailbox \in Mailboxes /\ call[q].user \notin unused
      BY <2>1, <3>1 DEF CallOK, Carries, Placed, Apart
    <3>3. users[call[q].user] = None \/ claims[call[q].mailbox] = call[q].user
      BY <2>1, <3>1 DEF CallOK, Reads
    <3>4. CASE users[call[q].user] = None
      <4>1. call[q].user \notin unused \ unused'
        BY <3>2
      <4>. QED  BY <3>2, <3>4, <4>1
    <3>5. CASE claims[call[q].mailbox] = call[q].user
      BY <3>2, <3>5
    <3>. QED  BY <3>3, <3>4, <3>5
  <2>. QED  BY <2>2, <2>3, <2>4 DEF CallOK
<1>3. ASSUME NEW m \in Mailboxes PROVE RowOK(m)'
  BY NoneAssumption DEF IInv, RowOK
<1>4. UnusedIsUnheard'
  BY <1>1 DEF IInv, UnusedIsUnheard, TypeOK
<1>5. AnswersResolve'
  <2>1. SUFFICES ASSUME NEW m \in Mailboxes, NEW v \in answers[m], v \in UserIds, users'[v] # None
                 PROVE  claims'[m] = v
    BY DEF AnswersResolve, Live
  <2>2. v \notin unused
    BY <2>1 DEF IInv, UnusedIsUnheard, Unheard
  <2>3. users[v] # None
    BY <2>1, <2>2
  <2>4. claims[m] = v
    BY <2>1, <2>3 DEF IInv, AnswersResolve, Live
  <2>. QED  BY <2>1, <2>4
<1>. QED  BY <1>2, <1>3, <1>4, <1>5 DEF IInv

User == [address : Mailboxes, issuer : {"local", "provider"}]

LEMMA SignUpKeeps ==
    ASSUME IInv, NEW m \in Mailboxes, NEW issuer \in {"local", "provider"}, SignUp(m, issuer)
    PROVE  IInv'
<1>1. PICK u \in unused : /\ users' = [users EXCEPT ![u] = [address |-> m, issuer |-> issuer]]
                          /\ unused' = unused \ {u}
  BY DEF SignUp
<1>2. TypeOK /\ u \in UserIds
  BY DEF IInv, TypeOK
<1>3. users' \in [UserIds -> User \cup {None}]
  <2>1. [address |-> m, issuer |-> issuer] \in User
    BY DEF User
  <2>. QED  BY <1>1, <1>2, <2>1 DEF TypeOK, User
<1>4. TypeOK'
  BY <1>1, <1>2, <1>3 DEF TypeOK, User, SignUp
<1>5. \A v \in UserIds : v # u => users'[v] = users[v]
  BY <1>1, <1>2 DEF TypeOK
<1>. QED  BY <1>1, <1>4, <1>5, PeopleMove DEF SignUp, IInv, RowOK

\* A change of one user's address or issuer.
LEMMA UserChangeKeeps ==
    ASSUME IInv, NEW u \in Live, NEW next \in User, users' = [users EXCEPT ![u] = next],
           UNCHANGED <<unused, claims, key, call, erasing, answers>>
    PROVE  IInv'
<1>1. TypeOK'
  BY DEF IInv, TypeOK, User, Live
<1>2. \A v \in UserIds : users[v] = None => users'[v] = None
  BY DEF Live, IInv, TypeOK
<1>. QED  BY <1>1, <1>2, PeopleMove DEF IInv, RowOK

LEMMA LiveIsUser == ASSUME TypeOK, NEW u \in Live PROVE users[u] \in User
BY DEF TypeOK, Live, User

LEMMA ChangesKeep ==
    ASSUME IInv, NEW u \in UserIds, NEW m \in Mailboxes,
           ChangeAddress(u, m) \/ ProviderMovesAddress(u, m) \/ LinkProvider(u)
    PROVE  IInv'
<1>1. u \in Live
  BY DEF ChangeAddress, ProviderMovesAddress, LinkProvider
<1>2. users[u] \in User
  BY <1>1, LiveIsUser DEF IInv
<1>3. [users[u] EXCEPT !.address = m] \in User /\ [users[u] EXCEPT !.issuer = "provider"] \in User
  BY <1>2 DEF User
<1>. QED  BY <1>1, <1>3, UserChangeKeeps DEF ChangeAddress, ProviderMovesAddress, LinkProvider

LEMMA EraseClaimsKeeps == ASSUME IInv, NEW u \in UserIds, EraseClaims(u) PROVE IInv'
<1>1. TypeOK'
  BY DEF IInv, TypeOK, EraseClaims
<1>2. \A m \in Mailboxes : key'[m] = IF claims[m] = u THEN u ELSE key[m]
  BY DEF EraseClaims
<1>3. \A m \in Mailboxes : claims[m] = u => key[m] = None
  BY DEF EraseClaims
<1>4. \A m \in Mailboxes : \A r \in Requests : key[m] = r <=> key'[m] = r
  BY <1>2, <1>3, NoneAssumption
<1>5. \A m \in Mailboxes : \A v \in UserIds : key'[m] = v => claims[m] = v
  BY <1>2 DEF IInv, RowOK
<1>. QED  BY <1>1, <1>4, <1>5, PeopleMove DEF EraseClaims

LEMMA EraseUserKeeps == ASSUME IInv, NEW u \in UserIds, EraseUser(u) PROVE IInv'
<1>1. TypeOK'
  BY DEF IInv, TypeOK, EraseUser
<1>2. \A m \in Mailboxes : /\ key'[m] = IF key[m] = u THEN None ELSE key[m]
                           /\ claims'[m] = IF key[m] = u THEN None ELSE claims[m]
  BY DEF EraseUser
<1>3. \A v \in UserIds : users'[v] = IF v = u THEN None ELSE users[v]
  BY DEF EraseUser, IInv, TypeOK
<1>4. \A m \in Mailboxes : \A r \in Requests : key[m] = r <=> key'[m] = r
  BY <1>2, NoneAssumption
<1>5. \A m \in Mailboxes : key[m] = u => claims[m] = u
  BY DEF IInv, RowOK
<1>6. \A m \in Mailboxes : \A v \in UserIds : key'[m] = v => claims'[m] = v
  BY <1>2, NoneAssumption DEF IInv, RowOK
<1>. QED  BY <1>1, <1>2, <1>3, <1>4, <1>5, <1>6, PeopleMove DEF EraseUser

LEMMA EraseFailsKeeps == ASSUME IInv, NEW u \in UserIds, EraseFails(u) PROVE IInv'
<1>1. TypeOK'
  BY DEF IInv, TypeOK, EraseFails
<1>2. \A m \in Mailboxes : key'[m] = IF key[m] = u THEN None ELSE key[m]
  BY DEF EraseFails
<1>3. \A m \in Mailboxes : \A r \in Requests : key[m] = r <=> key'[m] = r
  BY <1>2, NoneAssumption
<1>4. \A m \in Mailboxes : \A v \in UserIds : key'[m] = v => claims[m] = v
  BY <1>2, NoneAssumption DEF IInv, RowOK
<1>. QED  BY <1>1, <1>3, <1>4, PeopleMove DEF EraseFails

-----------------------------------------------------------------------------
(* The theorems.                                                           *)

LEMMA NextKeeps == IInv /\ [Next]_vars => IInv'
<1>. SUFFICES ASSUME IInv, [Next]_vars PROVE IInv'
  OBVIOUS
<1>1. CASE \E r \in Requests, op \in Operations, m \in Mailboxes : Begin(r, op, m)
  BY <1>1, BeginKeeps
<1>2. ASSUME NEW r \in Requests, Advance(r) PROVE IInv'
  BY <1>2, ClaimKeeps, ClaimTakenKeeps, ResolveKeeps, ResolveLostKeeps, LookUpKeeps,
     FindExistingKeeps, FindNobodyKeeps, GuardRefusesKeeps, GuardPassesKeeps, RegisterKeeps,
     RegisterRefusesKeeps, BindKeeps, CommitKeeps DEF Advance
<1>3. ASSUME NEW r \in Requests, Fail(r) PROVE IInv'
  BY <1>3, FailKeeps
<1>4. CASE \E m \in Mailboxes, issuer \in {"local", "provider"} : SignUp(m, issuer)
  BY <1>4, SignUpKeeps
<1>5. ASSUME NEW u \in UserIds, NEW m \in Mailboxes, ChangeAddress(u, m) \/ ProviderMovesAddress(u, m)
      PROVE  IInv'
  BY <1>5, ChangesKeep
<1>6. ASSUME NEW u \in UserIds, LinkProvider(u) PROVE IInv'
  <2>1. users[u] \in User /\ u \in Live
    BY <1>6, LiveIsUser DEF LinkProvider, IInv
  <2>2. users[u].address \in Mailboxes
    BY <2>1 DEF User
  <2>. QED  BY <1>6, <2>2, ChangesKeep
<1>7. ASSUME NEW u \in UserIds, EraseClaims(u) \/ EraseUser(u) \/ EraseFails(u) PROVE IInv'
  BY <1>7, EraseClaimsKeeps, EraseUserKeeps, EraseFailsKeeps
<1>8. CASE People
  BY <1>8, <1>4, <1>5, <1>6, <1>7 DEF People
<1>9. CASE UNCHANGED vars
  <2>1. TypeOK' /\ UnusedIsUnheard' /\ AnswersResolve'
    BY <1>9 DEF IInv, vars, TypeOK, UnusedIsUnheard, Unheard, AnswersResolve, Live
  <2>2. ASSUME NEW r \in Requests PROVE CallOK(r)'
    BY <1>9 DEF IInv, vars, CallOK, Placed, Carries, Apart, Reads, Unheard
  <2>3. ASSUME NEW m \in Mailboxes PROVE RowOK(m)'
    BY <1>9 DEF IInv, vars, RowOK
  <2>. QED  BY <2>1, <2>2, <2>3 DEF IInv
<1>. QED  BY <1>1, <1>2, <1>3, <1>8, <1>9 DEF Next

LEMMA Invariance == Spec => []IInv
<1>. QED  BY InitHolds, NextKeeps, PTL DEF Spec

(***************************************************************************)
(* Every variable of the provisioning keeps its type.                      *)
(***************************************************************************)
THEOREM TypeCorrect == Spec => []TypeOK
<1>1. IInv => TypeOK
  BY DEF IInv
<1>. QED  BY <1>1, Invariance, PTL

(***************************************************************************)
(* Whatever races, fails or is erased, an id the commercial service was    *)
(* given for a mailbox is that of no user any more, or of the one user the *)
(* mailbox is bound to.                                                    *)
(***************************************************************************)
THEOREM AnswersKeepResolving == Spec => []AnswersResolve
<1>1. IInv => AnswersResolve
  BY DEF IInv
<1>. QED  BY <1>1, Invariance, PTL

\* One step of the claim table.
Kept(m) ==
    /\ claims'[m] # 0
    /\ claims[m] # None => \/ claims'[m] = claims[m]
                           \/ claims'[m] = None /\ users'[claims[m]] = None

LEMMA StepsKeepBindings == ASSUME IInv, IInv', [Next]_vars, NEW m \in Mailboxes PROVE Kept(m)
<1>1. claims'[m] # 0
  BY DEF IInv, RowOK
<1>2. CASE claims' = claims
  BY <1>1, <1>2 DEF Kept
<1>3. ASSUME NEW r \in Requests, Commit(r) PROVE Kept(m)
  <2>1. key[call[r].mailbox] = r /\ call[r].mailbox \in Mailboxes
    BY <1>3 DEF IInv, CallOK, Placed, Commit, Holding
  <2>2. claims[call[r].mailbox] = None
    BY <2>1 DEF IInv, RowOK
  <2>3. m # call[r].mailbox => claims'[m] = claims[m]
    BY <1>3 DEF IInv, TypeOK, Commit
  <2>. QED  BY <1>1, <2>2, <2>3 DEF Kept
<1>4. ASSUME NEW u \in UserIds, EraseUser(u) PROVE Kept(m)
  <2>1. key[m] = u => claims[m] = u
    BY DEF IInv, RowOK
  <2>2. claims'[m] = IF key[m] = u THEN None ELSE claims[m]
    BY <1>4 DEF EraseUser
  <2>3. users'[u] = None
    BY <1>4 DEF EraseUser, IInv, TypeOK
  <2>. QED  BY <1>1, <2>1, <2>2, <2>3 DEF Kept
<1>5. ASSUME NEW r \in Requests, Advance(r) \/ Fail(r) PROVE Kept(m)
  <2>1. CASE Commit(r)
    BY <1>3, <2>1
  <2>2. CASE ~ Commit(r)
    BY <1>2, <1>5, <2>2 DEF Advance, Claim, ClaimTaken, Resolve, ResolveLost, LookUp, FindExisting,
       FindNobody, GuardRefuses, GuardPasses, Register, RegisterRefuses, Bind, Fail, RollBack
  <2>. QED  BY <2>1, <2>2
<1>6. CASE People
  BY <1>2, <1>4, <1>6 DEF People, SignUp, ChangeAddress, ProviderMovesAddress, LinkProvider,
     EraseClaims, EraseFails
<1>7. CASE \E r \in Requests, op \in Operations, n \in Mailboxes : Begin(r, op, n)
  BY <1>2, <1>7 DEF Begin
<1>8. CASE UNCHANGED vars
  BY <1>2, <1>8 DEF vars
<1>. QED  BY <1>5, <1>6, <1>7, <1>8 DEF Next

(***************************************************************************)
(* A mailbox is never committed unbound, and once bound it stays bound to  *)
(* that user until the user is erased.                                     *)
(***************************************************************************)
THEOREM BindingsArePermanent == Spec => BindingIsPermanent
<1>. DEFINE Step == \A m \in Mailboxes : Kept(m)
<1>1. IInv /\ IInv' /\ [Next]_vars => [Step]_vars
  BY StepsKeepBindings
<1>2. [Step]_vars => [\A m \in Mailboxes :
          /\ claims'[m] # 0
          /\ claims[m] # None => \/ claims'[m] = claims[m]
                                 \/ claims'[m] = None /\ users'[claims[m]] = None]_vars
  BY DEF Kept
<1>. HIDE DEF Step
<1>. QED  BY <1>1, <1>2, Invariance, PTL DEF Spec, BindingIsPermanent

-----------------------------------------------------------------------------
(* One mailbox per user.  OneMailboxPerUser does not hold of Spec; what is *)
(* missing is that two calls in flight never carry the same user.          *)

Adopting == {"guard", "bind", "commit"}

Alone(r) ==
    \A q \in Requests : q # r /\ call[r].pc \in Adopting /\ call[q].pc \in Adopting
                          => call[q].user # call[r].user

\* What the guard has seen of a user stays so, as long as nobody else has them.
Guarded(r) ==
    call[r].pc \in {"bind", "commit"} =>
        \A m \in Mailboxes \ {call[r].mailbox} : claims[m] # call[r].user

OneInv == OneMailboxPerUser /\ \A r \in Requests : Guarded(r)

\* Steps that write no claim and leave the other calls alone.
LEMMA OneCallMoves ==
    ASSUME OneInv, NEW r \in Requests, NEW next, call \in [Requests -> Call], Becomes(r, next),
           UNCHANGED claims,
           next.pc \in {"bind", "commit"} =>
               \A m \in Mailboxes \ {next.mailbox} : claims[m] # next.user
    PROVE  OneInv'
<1>1. OneMailboxPerUser'
  BY DEF OneInv, OneMailboxPerUser
<1>2. ASSUME NEW q \in Requests PROVE Guarded(q)'
  BY DEF OneInv, Guarded, Becomes
<1>. QED  BY <1>1, <1>2 DEF OneInv

LEMMA OneCommit ==
    ASSUME IInv, OneInv, \A r \in Requests : Alone(r), NEW r \in Requests, Commit(r)
    PROVE  OneInv'
<1>. DEFINE u == call[r].user
            m == call[r].mailbox
<1>1. CallOK(r) /\ m \in Mailboxes /\ u \in UserIds /\ call[r].bound = u /\ TypeOK
  BY DEF IInv, CallOK, Placed, Carries, Commit
<1>2. claims'[m] = u /\ \A n \in Mailboxes : n # m => claims'[n] = claims[n] /\ claims[n] # u
  BY <1>1 DEF Commit, TypeOK, OneInv, Guarded
<1>3. call'[r] = Idle /\ \A q \in Requests : q # r => call'[q] = call[q]
  BY <1>1 DEF Commit, Becomes, TypeOK
<1>4. OneMailboxPerUser'
  BY <1>1, <1>2 DEF OneInv, OneMailboxPerUser
<1>5. ASSUME NEW q \in Requests PROVE Guarded(q)'
  <2>1. CASE q = r
    BY <2>1, <1>3 DEF Guarded, Idle
  <2>2. CASE q # r /\ call[q].pc \in {"bind", "commit"}
    <3>1. call[q].user # u
      BY <2>2 DEF Alone, Adopting, Commit
    <3>. QED  BY <3>1, <2>2, <1>2, <1>3 DEF Guarded, OneInv
  <2>3. CASE q # r /\ call[q].pc \notin {"bind", "commit"}
    BY <2>3, <1>3 DEF Guarded
  <2>. QED  BY <2>1, <2>2, <2>3
<1>. QED  BY <1>4, <1>5 DEF OneInv

LEMMA OneStep ==
    ASSUME IInv, OneInv, \A r \in Requests : Alone(r), [Next]_vars
    PROVE  OneInv'
<1>1. TypeOK /\ call \in [Requests -> Call]
  BY DEF IInv, TypeOK
<1>2. CASE UNCHANGED <<claims, call>>
  BY <1>2 DEF OneInv, OneMailboxPerUser, Guarded
<1>3. ASSUME NEW r \in Requests, NEW op, NEW m, Begin(r, op, m) PROVE OneInv'
  BY <1>1, <1>3, OneCallMoves DEF Begin, Idle
<1>4. ASSUME NEW r \in Requests, \/ Claim(r) \/ ClaimTaken(r) \/ Resolve(r) \/ ResolveLost(r) \/ LookUp(r)
                                 \/ FindExisting(r) \/ FindNobody(r) \/ GuardRefuses(r)
                                 \/ RegisterRefuses(r) \/ Fail(r)
      PROVE  OneInv'
  <2>1. UNCHANGED claims /\ \A q \in Requests : q # r => call'[q] = call[q]
    BY <1>1, <1>4 DEF Claim, ClaimTaken, Resolve, ResolveLost, LookUp, FindExisting, FindNobody,
       GuardRefuses, RegisterRefuses, Fail, RollBack, Goto, Becomes
  <2>2. call'[r].pc \notin {"bind", "commit"}
    <3>1. call[r] \in Call
      BY <1>1
    <3>2. CASE Claim(r) \/ Resolve(r) \/ FindExisting(r) \/ FindNobody(r)
      BY <1>1, <3>1, <3>2 DEF Claim, Resolve, FindExisting, FindNobody, Goto, Becomes, Call
    <3>3. ASSUME Becomes(r, Idle) PROVE call'[r].pc \notin {"bind", "commit"}
      BY <1>1, <3>3 DEF Becomes, Idle
    <3>4. CASE LookUp(r) \/ GuardRefuses(r) \/ RegisterRefuses(r) \/ Fail(r)
      BY <3>3, <3>4 DEF LookUp, GuardRefuses, RegisterRefuses, Fail, RollBack
    <3>5. CASE ClaimTaken(r)
      <4>1. Becomes(r, Idle) \/ Becomes(r, [call[r] EXCEPT !.pc = "resolve"])
        BY <3>5 DEF ClaimTaken, RollBack
      <4>. QED  BY <1>1, <3>1, <3>3, <4>1 DEF Becomes, Call
    <3>6. CASE ResolveLost(r)
      <4>1. Becomes(r, Idle) \/ Becomes(r, [call[r] EXCEPT !.pc = "claim", !.attempt = @ + 1])
        BY <3>6 DEF ResolveLost
      <4>. QED  BY <1>1, <3>1, <3>3, <4>1 DEF Becomes, Call
    <3>. QED  BY <1>4, <3>2, <3>4, <3>5, <3>6
  <2>3. OneMailboxPerUser'
    BY <2>1 DEF OneInv, OneMailboxPerUser
  <2>4. ASSUME NEW q \in Requests PROVE Guarded(q)'
    BY <2>1, <2>2 DEF OneInv, Guarded
  <2>. QED  BY <2>3, <2>4 DEF OneInv
<1>5. ASSUME NEW r \in Requests, GuardPasses(r) PROVE OneInv'
  <2>1. call[r] \in Call
    BY <1>1
  <2>2. \A m \in Mailboxes \ {call[r].mailbox} : claims[m] # call[r].user
    BY <1>5 DEF GuardPasses, HasOtherMailbox
  <2>. QED  BY <1>1, <1>5, <2>1, <2>2, OneCallMoves DEF GuardPasses, Goto, Call
<1>6. ASSUME NEW r \in Requests, Register(r) PROVE OneInv'
  <2>1. PICK u \in unused : Becomes(r, [call[r] EXCEPT !.pc = "bind", !.user = u, !.fresh = TRUE])
    BY <1>6 DEF Register
  <2>2. \A m \in Mailboxes : claims[m] # u
    BY DEF IInv, UnusedIsUnheard, Unheard
  <2>3. call[r] \in Call
    BY <1>1
  <2>. QED  BY <1>1, <1>6, <2>1, <2>2, <2>3, OneCallMoves DEF Register, Call
<1>7. ASSUME NEW r \in Requests, Bind(r) PROVE OneInv'
  <2>1. call[r] \in Call /\ Guarded(r)
    BY <1>1 DEF OneInv
  <2>. QED  BY <1>1, <1>7, <2>1, OneCallMoves DEF Bind, Guarded, Call
<1>8. ASSUME NEW u \in UserIds, EraseUser(u) PROVE OneInv'
  <2>1. \A m \in Mailboxes : claims'[m] = claims[m] \/ claims'[m] = None
    BY <1>8 DEF EraseUser
  <2>2. OneMailboxPerUser'
    BY <2>1, NoneAssumption DEF OneInv, OneMailboxPerUser
  <2>3. ASSUME NEW q \in Requests PROVE Guarded(q)'
    <3>1. call[q].pc \in {"bind", "commit"} => call[q].user \in UserIds
      BY DEF IInv, CallOK, Carries
    <3>. QED  BY <1>8, <2>1, <3>1, NoneAssumption DEF OneInv, Guarded, EraseUser
  <2>. QED  BY <2>2, <2>3 DEF OneInv
<1>9. ASSUME NEW r \in Requests, Advance(r) \/ Fail(r) PROVE OneInv'
  BY <1>4, <1>5, <1>6, <1>7, <1>9, OneCommit DEF Advance
<1>10. CASE People
  BY <1>2, <1>8, <1>10 DEF People, SignUp, ChangeAddress, ProviderMovesAddress, LinkProvider,
     EraseClaims, EraseFails
<1>. QED  BY <1>2, <1>3, <1>9, <1>10 DEF Next, vars

LEMMA OneInit == Init => OneInv
BY NoneAssumption DEF Init, OneInv, OneMailboxPerUser, Guarded, Idle

(***************************************************************************)
(* Called one at a time, the operations keep one mailbox per user, whatever*)
(* people do meanwhile: it takes two calls in flight to break it.          *)
(***************************************************************************)
THEOREM OneMailboxInTurn ==
    ASSUME \A r, q \in Requests : r = q PROVE Spec => []OneMailboxPerUser
<1>1. \A r \in Requests : Alone(r)
  BY DEF Alone
<1>2. IInv /\ OneInv /\ [Next]_vars => OneInv'
  BY <1>1, OneStep
<1>3. OneInv => OneMailboxPerUser
  BY DEF OneInv
<1>. QED  BY <1>2, <1>3, OneInit, Invariance, PTL DEF Spec

\* What a lock on the row of the user adopted would give: their address stays
\* until the adoption has committed or failed.
AdoptedStay ==
    \A r \in Requests : \A u \in Live :
        call[r].pc \in Adopting /\ call[r].user = u /\ users'[u] # None
            => users'[u].address = users[u].address

Addressed(r) ==
    call[r].pc \in Adopting /\ call[r].user \in Live =>
        users[call[r].user].address = call[r].mailbox

LockInv == \A r \in Requests : Addressed(r) /\ Alone(r)

Same(r) == call'[r].user = call[r].user /\ call'[r].mailbox = call[r].mailbox

\* A call comes to carry a user by finding or registering them.
LEMMA AdoptsHow ==
    ASSUME IInv, [Next]_vars, NEW r \in Requests, call'[r].pc \in Adopting
    PROVE  (call[r].pc \in Adopting /\ Same(r)) \/ FindExisting(r) \/ Register(r)
<1>1. call \in [Requests -> Call]
  BY DEF IInv, TypeOK
<1>2. CASE call' = call
  BY <1>2 DEF Same
<1>3. ASSUME NEW q \in Requests, NEW op, NEW m, Begin(q, op, m) PROVE call[r].pc \in Adopting /\ Same(r)
  BY <1>1, <1>3 DEF Begin, Becomes, Idle, Adopting, Same
<1>4. ASSUME NEW q \in Requests, q # r, Advance(q) \/ Fail(q) PROVE call[r].pc \in Adopting /\ Same(r)
  <2>1. call'[r] = call[r]
    BY <1>1, <1>4 DEF Advance, Claim, ClaimTaken, Resolve, ResolveLost, LookUp, FindExisting, FindNobody,
       GuardRefuses, GuardPasses, Register, RegisterRefuses, Bind, Commit, Fail, RollBack, Goto, Becomes
  <2>. QED  BY <2>1 DEF Same
<1>5. CASE Advance(r) \/ Fail(r)
  <2>1. ASSUME Becomes(r, Idle) PROVE FALSE
    BY <1>1, <2>1 DEF Becomes, Idle, Adopting
  <2>2. ASSUME NEW next \in Call, Becomes(r, next) PROVE call'[r] = next
    BY <1>1, <2>2 DEF Becomes
  <2>3. call[r] \in Call
    BY <1>1
  <2>4. CASE Claim(r) \/ Resolve(r) \/ FindNobody(r)
    <3>1. PICK pc \in {"find", "register", "look up"} :
            \/ Becomes(r, [call[r] EXCEPT !.pc = pc])
            \/ Becomes(r, [call[r] EXCEPT !.pc = pc, !.user = claims[call[r].mailbox]])
      BY <2>4 DEF Claim, Resolve, FindNobody, Goto
    <3>. QED  BY <1>1, <2>3, <3>1 DEF Becomes, Adopting, Call
  <2>5. CASE ClaimTaken(r)
    <3>1. Becomes(r, [call[r] EXCEPT !.pc = "resolve"])
      BY <2>1, <2>5 DEF ClaimTaken, RollBack
    <3>. QED  BY <1>1, <2>3, <3>1 DEF Becomes, Adopting, Call
  <2>6. CASE ResolveLost(r)
    <3>1. Becomes(r, [call[r] EXCEPT !.pc = "claim", !.attempt = @ + 1])
      BY <2>1, <2>6 DEF ResolveLost
    <3>. QED  BY <1>1, <2>3, <3>1 DEF Becomes, Adopting, Call
  <2>7. CASE LookUp(r) \/ GuardRefuses(r) \/ RegisterRefuses(r) \/ Commit(r) \/ Fail(r)
    BY <2>1, <2>7 DEF LookUp, GuardRefuses, RegisterRefuses, Commit, Fail, RollBack
  <2>8. CASE GuardPasses(r) \/ Bind(r)
    BY <1>1, <2>3, <2>8 DEF GuardPasses, Bind, Goto, Becomes, Adopting, Call, Same
  <2>. QED  BY <1>5, <2>4, <2>5, <2>6, <2>7, <2>8 DEF Advance
<1>6. CASE People
  BY <1>2, <1>6 DEF People, SignUp, ChangeAddress, ProviderMovesAddress, LinkProvider, EraseClaims,
     EraseUser, EraseFails
<1>. QED  BY <1>2, <1>3, <1>4, <1>5, <1>6 DEF Next, vars

\* The user a call carries comes to be by its own commit only.
LEMMA CarriedAppears ==
    ASSUME IInv, [Next]_vars, NEW r \in Requests, call[r].pc \in Adopting, call'[r].pc \in Adopting,
           users[call[r].user] = None
    PROVE  users'[call[r].user] = None
<1>. DEFINE u == call[r].user
<1>1. CallOK(r) /\ u \in UserIds /\ TypeOK
  BY DEF IInv, CallOK, Carries, Adopting
<1>2. CASE users' = users
  BY <1>2
<1>3. ASSUME NEW m, NEW issuer, SignUp(m, issuer) PROVE users'[u] = None
  BY <1>1, <1>3 DEF SignUp, CallOK, Apart, TypeOK
<1>4. ASSUME NEW v \in UserIds, NEW m, ChangeAddress(v, m) \/ ProviderMovesAddress(v, m) \/ LinkProvider(v)
      PROVE  users'[u] = None
  BY <1>1, <1>4 DEF ChangeAddress, ProviderMovesAddress, LinkProvider, Live, TypeOK
<1>5. ASSUME NEW v \in UserIds, EraseUser(v) PROVE users'[u] = None
  BY <1>1, <1>5 DEF EraseUser, TypeOK
<1>6. ASSUME NEW q \in Requests, Commit(q) PROVE users'[u] = None
  <2>1. q # r
    BY <1>1, <1>6 DEF Commit, Becomes, TypeOK, Idle, Adopting
  <2>2. call[q].fresh => call[q].user # u
    BY <1>1, <2>1 DEF CallOK, Apart
  <2>. QED  BY <1>1, <1>6, <2>2 DEF Commit, TypeOK
<1>7. ASSUME NEW q \in Requests, Advance(q) \/ Fail(q) PROVE users'[u] = None
  BY <1>2, <1>6, <1>7 DEF Advance, Claim, ClaimTaken, Resolve, ResolveLost, LookUp, FindExisting, FindNobody,
     GuardRefuses, GuardPasses, Register, RegisterRefuses, Bind, Fail, RollBack
<1>8. CASE People
  BY <1>2, <1>3, <1>4, <1>5, <1>8 DEF People, EraseClaims, EraseFails
<1>. QED  BY <1>2, <1>7, <1>8 DEF Next, vars, Begin

LEMMA LockStep ==
    ASSUME IInv, LockInv, [Next]_vars, AdoptedStay
    PROVE  LockInv'
<1>0. IInv'
  BY NextKeeps
<1>1. ASSUME NEW r \in Requests, FindExisting(r)
      PROVE  /\ call'[r].user \in Live /\ users'[call'[r].user].address = call'[r].mailbox
             /\ call'[r].mailbox = call[r].mailbox /\ users' = users
             /\ \A q \in Requests : q # r => call'[q] = call[q]
             /\ key[call[r].mailbox] = r
  <2>1. TypeOK /\ call[r] \in Call /\ CallOK(r)
    BY DEF IInv, TypeOK
  <2>2. PICK u \in Live : u \in At(call[r].mailbox) /\ Becomes(r, [call[r] EXCEPT !.pc = "guard", !.user = u])
    BY <1>1 DEF FindExisting, IsLowest
  <2>3. call'[r].user = u /\ call'[r].mailbox = call[r].mailbox /\ \A q \in Requests : q # r => call'[q] = call[q]
    BY <2>1, <2>2 DEF Becomes, TypeOK, Call
  <2>4. key[call[r].mailbox] = r
    BY <1>1, <2>1 DEF FindExisting, CallOK, Placed, Holding
  <2>. QED  BY <1>1, <2>2, <2>3, <2>4 DEF At, FindExisting
<1>2. ASSUME NEW r \in Requests, Register(r)
      PROVE  /\ call'[r].user \in unused /\ users' = users
             /\ \A q \in Requests : q # r => call'[q] = call[q]
  BY <1>2 DEF Register, Becomes, IInv, TypeOK, Call
<1>3. ASSUME NEW r \in Requests PROVE Addressed(r)'
  <2>1. SUFFICES ASSUME call'[r].pc \in Adopting, call'[r].user \in UserIds, users'[call'[r].user] # None
                 PROVE  users'[call'[r].user].address = call'[r].mailbox
    BY DEF Addressed, Live
  <2>2. CASE call[r].pc \in Adopting /\ Same(r)
    <3>1. users[call[r].user] # None
      BY <2>1, <2>2, CarriedAppears DEF Same
    <3>2. call[r].user \in Live
      BY <2>1, <2>2, <3>1 DEF Live, Same
    <3>. QED  BY <2>1, <2>2, <3>2 DEF LockInv, Addressed, AdoptedStay, Same
  <2>3. CASE FindExisting(r)
    BY <1>1, <2>3
  <2>4. CASE Register(r)
    BY <1>2, <2>1, <2>4 DEF IInv, UnusedIsUnheard, Unheard
  <2>. QED  BY <2>1, <2>2, <2>3, <2>4, AdoptsHow
<1>4. ASSUME NEW r \in Requests, NEW q \in Requests, q # r, call'[r].pc \in Adopting,
             call'[q].pc \in Adopting, FindExisting(r) \/ Register(r)
      PROVE  call'[q].user # call'[r].user
  <2>1. call'[q] = call[q] /\ CallOK(q)
    BY <1>1, <1>2, <1>4 DEF IInv
  <2>2. CASE FindExisting(r)
    <3>1. SUFFICES ASSUME call[q].user = call'[r].user PROVE FALSE
      BY <2>1
    <3>2. call[q].mailbox = call[r].mailbox
      BY <1>1, <1>4, <2>1, <2>2, <3>1 DEF LockInv, Addressed
    <3>. QED  BY <1>1, <1>4, <2>1, <2>2, <3>2 DEF CallOK, Placed, Holding, Adopting
  <2>3. CASE Register(r)
    BY <1>2, <2>1, <2>3 DEF CallOK, Apart
  <2>. QED  BY <1>4, <2>2, <2>3
<1>5. ASSUME NEW r \in Requests PROVE Alone(r)'
  BY <1>4, AdoptsHow DEF LockInv, Alone, Same
<1>. QED  BY <1>3, <1>5 DEF LockInv

(***************************************************************************)
(* Any number of calls keep one mailbox per user if no address moves away  *)
(* from under an adoption, as a lock on the user's row would see to.       *)
(***************************************************************************)
THEOREM OneMailboxUnderLock == Spec /\ [][AdoptedStay]_vars => []OneMailboxPerUser
<1>1. ASSUME Init PROVE LockInv
  <2>1. \A r \in Requests : call[r].pc = "idle"
    BY <1>1 DEF Init, Idle
  <2>. QED  BY <2>1 DEF LockInv, Addressed, Alone, Adopting
<1>2. IInv /\ LockInv /\ [Next]_vars /\ [AdoptedStay]_vars => LockInv'
  <2>1. SUFFICES ASSUME IInv, LockInv, [Next]_vars, [AdoptedStay]_vars PROVE LockInv'
    OBVIOUS
  <2>2. CASE UNCHANGED vars
    BY <2>1, <2>2 DEF LockInv, Addressed, Alone, Live, vars
  <2>. QED  BY <2>1, <2>2, LockStep
<1>3. LockInv => \A r \in Requests : Alone(r)
  BY DEF LockInv
<1>4. IInv /\ OneInv /\ LockInv /\ [Next]_vars => OneInv'
  BY <1>3, OneStep
<1>5. OneInv => OneMailboxPerUser
  BY DEF OneInv
<1>. QED  BY <1>1, <1>2, <1>4, <1>5, OneInit, Invariance, PTL DEF Spec

-----------------------------------------------------------------------------
(* One register per mailbox.                                               *)

ErasingIsLive == erasing \subseteq Live

\* What a look-up answers was answered before.
BoundIsAnswered == \A m \in Mailboxes : claims[m] \in UserIds => claims[m] \in answers[m]

RegisterInv == ErasingIsLive /\ BoundIsAnswered

OwnersStep == [Owners!Next]_(Owners!vars)

LEMMA Unseen ==
    ASSUME RegisterInv, UNCHANGED <<Live, claims, answers, erasing>>
    PROVE  RegisterInv' /\ OwnersStep
BY DEF RegisterInv, ErasingIsLive, BoundIsAnswered, OwnersStep, Owners!vars

\* Statements of a call before its commit, and changes of a user.
LEMMA UnseenSteps ==
    ASSUME IInv, RegisterInv, users' = users \/ UNCHANGED Live, UNCHANGED <<claims, answers, erasing>>
    PROVE  RegisterInv' /\ OwnersStep
<1>1. UNCHANGED Live
  BY DEF Live
<1>. QED  BY <1>1, Unseen

LEMMA LookUpRegisters ==
    ASSUME IInv, RegisterInv, NEW r \in Requests, LookUp(r)
    PROVE  RegisterInv' /\ OwnersStep
<1>. DEFINE m == call[r].mailbox
            u == call[r].user
<1>1. CallOK(r) /\ TypeOK /\ m \in Mailboxes /\ u \in UserIds
  BY DEF IInv, CallOK, Placed, Carries, LookUp
<1>2. u \in Live => u \in answers[m]
  BY <1>1 DEF CallOK, Reads, LookUp, Live, RegisterInv, BoundIsAnswered
<1>3. answers' = answers
  <2>1. CASE u \in Live
    <3>1. answers' = [answers EXCEPT ![m] = answers[m] \cup {u}]
      BY <2>1 DEF LookUp, Answer
    <3>2. answers[m] \cup {u} = answers[m]
      BY <1>2, <2>1
    <3>. QED  BY <1>1, <3>1, <3>2 DEF TypeOK
  <2>2. CASE u \notin Live
    BY <2>2 DEF LookUp
  <2>. QED  BY <2>1, <2>2
<1>. QED  BY <1>3, UnseenSteps DEF LookUp

LEMMA UnheardIsNew == ASSUME NEW u \in UserIds, Unheard(u) PROVE Owners!New(u)
BY DEF Unheard, Live, Owners!New

\* A row written for u makes them a user, if they were none.
LEMMA RowIsUser ==
    ASSUME TypeOK, NEW u \in UserIds, NEW row \in User, users' = [users EXCEPT ![u] = row]
    PROVE  Live' = Live \cup {u}
<1>1. row # None
  BY NoneAssumption DEF User
<1>2. \A v \in UserIds : users'[v] = IF v = u THEN row ELSE users[v]
  BY DEF TypeOK
<1>. QED  BY <1>1, <1>2 DEF Live

LEMMA CommitRegisters ==
    ASSUME IInv, RegisterInv, NEW r \in Requests, Commit(r)
    PROVE  RegisterInv' /\ OwnersStep
<1>. DEFINE m == call[r].mailbox
            u == call[r].user
<1>1. CallOK(r) /\ TypeOK /\ m \in Mailboxes /\ u \in UserIds /\ key[m] = r /\ call[r].bound = u
  BY DEF IInv, CallOK, Placed, Carries, Commit, Holding
<1>2. claims[m] = None /\ claims' = [claims EXCEPT ![m] = u]
  BY <1>1 DEF IInv, RowOK, Commit
<1>3. answers' = [answers EXCEPT ![m] = answers[m] \cup {u}] /\ UNCHANGED erasing
  BY DEF Commit, Answer
<1>4. \/ Live' = Live
      \/ Owners!New(u) /\ Live' = Live \cup {u}
  <2>1. CASE call[r].fresh
    <3>1. users' = [users EXCEPT ![u] = [address |-> m, issuer |-> "local"]]
      BY <2>1 DEF Commit
    <3>2. [address |-> m, issuer |-> "local"] \in User
      BY <1>1 DEF User
    <3>3. Live' = Live \cup {u}
      BY <1>1, <3>1, <3>2, RowIsUser
    <3>4. Owners!New(u)
      BY <1>1, <2>1, UnheardIsNew DEF CallOK, Apart
    <3>. QED  BY <3>3, <3>4
  <2>2. CASE ~ call[r].fresh
    <3>1. users' = users
      BY <2>2 DEF Commit
    <3>2. Live' = Live
      BY <3>1 DEF Live
    <3>. QED  BY <3>2
  <2>. QED  BY <2>1, <2>2
<1>. HIDE DEF m, u
<1>5. Owners!Provision(m, u)
  BY <1>2, <1>3, <1>4 DEF Owners!Provision
<1>6. BoundIsAnswered'
  BY <1>1, <1>2, <1>3 DEF RegisterInv, BoundIsAnswered, TypeOK
<1>7. ErasingIsLive'
  BY <1>3, <1>4 DEF RegisterInv, ErasingIsLive
<1>. QED  BY <1>1, <1>5, <1>6, <1>7 DEF RegisterInv, OwnersStep, Owners!Next

LEMMA SignUpRegisters ==
    ASSUME IInv, RegisterInv, NEW m \in Mailboxes, NEW issuer \in {"local", "provider"}, SignUp(m, issuer)
    PROVE  RegisterInv' /\ OwnersStep
<1>1. PICK u \in unused : users' = [users EXCEPT ![u] = [address |-> m, issuer |-> issuer]]
  BY DEF SignUp
<1>2. TypeOK /\ u \in UserIds /\ Owners!New(u)
  BY UnheardIsNew DEF IInv, TypeOK, UnusedIsUnheard
<1>3. [address |-> m, issuer |-> issuer] \in User
  BY DEF User
<1>4. Live' = Live \cup {u}
  BY <1>1, <1>2, <1>3, RowIsUser
<1>5. Owners!SignUp(u)
  BY <1>2, <1>4 DEF Owners!SignUp, SignUp
<1>6. RegisterInv'
  BY <1>4 DEF RegisterInv, ErasingIsLive, BoundIsAnswered, SignUp
<1>. QED  BY <1>2, <1>5, <1>6 DEF OwnersStep, Owners!Next

LEMMA EraseUserRegisters ==
    ASSUME IInv, RegisterInv, NEW u \in UserIds, EraseUser(u)
    PROVE  RegisterInv' /\ OwnersStep
<1>. DEFINE freed == {m \in Mailboxes : key[m] = u}
<1>1. TypeOK /\ u \in Live
  BY DEF IInv, RegisterInv, ErasingIsLive, EraseUser
<1>2. freed \in SUBSET {m \in Mailboxes : claims[m] = u}
  BY DEF IInv, RowOK
<1>3. claims' = [m \in Mailboxes |-> IF m \in freed THEN None ELSE claims[m]]
  BY DEF EraseUser
<1>4. Live' = Live \ {u}
  BY <1>1 DEF EraseUser, Live, TypeOK
<1>5. RegisterInv'
  BY <1>3, <1>4, NoneAssumption DEF RegisterInv, ErasingIsLive, BoundIsAnswered, EraseUser
<1>. HIDE DEF freed
<1>6. Owners!Erase(u)
  BY <1>1, <1>2, <1>3, <1>4 DEF Owners!Erase, EraseUser
<1>. QED  BY <1>5, <1>6 DEF OwnersStep, Owners!Next

LEMMA RegisterStep ==
    ASSUME IInv, RegisterInv, [Next]_vars
    PROVE  RegisterInv' /\ OwnersStep
<1>1. ASSUME NEW r \in Requests, NEW op, NEW m, Begin(r, op, m) PROVE RegisterInv' /\ OwnersStep
  BY <1>1, UnseenSteps DEF Begin
<1>2. ASSUME NEW r \in Requests, Advance(r) \/ Fail(r) PROVE RegisterInv' /\ OwnersStep
  <2>1. CASE LookUp(r)
    BY <2>1, LookUpRegisters
  <2>2. CASE Commit(r)
    BY <2>2, CommitRegisters
  <2>3. CASE ~ LookUp(r) /\ ~ Commit(r)
    <3>1. UNCHANGED <<users, claims, answers, erasing>>
      BY <1>2, <2>3 DEF Advance, Claim, ClaimTaken, Resolve, ResolveLost, FindExisting, FindNobody,
         GuardRefuses, GuardPasses, Register, RegisterRefuses, Bind, Fail, RollBack
    <3>. QED  BY <3>1, UnseenSteps
  <2>. QED  BY <2>1, <2>2, <2>3
<1>3. ASSUME NEW u \in UserIds, NEW m \in Mailboxes,
             ChangeAddress(u, m) \/ ProviderMovesAddress(u, m) \/ LinkProvider(u)
      PROVE  RegisterInv' /\ OwnersStep
  <2>1. TypeOK /\ u \in Live
    BY <1>3 DEF IInv, ChangeAddress, ProviderMovesAddress, LinkProvider
  <2>2. PICK row \in User : users' = [users EXCEPT ![u] = row]
    <3>1. users[u] \in User
      BY <2>1, LiveIsUser
    <3>2. [users[u] EXCEPT !.address = m] \in User /\ [users[u] EXCEPT !.issuer = "provider"] \in User
      BY <3>1 DEF User
    <3>. QED  BY <1>3, <3>2 DEF ChangeAddress, ProviderMovesAddress, LinkProvider
  <2>3. Live' = Live \cup {u}
    BY <2>1, <2>2, RowIsUser
  <2>. QED  BY <1>3, <2>1, <2>3, UnseenSteps DEF ChangeAddress, ProviderMovesAddress, LinkProvider
<1>4. ASSUME NEW u \in UserIds, EraseClaims(u) \/ EraseFails(u) PROVE RegisterInv' /\ OwnersStep
  <2>1. UNCHANGED <<users, claims, answers>> /\ erasing' \subseteq Live
    BY <1>4 DEF EraseClaims, EraseFails, RegisterInv, ErasingIsLive
  <2>. QED  BY <2>1 DEF RegisterInv, ErasingIsLive, BoundIsAnswered, OwnersStep, Owners!vars, Live
<1>5. ASSUME NEW u \in UserIds, LinkProvider(u) PROVE RegisterInv' /\ OwnersStep
  <2>1. users[u] \in User
    BY <1>5, LiveIsUser DEF LinkProvider, IInv
  <2>2. users[u].address \in Mailboxes
    BY <2>1 DEF User
  <2>. QED  BY <1>3, <1>5, <2>2
<1>6. CASE People
  BY <1>3, <1>4, <1>5, <1>6, SignUpRegisters, EraseUserRegisters DEF People
<1>7. CASE UNCHANGED vars
  BY <1>7, UnseenSteps DEF vars
<1>. QED  BY <1>1, <1>2, <1>6, <1>7 DEF Next

(***************************************************************************)
(* The claims, keys, retries and erasures of any number of calls are one   *)
(* register per mailbox: its owner and the answer are given in one step,   *)
(* and every other answer has been given before.                           *)
(***************************************************************************)
THEOREM RegisterIsImplemented == Spec => ImplementsRegister
<1>1. Init => RegisterInv /\ Owners!Init
  BY NoneAssumption DEF Init, RegisterInv, ErasingIsLive, BoundIsAnswered, Live, Owners!Init
<1>2. IInv /\ RegisterInv /\ [Next]_vars => RegisterInv' /\ OwnersStep
  BY RegisterStep
<1>. QED  BY <1>1, <1>2, Invariance, PTL DEF Spec, ImplementsRegister, Owners!Spec, OwnersStep
=============================================================================
