----------------------- MODULE SessionRegisterProofs -----------------------
(***************************************************************************)
(* SessionRefresh implements SessionRegister: however many renewals are at *)
(* work on a session, each exchange of a token happens in one step, its    *)
(* commit, and what it presented is taken at that moment.                  *)
(*                                                                         *)
(* The tokens in use are all that were issued, but for those of renewals   *)
(* still to commit: nobody else knows these (Fresh), so they are new when  *)
(* they are committed, and wasted when their transaction fails.            *)
(***************************************************************************)
EXTENDS SessionClientsProofs

Taken == [c \in Clients |-> Accepted(c)]

Pending == {request[r].token : r \in {q \in Requests : Rotating(q)}}

Register == INSTANCE SessionRegister
    WITH accepted <- Taken, used <- Token \ Pending, Exchanging <- Browsers

ImplementsRegister == Register!Spec

-----------------------------------------------------------------------------

\* A session takes issued tokens.
LEMMA AcceptedRow ==
    ASSUME TypeOK, NEW c \in Clients, session[c] # None
    PROVE  /\ session[c] \in SessionRow
           /\ session[c].current \in Accepted(c)
           /\ Accepted(c) # {}
  <1>1. session[c] \in SessionRow
    BY DEF TypeOK
  <1>2. session[c].current \in Token /\ session[c].current # None
    BY <1>1, IssuedIsNat, TokenFacts DEF SessionRow
  <1> QED
    BY <1>1, <1>2 DEF Accepted

\* A renewal that has a token to commit had it before, or has just drawn it.
LEMMA PendingSteps ==
    ASSUME IInv, [Next]_vars, NEW q \in Requests, Rotating(q)'
    PROVE  \/ Rotating(q) /\ request'[q].token = request[q].token
           \/ request'[q].token = issued + 1
  <1>1. TypeOK /\ request[q] \in Renewal
    BY DEF IInv, TypeOK
  <1>2. CASE request'[q] = request[q]
    BY <1>2 DEF Rotating
  <1>3. ASSUME NEW r \in Requests, Serve(r), request'[q] # request[q] PROVE Rotate(q)
    <2>1. q = r
      <3>1. \A p \in Requests \ {r} : request'[p] = request[p]
        BY <1>1, <1>3, LookUpTyped, LookUpFailsTyped, ExpireTyped, TouchTyped, RotateTyped,
           RotateFailsTyped, UserRefusedTyped, CommitTyped, FailTyped DEF Serve
      <3> QED
        BY <1>3, <3>1
    <2>2. CASE LookUpFails(r) \/ Expire(r) \/ RotateFails(r) \/ UserRefused(r) \/ Commit(r) \/ Fail(r)
      <3>1. PICK answer \in Answers :
               request'[r] = [request[r] EXCEPT !.pc = "replied", !.answer = answer]
        BY <1>1, <2>2, LookUpFailsTyped, ExpireTyped, RotateFailsTyped, UserRefusedTyped,
           CommitTyped, FailTyped DEF Answers
      <3> QED
        BY <1>1, <2>1, <3>1 DEF Rotating, Renewal
    <2>3. CASE LookUp(r)
      <3> DEFINE pc == IF session[request[r].client].idle THEN "expired" ELSE "touch"
      <3>1. request'[r] = [request[r] EXCEPT !.pc = pc, !.sid = session[request[r].client].sid,
                                             !.read = session[request[r].client].current]
        BY <1>1, <2>3, LookUpTyped
      <3>2. pc # "user"
        OBVIOUS
      <3> HIDE DEF pc
      <3> QED
        BY <1>1, <2>1, <3>1, <3>2 DEF Rotating, Renewal
    <2>4. CASE Touch(r)
      <3> DEFINE pc == IF request[r].client \in Browsers THEN "rotate" ELSE "user"
      <3>1. request'[r] = [request[r] EXCEPT !.pc = pc]
        BY <1>1, <2>4, TouchTyped DEF Moved, Rotates
      <3>2. request[r].client \in Browsers => pc # "user"
        OBVIOUS
      <3> HIDE DEF pc
      <3> QED
        BY <1>1, <2>1, <3>1, <3>2 DEF Rotating, Renewal
    <2> QED
      BY <1>3, <2>1, <2>2, <2>3, <2>4 DEF Serve
  <1>4. ASSUME Rotate(q) PROVE request'[q].token = issued + 1
    <2>1. request'[q] = [request[q] EXCEPT !.pc = "user", !.token = issued + 1]
      BY <1>1, <1>4, RotateTyped
    <2> QED
      BY <1>1, <2>1 DEF Renewal
  <1>5. ASSUME NEW r \in Requests, Deliver(r) \/ Lose(r) \/ (\E c \in Clients : Send(c, r))
        PROVE  request'[q] = request[q]
    <2>1. request'[r].pc \in {"free", "look up"} /\ \A p \in Requests \ {r} : request'[p] = request[p]
      <3>1. CASE Deliver(r) \/ Lose(r)
        <4>1. request'[r] = Free /\ \A p \in Requests \ {r} : request'[p] = request[p]
          BY <1>1, <3>1, DeliverTyped, LoseTyped
        <4> QED
          BY <4>1 DEF Free
      <3>2. ASSUME NEW c \in Clients, Send(c, r)
            PROVE  request'[r].pc = "look up" /\ \A p \in Requests \ {r} : request'[p] = request[p]
        <4>1. /\ request'[r] = [Free EXCEPT !.pc = "look up", !.client = c, !.presented = held[c]]
              /\ \A p \in Requests \ {r} : request'[p] = request[p]
          BY <1>1, <3>2, SendTyped
        <4> QED
          BY <4>1 DEF Free
      <3> QED
        BY <1>5, <3>1, <3>2
    <2> QED
      BY <2>1 DEF Rotating
  <1>6. CASE request' = request
    BY <1>6, <1>2
  <1> QED
    BY <1>2, <1>3, <1>4, <1>5, <1>6 DEF Next, SignIn, Logout, Revoke, FallIdle, CleanUp, RevokeAll,
       SetDisabled, vars

\* What was in use stays in use, and every token in use was issued.
LEMMA UsedGrows ==
    ASSUME IInv, [Next]_vars
    PROVE  /\ Token \ Pending \subseteq (Token \ Pending)'
           /\ (Token \ Pending)' \in SUBSET Nat
  <1>1. TypeOK /\ issued \in Nat /\ issued' \in {issued, issued + 1}
    <2>1. TypeOK /\ issued \in Nat
      BY IssuedIsNat DEF IInv
    <2> QED
      BY <2>1 DEF Next, Serve, LookUp, LookUpFails, Expire, Touch, Rotate, RotateFails, UserRefused,
         Commit, Fail, Deliver, Lose, Send, SignIn, Logout, Revoke, FallIdle, CleanUp, RevokeAll,
         SetDisabled, vars
  <1>2. Token \subseteq Token' /\ Token' \subseteq Nat /\ issued + 1 \notin Token
    BY <1>1 DEF Token
  <1>3. ASSUME NEW t \in Token, t \notin Pending PROVE t \notin Pending'
    <2> SUFFICES ASSUME NEW q \in Requests, Rotating(q)', t = request'[q].token PROVE FALSE
      BY DEF Pending
    <2> QED
      BY <1>2, <1>3, PendingSteps DEF Pending
  <1> QED
    BY <1>2, <1>3

\* A row that is kept is taken with the same tokens.
LEMMA KeptTaken ==
    ASSUME NEW c \in Clients, Kept(c)
    PROVE  Accepted(c)' \in {Accepted(c), {}}
  BY DEF Kept, SameTokens, Accepted

LEMMA OpenStep ==
    ASSUME IInv, [Next]_vars, NEW c \in Clients, SignIn(c)
    PROVE  Register!Open(c)
  <1>1. TypeOK /\ issued \in Nat
    BY IssuedIsNat DEF IInv
  <1>2. issued + 1 \in Nat \ (Token \ Pending)
    BY <1>1, TokenFacts
  <1>3. Accepted(c) = {}
    BY DEF SignIn, Accepted
  <1>4. Accepted(c)' = {issued + 1} /\ \A d \in Clients \ {c} : Accepted(d)' = Accepted(d)
    <2>1. session'[c] = [sid |-> issued + 1, current |-> issued + 1, previous |-> None, idle |-> FALSE]
          /\ \A d \in Clients \ {c} : session'[d] = session[d]
      BY <1>1, SignInTyped
    <2>2. session'[c] # None
      <3>1. session'[c] \in [sid : Nat, current : Nat, previous : Nat \cup {None}, idle : BOOLEAN]
        BY <1>1, <2>1
      <3> QED
        BY <3>1, NoneAssumption
    <2>3. issued + 1 # None
      BY <1>1, NoneIsApart
    <2> QED
      BY <2>1, <2>2, <2>3 DEF Accepted
  <1>5. Taken' = [Taken EXCEPT ![c] = {issued + 1}]
    BY <1>4 DEF Taken
  <1>6. (Token \ Pending)' = (Token \ Pending) \cup {issued + 1}
    <2>1. Pending' = Pending
      BY DEF SignIn, Pending, Rotating
    <2>2. Token' = Token \cup {issued + 1}
      <3>1. issued' = issued + 1
        BY DEF SignIn
      <3>2. 1..(issued + 1) = (1..issued) \cup {issued + 1}
        BY <1>1
      <3> QED
        BY <3>1, <3>2 DEF Token
    <2>3. issued + 1 \notin Pending
      <3>1. \A t \in Pending : t \in Token
        BY DEF IInv, Fresh, Pending
      <3> QED
        BY <1>1, <3>1, TokenFacts
    <2> QED
      BY <2>1, <2>2, <2>3
  <1> QED
    BY <1>2, <1>3, <1>5, <1>6 DEF Register!Open, Register!New, Taken

LEMMA ExchangeStep ==
    ASSUME IInv, NEW r \in Requests, Commit(r), Rotating(r),
           NEW c, c = request[r].client,
           NEW t, t = request[r].token,
           NEW p, p = request[r].presented
    PROVE  Register!Exchange(c)
  <1>1. TypeOK /\ request[r] \in Renewal /\ c \in Clients /\ c \in Browsers
    BY DEF IInv, TypeOK, Rotating, Clients
  <1>2. Row(r) /\ session[c].current = request[r].read /\ session[c] # None
    BY DEF IInv, Holds, Row
  <1>3. p \in Accepted(c)
    BY <1>1, <1>2 DEF IInv, Found
  <1>4. t \in Token /\ t # None /\ p # None /\ t \in Nat
    BY <1>1, <1>3, IssuedIsNat, TokenFacts DEF IInv, Fresh, Accepted
  <1>5. Accepted(c)' = {t, p} /\ \A d \in Clients \ {c} : Accepted(d)' = Accepted(d)
    <2>1. session'[c] = Rotated(r) /\ \A d \in Clients \ {c} : session'[d] = session[d]
      BY <1>1, <1>2, CommitTyped DEF Renewed, Rotates
    <2>2. session[c] \in SessionRow
      BY <1>1, <1>2, AcceptedRow
    <2>3. session'[c].current = t /\ session'[c].previous = p
      BY <2>1, <2>2 DEF Rotated, SessionRow
    <2>4. session'[c] # None
      <3>1. session'[c] \in SessionRow' \cup {None} /\ Rotated(r) \in [sid : Nat, current : Nat, previous : Nat \cup {None}, idle : BOOLEAN]
        <4>1. p \in Nat
          BY <1>1, <1>4, IssuedIsNat, TokenFacts DEF TypeOK, BrowserTokens
        <4>2. session[c].sid \in Nat
          BY <1>1, <2>2, IssuedIsNat, TokenFacts DEF SessionRow
        <4>3. session'[c] \in SessionRow' \cup {None}
          BY <1>1, CommitTyped DEF TypeOK
        <4> QED
          BY <1>4, <2>2, <4>1, <4>2, <4>3 DEF Rotated, SessionRow
      <3> QED
        BY <2>1, <3>1, NoneAssumption
    <2>5. Accepted(c)' = {t, p}
      <3>1. Accepted(c)' = {session'[c].current, session'[c].previous} \ {None}
        BY <2>4 DEF Accepted
      <3>2. Accepted(c)' = {t, p} \ {None}
        BY <2>3, <3>1
      <3> QED
        BY <1>4, <3>2
    <2>6. \A d \in Clients \ {c} : Accepted(d)' = Accepted(d)
      BY <2>1 DEF Accepted
    <2> QED
      BY <2>5, <2>6
  <1>6. Taken' = [Taken EXCEPT ![c] = {t, p}]
    BY <1>1, <1>5 DEF Taken
  <1>7. Pending' = Pending \ {t} /\ t \in Pending
    <2>1. request'[r].pc = "replied" /\ \A q \in Requests \ {r} : request'[q] = request[q]
      <3>1. request'[r] = [request[r] EXCEPT !.pc = "replied", !.answer = "renewed"]
            /\ \A q \in Requests \ {r} : request'[q] = request[q]
        BY <1>1, CommitTyped
      <3> QED
        BY <1>1, <3>1 DEF Renewal
    <2>2. \A q \in Requests \ {r} : Rotating(q)' <=> Rotating(q)
      BY <2>1 DEF Rotating
    <2>3. ~ Rotating(r)'
      BY <2>1 DEF Rotating
    <2>4. \A q \in Requests \ {r} : Rotating(q) => request[q].token # t
      BY DEF IInv, Fresh
    <2> QED
      BY <2>1, <2>2, <2>3, <2>4 DEF Pending
  <1>8. Token' = Token
    BY DEF Commit, Token
  <1>9. (Token \ Pending)' = (Token \ Pending) \cup {t} /\ t \in Nat \ (Token \ Pending)
    BY <1>4, <1>7, <1>8
  <1> QED
    BY <1>1, <1>3, <1>4, <1>6, <1>9 DEF Register!Exchange, Register!New, Taken

LEMMA CloseStep ==
    ASSUME IInv, [Next]_vars, \A c \in Clients : Kept(c)
    PROVE  \E ended \in SUBSET Clients : Register!Close(ended)
  <1> DEFINE ended == {c \in Clients : Accepted(c)' # Accepted(c)}
  <1>1. \A c \in Clients : Accepted(c)' = IF c \in ended THEN {} ELSE Accepted(c)
    BY KeptTaken
  <1>2. Taken' = [c \in Clients |-> IF c \in ended THEN {} ELSE Taken[c]]
    BY <1>1 DEF Taken
  <1>3. Register!Close(ended)
    BY <1>2, UsedGrows DEF Register!Close
  <1> QED
    BY <1>3

LEMMA RegisterStep ==
    ASSUME IInv, [Next]_vars
    PROVE  [Register!Next]_(Register!vars)
  <1>1. CASE \A c \in Clients : Kept(c)
    BY <1>1, CloseStep DEF Register!Next
  <1>2. ASSUME NEW c \in Clients, SignIn(c) PROVE Register!Next
    BY <1>2, OpenStep DEF Register!Next
  <1>3. ASSUME NEW r \in Requests, Commit(r), Rotating(r) PROVE Register!Next
    <2>1. PICK c, t, p : c = request[r].client /\ t = request[r].token /\ p = request[r].presented
      OBVIOUS
    <2>2. c \in Browsers /\ Register!Exchange(c)
      BY <1>3, <2>1, ExchangeStep DEF Rotating
    <2> QED
      BY <2>2 DEF Register!Next
  <1> QED
    BY <1>1, <1>2, <1>3, RowSteps

(***************************************************************************)
(* For any number of clients and of renewals at once, with requests and    *)
(* replies lost and late and sessions ended and opened meanwhile, the      *)
(* sessions are registers that exchange a token in one step: what is       *)
(* presented is taken, what is given is new.                               *)
(***************************************************************************)
THEOREM RegisterIsImplemented == Spec => ImplementsRegister
  <1>1. Init => Register!Init
    <2> SUFFICES ASSUME Init PROVE Register!Init
      OBVIOUS
    <2>1. \A c \in Clients : Accepted(c) = {}
      BY DEF Init, Accepted
    <2>2. Token = {}
      BY DEF Init, Token
    <2> QED
      BY <2>1, <2>2 DEF Register!Init, Taken
  <1>2. IInv /\ [Next]_vars => [Register!Next]_(Register!vars)
    BY RegisterStep
  <1> QED
    BY <1>1, <1>2, Inductive, PTL DEF Spec, Register!Spec, ImplementsRegister

-----------------------------------------------------------------------------
(* What the register is good for.                                          *)

\* The sessions take tokens of their own only.
TakenOnce == \A c, d \in Clients : Accepted(c) \cap Accepted(d) # {} => c = d

TakenIsUsed == \A c \in Clients : Accepted(c) \subseteq Token \ Pending

LEMMA TakenOnceStep ==
    ASSUME TakenOnce, TakenIsUsed, [Register!Next]_(Register!vars)
    PROVE  TakenOnce' /\ TakenIsUsed'
  <1>1. /\ \A c \in Clients : Taken[c] = Accepted(c)
        /\ \A c \in Clients : Taken'[c] = Accepted(c)'
    BY DEF Taken
  <1>2. ASSUME NEW c \in Clients, Register!Open(c) \/ (c \in Browsers /\ Register!Exchange(c))
        PROVE  TakenOnce' /\ TakenIsUsed'
    <2>1. PICK t \in Nat : /\ t \notin Token \ Pending
                           /\ \E kept \in SUBSET Accepted(c) : Taken' = [Taken EXCEPT ![c] = kept \cup {t}]
                           /\ (Token \ Pending)' = (Token \ Pending) \cup {t}
      <3>1. CASE Register!Open(c)
        <4>1. PICK t \in Nat : /\ t \notin Token \ Pending
                               /\ Taken' = [Taken EXCEPT ![c] = {t}]
                               /\ (Token \ Pending)' = (Token \ Pending) \cup {t}
          BY <3>1 DEF Register!Open, Register!New
        <4>2. {} \in SUBSET Accepted(c) /\ {t} = {} \cup {t}
          OBVIOUS
        <4> QED
          BY <4>1, <4>2
      <3>2. CASE Register!Exchange(c)
        <4>1. PICK t \in Nat, p \in Taken[c] :
                 /\ t \notin Token \ Pending
                 /\ Taken' = [Taken EXCEPT ![c] = {t, p}]
                 /\ (Token \ Pending)' = (Token \ Pending) \cup {t}
          BY <3>2 DEF Register!Exchange, Register!New
        <4>2. {p} \in SUBSET Accepted(c) /\ {t, p} = {p} \cup {t}
          BY <1>1, <4>1
        <4> QED
          BY <4>1, <4>2
      <3> QED
        BY <1>2, <3>1, <3>2
    <2>2. PICK kept \in SUBSET Accepted(c) : Taken' = [Taken EXCEPT ![c] = kept \cup {t}]
      BY <2>1
    <2>3. /\ Accepted(c)' = kept \cup {t}
          /\ \A d \in Clients \ {c} : Accepted(d)' = Accepted(d)
      BY <1>1, <2>2 DEF Taken
    <2> QED
      BY <2>1, <2>3 DEF TakenOnce, TakenIsUsed
  <1>3. ASSUME NEW ended \in SUBSET Clients, Register!Close(ended) PROVE TakenOnce' /\ TakenIsUsed'
    <2>1. \A c \in Clients : Accepted(c)' \subseteq Accepted(c)
      BY <1>1, <1>3 DEF Register!Close
    <2>2. Token \ Pending \subseteq (Token \ Pending)'
      BY <1>3 DEF Register!Close
    <2> QED
      BY <2>1, <2>2 DEF TakenOnce, TakenIsUsed
  <1>4. CASE UNCHANGED Register!vars
    <2>1. \A c \in Clients : Accepted(c)' = Accepted(c)
      BY <1>1, <1>4 DEF Register!vars
    <2>2. (Token \ Pending)' = Token \ Pending
      BY <1>4 DEF Register!vars
    <2> QED
      BY <2>1, <2>2 DEF TakenOnce, TakenIsUsed
  <1> QED
    BY <1>2, <1>3, <1>4 DEF Register!Next, Clients

(***************************************************************************)
(* No refresh token is taken by two sessions, whatever became of the       *)
(* renewals that drew tokens: a client never renews somebody else's.       *)
(***************************************************************************)
THEOREM TokensAreNotShared == Spec => []TakenOnce
  <1>1. Init => TakenOnce /\ TakenIsUsed
    BY DEF Init, TakenOnce, TakenIsUsed, Accepted
  <1>2. IInv /\ [Next]_vars /\ TakenOnce /\ TakenIsUsed => TakenOnce' /\ TakenIsUsed'
    BY RegisterStep, TakenOnceStep
  <1> QED
    BY <1>1, <1>2, Inductive, PTL DEF Spec
=============================================================================
