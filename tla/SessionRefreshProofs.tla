------------------------ MODULE SessionRefreshProofs ------------------------
(***************************************************************************)
(* SessionRefresh for every set of clients and renewals.                   *)
(***************************************************************************)
EXTENDS SessionRefresh, TLAPS

LEMMA NoneIsApart ==
    /\ None \notin Nat
    /\ None \notin Requests
    /\ None \notin Clients
    /\ None \notin Answers
  BY NoneAssumption

LEMMA MaxTokensIsNat == MaxTokens \in Nat
  BY KindsAssumption

LEMMA TokenFacts ==
    ASSUME issued \in Nat
    PROVE  /\ Token \subseteq Nat
           /\ 0 \notin Token
           /\ issued + 1 \notin Token
           /\ None \notin Token
           /\ \A t \in Token : t # issued + 1
  BY NoneIsApart DEF Token

-----------------------------------------------------------------------------
(* The strengthening.                                                      *)

Rotating(r) == request[r].pc = "user" /\ request[r].client \in Browsers

\* A session that still has the token a renewal read accepts the token it presented.
Found == \A r \in Requests :
    /\ request[r].client \in Clients
    /\ Row(r)
    /\ session[request[r].client].current = request[r].read
    => request[r].presented \in Accepted(request[r].client)

\* The token of a renewal that is to commit is known to nobody else.
Fresh == \A q \in Requests : Rotating(q) =>
    /\ request[q].token \in Token
    /\ \A r \in Requests : request[r].read # request[q].token
    /\ \A r \in Requests \ {q} : Rotating(r) => request[r].token # request[q].token
    /\ \A c \in Clients : session[c] # None => session[c].current # request[q].token

\* From its first UPDATE on a renewal has the row locked, if the row is there.
Locked == \A r \in Requests :
    /\ request[r].pc \in {"rotate", "user"}
    /\ Row(r)
    => lock[request[r].client] = r

\* What the second UPDATE found is there until the commit.
Holds == \A r \in Requests : Rotating(r) =>
    /\ Row(r)
    /\ session[request[r].client].current = request[r].read

\* The token a committed renewal replaced is not the current one again.
Spent == \A r \in Requests :
    /\ request[r].answer = "renewed"
    /\ request[r].client \in Browsers
    /\ session[request[r].client] # None
    /\ session[request[r].client].sid = request[r].sid
    => session[request[r].client].current # request[r].read

\* Only a renewal that was served has an answer.
Answered == \A r \in Requests : request[r].answer # None => request[r].pc = "replied"

IInv ==
    /\ TypeOK
    /\ Found
    /\ Fresh
    /\ Locked
    /\ Holds
    /\ Spent
    /\ Answered
    /\ OneWinner

-----------------------------------------------------------------------------
(* Types.                                                                  *)

LEMMA IssuedIsNat ==
    ASSUME TypeOK
    PROVE  issued \in Nat /\ issued <= MaxTokens
  BY MaxTokensIsNat DEF TypeOK

LEMMA NewToken ==
    ASSUME TypeOK, issued < MaxTokens, issued' = issued + 1
    PROVE  issued + 1 \in Token' /\ issued' \in 0..MaxTokens /\ issued + 1 # 0
  BY IssuedIsNat, MaxTokensIsNat DEF Token

LEMMA Frame ==
    ASSUME issued \in Nat, issued' \in {issued, issued + 1}
    PROVE  Token \subseteq Token' /\ Renewal \subseteq Renewal' /\ SessionRow \subseteq SessionRow'
  <1>1. Token \subseteq Token'
    BY DEF Token
  <1>2. Renewal \subseteq Renewal'
    BY <1>1 DEF Renewal
  <1>3. SessionRow \subseteq SessionRow'
    BY <1>1 DEF SessionRow
  <1> QED
    BY <1>1, <1>2, <1>3

LEMMA RowsArePresent ==
    ASSUME TypeOK
    PROVE  \A row \in SessionRow : row # None
  <1>1. Token \subseteq Nat
    BY IssuedIsNat DEF Token
  <1>2. SessionRow \subseteq [sid : Nat, current : Nat, previous : Nat \cup {None}, idle : BOOLEAN]
    BY <1>1 DEF SessionRow
  <1> QED
    BY <1>2, NoneAssumption

\* A renewal that is under way belongs to a client.
LEMMA OfClient ==
    ASSUME TypeOK, NEW r \in Requests, request[r].pc # "free"
    PROVE  request[r].client \in Clients /\ request[r].client # None
  BY NoneIsApart DEF TypeOK, LocksAreHeld

\* A step that writes one renewal and one row keeps their types.
LEMMA Typed ==
    ASSUME TypeOK, issued' \in {issued, issued + 1},
           NEW r \in Requests, NEW next \in Renewal', Becomes(r, next)
    PROVE  /\ request' \in [Requests -> Renewal']
           /\ request'[r] = next
           /\ \A q \in Requests \ {r} : request'[q] = request[q]
  <1>1. Renewal \subseteq Renewal'
    BY Frame DEF TypeOK
  <1>2. request \in [Requests -> Renewal']
    BY <1>1 DEF TypeOK
  <1> QED
    BY <1>2 DEF Becomes

LEMMA Stored ==
    ASSUME TypeOK, issued' \in {issued, issued + 1},
           NEW c \in Clients, NEW row \in SessionRow' \cup {None}, Stores(c, row)
    PROVE  /\ session' \in [Clients -> SessionRow' \cup {None}]
           /\ session'[c] = row
           /\ \A d \in Clients \ {c} : session'[d] = session[d]
  <1>1. SessionRow \subseteq SessionRow'
    BY Frame DEF TypeOK
  <1>2. session \in [Clients -> SessionRow' \cup {None}]
    BY <1>1 DEF TypeOK
  <1> QED
    BY <1>2 DEF Stores


\* Only r, which goes on to rotate or commit, may lock a row, and it lets go of others.
LocksFollow(r) ==
    \A c \in Clients : \/ lock'[c] = None
                       \/ lock'[c] = lock[c] /\ lock[c] # r
                       \/ /\ lock'[c] = r
                          /\ request'[r].client = c
                          /\ request'[r].pc \in {"rotate", "user"}

LEMMA LockStep ==
    ASSUME TypeOK, NEW r \in Requests,
           \A q \in Requests \ {r} : request'[q] = request[q],
           request'[r].pc # "free" => request'[r].client \in Clients,
           LocksFollow(r)
    PROVE  LocksAreHeld'
  <1>1. \A q \in Requests : request'[q].pc # "free" => request'[q].client \in Clients
    BY DEF TypeOK, LocksAreHeld
  <1>2. ASSUME NEW c \in Clients, lock'[c] # None
        PROVE  request'[lock'[c]].client = c /\ request'[lock'[c]].pc \in {"rotate", "user"}
    <2> USE DEF LocksFollow
    <2>1. CASE lock'[c] = lock[c] /\ lock[c] # r
      <3>1. lock[c] \in Requests \ {r}
        BY <1>2, <2>1 DEF TypeOK
      <3> QED
        BY <1>2, <2>1, <3>1 DEF TypeOK, LocksAreHeld
    <2>2. CASE lock'[c] = r /\ request'[r].client = c /\ request'[r].pc \in {"rotate", "user"}
      BY <2>2
    <2> QED
      BY <1>2, <2>1, <2>2
  <1> QED
    BY <1>1, <1>2 DEF LocksAreHeld

LEMMA TokenStep ==
    ASSUME TypeOK, issued' \in {issued, issued + 1},
           NEW r \in Requests, NEW next, request'[r] = next,
           \A q \in Requests \ {r} : request'[q] = request[q],
           next.client \in Browsers => next.presented \in Token',
           next.client \in Browsers /\ next.pc = "user" => next.token \in Token',
           \A c \in Browsers : held'[c] \in Token' \cup {None}
    PROVE  BrowserTokens'
  <1>1. Token \subseteq Token'
    BY Frame, IssuedIsNat DEF TypeOK
  <1> QED
    BY <1>1 DEF TypeOK, BrowserTokens

LEMMA LookUpTyped ==
    ASSUME TypeOK, NEW r \in Requests, LookUp(r)
    PROVE  /\ TypeOK'
           /\ request'[r] = [request[r] EXCEPT !.pc = IF session[request[r].client].idle THEN "expired" ELSE "touch",
                        !.sid = session[request[r].client].sid,
                        !.read = session[request[r].client].current]
           /\ \A q \in Requests \ {r} : request'[q] = request[q]
  <1> DEFINE next == [request[r] EXCEPT !.pc = IF session[request[r].client].idle THEN "expired" ELSE "touch",
                        !.sid = session[request[r].client].sid,
                        !.read = session[request[r].client].current]
  <1>0. request[r].pc # "free" /\ request[r] \in Renewal
    BY DEF LookUp, TypeOK
  <1>1. request[r].client \in Clients /\ request[r].client # None
    BY <1>0, OfClient
  <1>2. issued \in Nat /\ issued' \in {issued, issued + 1}
    BY IssuedIsNat DEF LookUp
  <1>3. next \in Renewal'
    <2> DEFINE pc == IF session[request[r].client].idle THEN "expired" ELSE "touch"
    <2>1. session[request[r].client] \in SessionRow
      BY <1>0, <1>1 DEF LookUp, TypeOK, Accepted
    <2>2. pc \in {"expired", "touch"}
      OBVIOUS
    <2>3. next = [request[r] EXCEPT !.pc = pc, !.sid = session[request[r].client].sid,
                                    !.read = session[request[r].client].current]
      OBVIOUS
    <2> HIDE DEF pc, next
    <2>4. next \in Renewal
      BY <1>0, <2>1, <2>2, <2>3 DEF Renewal, SessionRow
    <2> QED
      BY <2>4, <1>2, Frame
  <1>4. Becomes(r, next)
    BY DEF LookUp
  <1>5. /\ request' \in [Requests -> Renewal']
        /\ request'[r] = next
        /\ \A q \in Requests \ {r} : request'[q] = request[q]
    BY <1>2, <1>3, <1>4, Typed
  <1>7. session' \in [Clients -> SessionRow' \cup {None}]
    BY <1>2, Frame DEF LookUp, TypeOK
  <1>8. LocksAreHeld'
    <2>1. \A c \in Clients : lock[c] = r => c = request[r].client /\ request[r].pc \in {"rotate", "user"}
      BY NoneIsApart DEF TypeOK, LocksAreHeld
    <2>2. LocksFollow(r)
      BY <1>0, <1>1, <1>5, <2>1 DEF LocksFollow, LookUp, TypeOK, Renewal
    <2>3. request'[r].pc # "free" => request'[r].client \in Clients
      BY <1>0, <1>1, <1>5 DEF Renewal
    <2> HIDE DEF next
    <2> QED
      BY <1>5, <2>2, <2>3, LockStep
  <1>11. BrowserTokens'
    <2>1. \A c \in Browsers : held'[c] \in Token' \cup {None}
      BY <1>2, Frame DEF LookUp, TypeOK, BrowserTokens
    <2>2. next.client \in Browsers => next.presented \in Token'
      BY <1>0, <1>2, Frame DEF Renewal, TypeOK, BrowserTokens
    <2>3. next.client \in Browsers /\ next.pc = "user" => next.token \in Token'
      BY <1>0, <1>2, Frame DEF Renewal, TypeOK, BrowserTokens
    <2> HIDE DEF next
    <2> QED
      BY <1>2, <1>5, <2>1, <2>2, <2>3, TokenStep
  <1>9. held' \in [Clients -> Token' \cup {Undefined, None}]
    BY <1>2, Frame DEF LookUp, TypeOK
  <1>10. /\ issued' \in 0..MaxTokens
         /\ lock' \in [Clients -> Requests \cup {None}]
         /\ disabled' \in BOOLEAN
    BY NoneIsApart DEF LookUp, TypeOK
  <1> QED
    BY <1>5, <1>7, <1>8, <1>9, <1>10, <1>11 DEF TypeOK

LEMMA LookUpFailsTyped ==
    ASSUME TypeOK, NEW r \in Requests, LookUpFails(r)
    PROVE  /\ TypeOK'
           /\ request'[r] = [request[r] EXCEPT !.pc = "replied", !.answer = "refused"]
           /\ \A q \in Requests \ {r} : request'[q] = request[q]
  <1> DEFINE next == [request[r] EXCEPT !.pc = "replied", !.answer = "refused"]
  <1>0. request[r].pc # "free" /\ request[r] \in Renewal
    BY DEF LookUpFails, TypeOK
  <1>1. request[r].client \in Clients /\ request[r].client # None
    BY <1>0, OfClient
  <1>2. issued \in Nat /\ issued' \in {issued, issued + 1}
    BY IssuedIsNat DEF LookUpFails
  <1>3. next \in Renewal'
    <2>1. next \in Renewal
      BY <1>0, <1>1 DEF LookUpFails, TypeOK, Renewal, Answers, Token
    <2> QED
      BY <2>1, <1>2, Frame
  <1>4. Becomes(r, next)
    BY DEF LookUpFails, Ends
  <1>5. /\ request' \in [Requests -> Renewal']
        /\ request'[r] = next
        /\ \A q \in Requests \ {r} : request'[q] = request[q]
    BY <1>2, <1>3, <1>4, Typed
  <1>7. session' \in [Clients -> SessionRow' \cup {None}]
    BY <1>2, Frame DEF LookUpFails, TypeOK
  <1>8. LocksAreHeld'
    <2>1. \A c \in Clients : lock[c] = r => c = request[r].client /\ request[r].pc \in {"rotate", "user"}
      BY NoneIsApart DEF TypeOK, LocksAreHeld
    <2>2. LocksFollow(r)
      BY <1>0, <1>1, <1>5, <2>1 DEF LocksFollow, LookUpFails, Ends, TypeOK, Renewal
    <2>3. request'[r].pc # "free" => request'[r].client \in Clients
      BY <1>0, <1>1, <1>5 DEF Renewal
    <2> HIDE DEF next
    <2> QED
      BY <1>5, <2>2, <2>3, LockStep
  <1>11. BrowserTokens'
    <2>1. \A c \in Browsers : held'[c] \in Token' \cup {None}
      BY <1>2, Frame DEF LookUpFails, TypeOK, BrowserTokens
    <2>2. next.client \in Browsers => next.presented \in Token'
      BY <1>0, <1>2, Frame DEF Renewal, TypeOK, BrowserTokens
    <2>3. next.client \in Browsers /\ next.pc = "user" => next.token \in Token'
      BY <1>0, <1>2, Frame DEF Renewal, TypeOK, BrowserTokens
    <2> HIDE DEF next
    <2> QED
      BY <1>2, <1>5, <2>1, <2>2, <2>3, TokenStep
  <1>9. held' \in [Clients -> Token' \cup {Undefined, None}]
    BY <1>2, Frame DEF LookUpFails, TypeOK
  <1>10. /\ issued' \in 0..MaxTokens
         /\ lock' \in [Clients -> Requests \cup {None}]
         /\ disabled' \in BOOLEAN
    BY NoneIsApart DEF LookUpFails, Ends, TypeOK
  <1> QED
    BY <1>5, <1>7, <1>8, <1>9, <1>10, <1>11 DEF TypeOK

LEMMA ExpireTyped ==
    ASSUME TypeOK, NEW r \in Requests, Expire(r)
    PROVE  /\ TypeOK'
           /\ request'[r] = [request[r] EXCEPT !.pc = "replied", !.answer = "refused"]
           /\ \A q \in Requests \ {r} : request'[q] = request[q]
           /\ session'[request[r].client] = IF Row(r) THEN None ELSE session[request[r].client]
           /\ \A d \in Clients \ {request[r].client} : session'[d] = session[d]
  <1> DEFINE next == [request[r] EXCEPT !.pc = "replied", !.answer = "refused"]
  <1> DEFINE row == IF Row(r) THEN None ELSE session[request[r].client]
  <1>0. request[r].pc # "free" /\ request[r] \in Renewal
    BY DEF Expire, TypeOK
  <1>1. request[r].client \in Clients /\ request[r].client # None
    BY <1>0, OfClient
  <1>2. issued \in Nat /\ issued' \in {issued, issued + 1}
    BY IssuedIsNat DEF Expire
  <1>3. next \in Renewal'
    <2>1. next \in Renewal
      BY <1>0, <1>1 DEF Expire, TypeOK, Renewal, Answers, Token
    <2> QED
      BY <2>1, <1>2, Frame
  <1>4. Becomes(r, next)
    BY DEF Expire, Ends
  <1>5. /\ request' \in [Requests -> Renewal']
        /\ request'[r] = next
        /\ \A q \in Requests \ {r} : request'[q] = request[q]
    BY <1>2, <1>3, <1>4, Typed
  <1>6. row \in SessionRow' \cup {None}
    <2>1. session[request[r].client] \in SessionRow \cup {None}
      BY <1>1 DEF TypeOK
    <2> QED
      BY <2>1, <1>2, Frame
  <1>7. /\ session' \in [Clients -> SessionRow' \cup {None}]
        /\ session'[request[r].client] = row
        /\ \A d \in Clients \ {request[r].client} : session'[d] = session[d]
    <2>1. Stores(request[r].client, row)
      BY DEF Expire
    <2> QED
      BY <2>1, <1>1, <1>2, <1>6, Stored
  <1>8. LocksAreHeld'
    <2>1. \A c \in Clients : lock[c] = r => c = request[r].client /\ request[r].pc \in {"rotate", "user"}
      BY NoneIsApart DEF TypeOK, LocksAreHeld
    <2>2. LocksFollow(r)
      BY <1>0, <1>1, <1>5, <2>1 DEF LocksFollow, Expire, Ends, TypeOK, Renewal
    <2>3. request'[r].pc # "free" => request'[r].client \in Clients
      BY <1>0, <1>1, <1>5 DEF Renewal
    <2> HIDE DEF next
    <2> QED
      BY <1>5, <2>2, <2>3, LockStep
  <1>11. BrowserTokens'
    <2>1. \A c \in Browsers : held'[c] \in Token' \cup {None}
      BY <1>2, Frame DEF Expire, TypeOK, BrowserTokens
    <2>2. next.client \in Browsers => next.presented \in Token'
      BY <1>0, <1>2, Frame DEF Renewal, TypeOK, BrowserTokens
    <2>3. next.client \in Browsers /\ next.pc = "user" => next.token \in Token'
      BY <1>0, <1>2, Frame DEF Renewal, TypeOK, BrowserTokens
    <2> HIDE DEF next
    <2> QED
      BY <1>2, <1>5, <2>1, <2>2, <2>3, TokenStep
  <1>9. held' \in [Clients -> Token' \cup {Undefined, None}]
    BY <1>2, Frame DEF Expire, TypeOK
  <1>10. /\ issued' \in 0..MaxTokens
         /\ lock' \in [Clients -> Requests \cup {None}]
         /\ disabled' \in BOOLEAN
    BY NoneIsApart DEF Expire, Ends, TypeOK
  <1> QED
    BY <1>5, <1>7, <1>8, <1>9, <1>10, <1>11 DEF TypeOK

LEMMA TouchTyped ==
    ASSUME TypeOK, NEW r \in Requests, Touch(r)
    PROVE  /\ TypeOK'
           /\ request'[r] = Moved(r, IF Rotates(request[r].client) THEN "rotate" ELSE "user")
           /\ \A q \in Requests \ {r} : request'[q] = request[q]
  <1> DEFINE next == Moved(r, IF Rotates(request[r].client) THEN "rotate" ELSE "user")
  <1>0. request[r].pc # "free" /\ request[r] \in Renewal
    BY DEF Touch, Rotates, TypeOK
  <1>1. request[r].client \in Clients /\ request[r].client # None
    BY <1>0, OfClient
  <1>2. issued \in Nat /\ issued' \in {issued, issued + 1}
    BY IssuedIsNat DEF Touch, Rotates
  <1>3. next \in Renewal'
    <2>1. next \in Renewal
      BY <1>0, <1>1 DEF Touch, Rotates, Moved, TypeOK, Renewal, Answers, Token
    <2> QED
      BY <2>1, <1>2, Frame
  <1>4. Becomes(r, next)
    BY DEF Touch, Rotates
  <1>5. /\ request' \in [Requests -> Renewal']
        /\ request'[r] = next
        /\ \A q \in Requests \ {r} : request'[q] = request[q]
    BY <1>2, <1>3, <1>4, Typed
  <1>7. session' \in [Clients -> SessionRow' \cup {None}]
    BY <1>2, Frame DEF Touch, Rotates, TypeOK
  <1>8. LocksAreHeld'
    <2>1. \A c \in Clients : lock[c] = r => c = request[r].client /\ request[r].pc \in {"rotate", "user"}
      BY NoneIsApart DEF TypeOK, LocksAreHeld
    <2>2. LocksFollow(r)
      BY <1>0, <1>1, <1>5, <2>1 DEF LocksFollow, Touch, Rotates, TypeOK, Renewal, Moved
    <2>3. request'[r].pc # "free" => request'[r].client \in Clients
      BY <1>0, <1>1, <1>5 DEF Renewal, Moved
    <2> HIDE DEF next
    <2> QED
      BY <1>5, <2>2, <2>3, LockStep
  <1>11. BrowserTokens'
    <2>1. \A c \in Browsers : held'[c] \in Token' \cup {None}
      BY <1>2, Frame DEF Touch, Rotates, TypeOK, BrowserTokens
    <2>2. next.client \in Browsers => next.presented \in Token'
      BY <1>0, <1>2, Frame DEF Renewal, TypeOK, BrowserTokens, Moved
    <2>3. next.client \in Browsers /\ next.pc = "user" => next.token \in Token'
      BY <1>0 DEF Renewal, Moved, Rotates
    <2> HIDE DEF next
    <2> QED
      BY <1>2, <1>5, <2>1, <2>2, <2>3, TokenStep
  <1>9. held' \in [Clients -> Token' \cup {Undefined, None}]
    BY <1>2, Frame DEF Touch, Rotates, TypeOK
  <1>10. /\ issued' \in 0..MaxTokens
         /\ lock' \in [Clients -> Requests \cup {None}]
         /\ disabled' \in BOOLEAN
    BY NoneIsApart DEF Touch, Rotates, TypeOK
  <1> QED
    BY <1>5, <1>7, <1>8, <1>9, <1>10, <1>11 DEF TypeOK

LEMMA RotateTyped ==
    ASSUME TypeOK, NEW r \in Requests, Rotate(r)
    PROVE  /\ TypeOK'
           /\ request'[r] = [request[r] EXCEPT !.pc = "user", !.token = issued + 1]
           /\ \A q \in Requests \ {r} : request'[q] = request[q]
  <1> DEFINE next == [request[r] EXCEPT !.pc = "user", !.token = issued + 1]
  <1>0. request[r].pc # "free" /\ request[r] \in Renewal
    BY DEF Rotate, TypeOK
  <1>1. request[r].client \in Clients /\ request[r].client # None
    BY <1>0, OfClient
  <1>2. issued \in Nat /\ issued' \in {issued, issued + 1}
    BY IssuedIsNat DEF Rotate
  <1>3. next \in Renewal'
    <2>1. request[r] \in Renewal'
      BY <1>0, <1>2, Frame
    <2>2. issued + 1 \in Token'
      BY NewToken, <1>2 DEF Rotate, Token
    <2> QED
      BY <2>1, <2>2 DEF Renewal
  <1>4. Becomes(r, next)
    BY DEF Rotate
  <1>5. /\ request' \in [Requests -> Renewal']
        /\ request'[r] = next
        /\ \A q \in Requests \ {r} : request'[q] = request[q]
    BY <1>2, <1>3, <1>4, Typed
  <1>7. session' \in [Clients -> SessionRow' \cup {None}]
    BY <1>2, Frame DEF Rotate, TypeOK
  <1>8. LocksAreHeld'
    <2>1. \A c \in Clients : lock[c] = r => c = request[r].client /\ request[r].pc \in {"rotate", "user"}
      BY NoneIsApart DEF TypeOK, LocksAreHeld
    <2>2. LocksFollow(r)
      BY <1>0, <1>1, <1>5, <2>1 DEF LocksFollow, Rotate, TypeOK, Renewal
    <2>3. request'[r].pc # "free" => request'[r].client \in Clients
      BY <1>0, <1>1, <1>5 DEF Renewal
    <2> HIDE DEF next
    <2> QED
      BY <1>5, <2>2, <2>3, LockStep
  <1>11. BrowserTokens'
    <2>1. \A c \in Browsers : held'[c] \in Token' \cup {None}
      BY <1>2, Frame DEF Rotate, TypeOK, BrowserTokens
    <2>2. next.client \in Browsers => next.presented \in Token'
      BY <1>0, <1>2, Frame DEF Renewal, TypeOK, BrowserTokens
    <2>3. next.client \in Browsers /\ next.pc = "user" => next.token \in Token'
      BY <1>0, NewToken DEF Rotate, Renewal
    <2> HIDE DEF next
    <2> QED
      BY <1>2, <1>5, <2>1, <2>2, <2>3, TokenStep
  <1>9. held' \in [Clients -> Token' \cup {Undefined, None}]
    BY <1>2, Frame DEF Rotate, TypeOK
  <1>10. /\ issued' \in 0..MaxTokens
         /\ lock' \in [Clients -> Requests \cup {None}]
         /\ disabled' \in BOOLEAN
    BY NewToken, NoneIsApart DEF Rotate, TypeOK
  <1> QED
    BY <1>5, <1>7, <1>8, <1>9, <1>10, <1>11 DEF TypeOK

LEMMA RotateFailsTyped ==
    ASSUME TypeOK, NEW r \in Requests, RotateFails(r)
    PROVE  /\ TypeOK'
           /\ request'[r] = [request[r] EXCEPT !.pc = "replied", !.answer = "refused"]
           /\ \A q \in Requests \ {r} : request'[q] = request[q]
  <1> DEFINE next == [request[r] EXCEPT !.pc = "replied", !.answer = "refused"]
  <1>0. request[r].pc # "free" /\ request[r] \in Renewal
    BY DEF RotateFails, TypeOK
  <1>1. request[r].client \in Clients /\ request[r].client # None
    BY <1>0, OfClient
  <1>2. issued \in Nat /\ issued' \in {issued, issued + 1}
    BY IssuedIsNat DEF RotateFails
  <1>3. next \in Renewal'
    <2>1. next \in Renewal
      BY <1>0, <1>1 DEF RotateFails, TypeOK, Renewal, Answers, Token
    <2> QED
      BY <2>1, <1>2, Frame
  <1>4. Becomes(r, next)
    BY DEF RotateFails, Ends
  <1>5. /\ request' \in [Requests -> Renewal']
        /\ request'[r] = next
        /\ \A q \in Requests \ {r} : request'[q] = request[q]
    BY <1>2, <1>3, <1>4, Typed
  <1>7. session' \in [Clients -> SessionRow' \cup {None}]
    BY <1>2, Frame DEF RotateFails, TypeOK
  <1>8. LocksAreHeld'
    <2>1. \A c \in Clients : lock[c] = r => c = request[r].client /\ request[r].pc \in {"rotate", "user"}
      BY NoneIsApart DEF TypeOK, LocksAreHeld
    <2>2. LocksFollow(r)
      BY <1>0, <1>1, <1>5, <2>1 DEF LocksFollow, RotateFails, Ends, TypeOK, Renewal
    <2>3. request'[r].pc # "free" => request'[r].client \in Clients
      BY <1>0, <1>1, <1>5 DEF Renewal
    <2> HIDE DEF next
    <2> QED
      BY <1>5, <2>2, <2>3, LockStep
  <1>11. BrowserTokens'
    <2>1. \A c \in Browsers : held'[c] \in Token' \cup {None}
      BY <1>2, Frame DEF RotateFails, TypeOK, BrowserTokens
    <2>2. next.client \in Browsers => next.presented \in Token'
      BY <1>0, <1>2, Frame DEF Renewal, TypeOK, BrowserTokens
    <2>3. next.client \in Browsers /\ next.pc = "user" => next.token \in Token'
      BY <1>0, <1>2, Frame DEF Renewal, TypeOK, BrowserTokens
    <2> HIDE DEF next
    <2> QED
      BY <1>2, <1>5, <2>1, <2>2, <2>3, TokenStep
  <1>9. held' \in [Clients -> Token' \cup {Undefined, None}]
    BY <1>2, Frame DEF RotateFails, TypeOK
  <1>10. /\ issued' \in 0..MaxTokens
         /\ lock' \in [Clients -> Requests \cup {None}]
         /\ disabled' \in BOOLEAN
    BY NoneIsApart DEF RotateFails, Ends, TypeOK
  <1> QED
    BY <1>5, <1>7, <1>8, <1>9, <1>10, <1>11 DEF TypeOK

LEMMA UserRefusedTyped ==
    ASSUME TypeOK, NEW r \in Requests, UserRefused(r)
    PROVE  /\ TypeOK'
           /\ request'[r] = [request[r] EXCEPT !.pc = "replied", !.answer = "disabled"]
           /\ \A q \in Requests \ {r} : request'[q] = request[q]
           /\ session'[request[r].client] = IF Row(r) THEN None ELSE session[request[r].client]
           /\ \A d \in Clients \ {request[r].client} : session'[d] = session[d]
  <1> DEFINE next == [request[r] EXCEPT !.pc = "replied", !.answer = "disabled"]
  <1> DEFINE row == IF Row(r) THEN None ELSE session[request[r].client]
  <1>0. request[r].pc # "free" /\ request[r] \in Renewal
    BY DEF UserRefused, TypeOK
  <1>1. request[r].client \in Clients /\ request[r].client # None
    BY <1>0, OfClient
  <1>2. issued \in Nat /\ issued' \in {issued, issued + 1}
    BY IssuedIsNat DEF UserRefused
  <1>3. next \in Renewal'
    <2>1. next \in Renewal
      BY <1>0, <1>1 DEF UserRefused, TypeOK, Renewal, Answers, Token
    <2> QED
      BY <2>1, <1>2, Frame
  <1>4. Becomes(r, next)
    BY DEF UserRefused, Ends
  <1>5. /\ request' \in [Requests -> Renewal']
        /\ request'[r] = next
        /\ \A q \in Requests \ {r} : request'[q] = request[q]
    BY <1>2, <1>3, <1>4, Typed
  <1>6. row \in SessionRow' \cup {None}
    <2>1. session[request[r].client] \in SessionRow \cup {None}
      BY <1>1 DEF TypeOK
    <2> QED
      BY <2>1, <1>2, Frame
  <1>7. /\ session' \in [Clients -> SessionRow' \cup {None}]
        /\ session'[request[r].client] = row
        /\ \A d \in Clients \ {request[r].client} : session'[d] = session[d]
    <2>1. Stores(request[r].client, row)
      BY DEF UserRefused
    <2> QED
      BY <2>1, <1>1, <1>2, <1>6, Stored
  <1>8. LocksAreHeld'
    <2>1. \A c \in Clients : lock[c] = r => c = request[r].client /\ request[r].pc \in {"rotate", "user"}
      BY NoneIsApart DEF TypeOK, LocksAreHeld
    <2>2. LocksFollow(r)
      BY <1>0, <1>1, <1>5, <2>1 DEF LocksFollow, UserRefused, Ends, TypeOK, Renewal
    <2>3. request'[r].pc # "free" => request'[r].client \in Clients
      BY <1>0, <1>1, <1>5 DEF Renewal
    <2> HIDE DEF next
    <2> QED
      BY <1>5, <2>2, <2>3, LockStep
  <1>11. BrowserTokens'
    <2>1. \A c \in Browsers : held'[c] \in Token' \cup {None}
      BY <1>2, Frame DEF UserRefused, TypeOK, BrowserTokens
    <2>2. next.client \in Browsers => next.presented \in Token'
      BY <1>0, <1>2, Frame DEF Renewal, TypeOK, BrowserTokens
    <2>3. next.client \in Browsers /\ next.pc = "user" => next.token \in Token'
      BY <1>0, <1>2, Frame DEF Renewal, TypeOK, BrowserTokens
    <2> HIDE DEF next
    <2> QED
      BY <1>2, <1>5, <2>1, <2>2, <2>3, TokenStep
  <1>9. held' \in [Clients -> Token' \cup {Undefined, None}]
    BY <1>2, Frame DEF UserRefused, TypeOK
  <1>10. /\ issued' \in 0..MaxTokens
         /\ lock' \in [Clients -> Requests \cup {None}]
         /\ disabled' \in BOOLEAN
    BY NoneIsApart DEF UserRefused, Ends, TypeOK
  <1> QED
    BY <1>5, <1>7, <1>8, <1>9, <1>10, <1>11 DEF TypeOK

LEMMA CommitTyped ==
    ASSUME TypeOK, NEW r \in Requests, Commit(r)
    PROVE  /\ TypeOK'
           /\ request'[r] = [request[r] EXCEPT !.pc = "replied", !.answer = "renewed"]
           /\ \A q \in Requests \ {r} : request'[q] = request[q]
           /\ session'[request[r].client] = IF Row(r) THEN Renewed(r) ELSE session[request[r].client]
           /\ \A d \in Clients \ {request[r].client} : session'[d] = session[d]
  <1> DEFINE next == [request[r] EXCEPT !.pc = "replied", !.answer = "renewed"]
  <1> DEFINE row == IF Row(r) THEN Renewed(r) ELSE session[request[r].client]
  <1>0. request[r].pc # "free" /\ request[r] \in Renewal
    BY DEF Commit, TypeOK
  <1>1. request[r].client \in Clients /\ request[r].client # None
    BY <1>0, OfClient
  <1>2. issued \in Nat /\ issued' \in {issued, issued + 1}
    BY IssuedIsNat DEF Commit
  <1>3. next \in Renewal'
    <2>1. next \in Renewal
      BY <1>0, <1>1 DEF Commit, TypeOK, Renewal, Answers, Token
    <2> QED
      BY <2>1, <1>2, Frame
  <1>4. Becomes(r, next)
    BY DEF Commit, Ends
  <1>5. /\ request' \in [Requests -> Renewal']
        /\ request'[r] = next
        /\ \A q \in Requests \ {r} : request'[q] = request[q]
    BY <1>2, <1>3, <1>4, Typed
  <1>6. row \in SessionRow' \cup {None}
    <2>1. session[request[r].client] \in SessionRow \cup {None}
      BY <1>1 DEF TypeOK
    <2>2. Row(r) => session[request[r].client] \in SessionRow
      BY <2>1 DEF Row
    <2>3. request[r].client \in Browsers => request[r].token \in Token /\ request[r].presented \in Token
      BY DEF Commit, TypeOK, BrowserTokens
    <2>4. Row(r) => Renewed(r) \in SessionRow
      BY <2>2, <2>3 DEF Renewed, Rotates, Rotated, SessionRow
    <2>5. row \in SessionRow \cup {None}
      <3>1. CASE Row(r)
        BY <2>4, <3>1
      <3>2. CASE ~ Row(r)
        BY <2>1, <3>2
      <3> QED
        BY <3>1, <3>2
    <2> HIDE DEF row
    <2> QED
      BY <2>5, <1>2, Frame
  <1>7. /\ session' \in [Clients -> SessionRow' \cup {None}]
        /\ session'[request[r].client] = row
        /\ \A d \in Clients \ {request[r].client} : session'[d] = session[d]
    <2>1. Stores(request[r].client, row)
      BY DEF Commit
    <2> QED
      BY <2>1, <1>1, <1>2, <1>6, Stored
  <1>8. LocksAreHeld'
    <2>1. \A c \in Clients : lock[c] = r => c = request[r].client /\ request[r].pc \in {"rotate", "user"}
      BY NoneIsApart DEF TypeOK, LocksAreHeld
    <2>2. LocksFollow(r)
      BY <1>0, <1>1, <1>5, <2>1 DEF LocksFollow, Commit, Ends, TypeOK, Renewal
    <2>3. request'[r].pc # "free" => request'[r].client \in Clients
      BY <1>0, <1>1, <1>5 DEF Renewal
    <2> HIDE DEF next
    <2> QED
      BY <1>5, <2>2, <2>3, LockStep
  <1>11. BrowserTokens'
    <2>1. \A c \in Browsers : held'[c] \in Token' \cup {None}
      BY <1>2, Frame DEF Commit, TypeOK, BrowserTokens
    <2>2. next.client \in Browsers => next.presented \in Token'
      BY <1>0, <1>2, Frame DEF Renewal, TypeOK, BrowserTokens
    <2>3. next.client \in Browsers /\ next.pc = "user" => next.token \in Token'
      BY <1>0, <1>2, Frame DEF Renewal, TypeOK, BrowserTokens
    <2> HIDE DEF next
    <2> QED
      BY <1>2, <1>5, <2>1, <2>2, <2>3, TokenStep
  <1>9. held' \in [Clients -> Token' \cup {Undefined, None}]
    BY <1>2, Frame DEF Commit, TypeOK
  <1>10. /\ issued' \in 0..MaxTokens
         /\ lock' \in [Clients -> Requests \cup {None}]
         /\ disabled' \in BOOLEAN
    BY NoneIsApart DEF Commit, Ends, TypeOK
  <1> QED
    BY <1>5, <1>7, <1>8, <1>9, <1>10, <1>11 DEF TypeOK

LEMMA FailTyped ==
    ASSUME TypeOK, NEW r \in Requests, Fail(r)
    PROVE  /\ TypeOK'
           /\ request'[r] = [request[r] EXCEPT !.pc = "replied", !.answer = "failed"]
           /\ \A q \in Requests \ {r} : request'[q] = request[q]
  <1> DEFINE next == [request[r] EXCEPT !.pc = "replied", !.answer = "failed"]
  <1>0. request[r].pc # "free" /\ request[r] \in Renewal
    BY DEF Fail, TypeOK
  <1>1. request[r].client \in Clients /\ request[r].client # None
    BY <1>0, OfClient
  <1>2. issued \in Nat /\ issued' \in {issued, issued + 1}
    BY IssuedIsNat DEF Fail
  <1>3. next \in Renewal'
    <2>1. next \in Renewal
      BY <1>0, <1>1 DEF Fail, TypeOK, Renewal, Answers, Token
    <2> QED
      BY <2>1, <1>2, Frame
  <1>4. Becomes(r, next)
    BY DEF Fail, Ends
  <1>5. /\ request' \in [Requests -> Renewal']
        /\ request'[r] = next
        /\ \A q \in Requests \ {r} : request'[q] = request[q]
    BY <1>2, <1>3, <1>4, Typed
  <1>7. session' \in [Clients -> SessionRow' \cup {None}]
    BY <1>2, Frame DEF Fail, TypeOK
  <1>8. LocksAreHeld'
    <2>1. \A c \in Clients : lock[c] = r => c = request[r].client /\ request[r].pc \in {"rotate", "user"}
      BY NoneIsApart DEF TypeOK, LocksAreHeld
    <2>2. LocksFollow(r)
      BY <1>0, <1>1, <1>5, <2>1 DEF LocksFollow, Fail, Ends, TypeOK, Renewal
    <2>3. request'[r].pc # "free" => request'[r].client \in Clients
      BY <1>0, <1>1, <1>5 DEF Renewal
    <2> HIDE DEF next
    <2> QED
      BY <1>5, <2>2, <2>3, LockStep
  <1>11. BrowserTokens'
    <2>1. \A c \in Browsers : held'[c] \in Token' \cup {None}
      BY <1>2, Frame DEF Fail, TypeOK, BrowserTokens
    <2>2. next.client \in Browsers => next.presented \in Token'
      BY <1>0, <1>2, Frame DEF Renewal, TypeOK, BrowserTokens
    <2>3. next.client \in Browsers /\ next.pc = "user" => next.token \in Token'
      BY <1>0, <1>2, Frame DEF Renewal, TypeOK, BrowserTokens
    <2> HIDE DEF next
    <2> QED
      BY <1>2, <1>5, <2>1, <2>2, <2>3, TokenStep
  <1>9. held' \in [Clients -> Token' \cup {Undefined, None}]
    BY <1>2, Frame DEF Fail, TypeOK
  <1>10. /\ issued' \in 0..MaxTokens
         /\ lock' \in [Clients -> Requests \cup {None}]
         /\ disabled' \in BOOLEAN
    BY NoneIsApart DEF Fail, Ends, TypeOK
  <1> QED
    BY <1>5, <1>7, <1>8, <1>9, <1>10, <1>11 DEF TypeOK

LEMMA DeliverTyped ==
    ASSUME TypeOK, NEW r \in Requests, Deliver(r)
    PROVE  /\ TypeOK'
           /\ request'[r] = Free
           /\ \A q \in Requests \ {r} : request'[q] = request[q]
  <1> DEFINE next == Free
  <1>0. request[r].pc # "free" /\ request[r] \in Renewal
    BY DEF Deliver, TypeOK
  <1>1. request[r].client \in Clients /\ request[r].client # None
    BY <1>0, OfClient
  <1>2. issued \in Nat /\ issued' \in {issued, issued + 1}
    BY IssuedIsNat DEF Deliver
  <1>3. next \in Renewal'
    <2>1. next \in Renewal
      BY <1>0, <1>1 DEF Deliver, Free, TypeOK, Renewal, Answers, Token, Undefined
    <2> QED
      BY <2>1, <1>2, Frame
  <1>4. Becomes(r, next)
    BY DEF Deliver
  <1>5. /\ request' \in [Requests -> Renewal']
        /\ request'[r] = next
        /\ \A q \in Requests \ {r} : request'[q] = request[q]
    BY <1>2, <1>3, <1>4, Typed
  <1>7. session' \in [Clients -> SessionRow' \cup {None}]
    BY <1>2, Frame DEF Deliver, TypeOK
  <1>8. LocksAreHeld'
    <2>1. \A c \in Clients : lock[c] = r => c = request[r].client /\ request[r].pc \in {"rotate", "user"}
      BY NoneIsApart DEF TypeOK, LocksAreHeld
    <2>2. LocksFollow(r)
      BY <1>0, <1>1, <1>5, <2>1 DEF LocksFollow, Deliver, TypeOK, Renewal, Free
    <2>3. request'[r].pc # "free" => request'[r].client \in Clients
      BY <1>5 DEF Free
    <2> HIDE DEF next
    <2> QED
      BY <1>5, <2>2, <2>3, LockStep
  <1>11. BrowserTokens'
    <2>1. \A c \in Browsers : held'[c] \in Token' \cup {None}
      <3>1. request[r].client \in Browsers => Keeps(r) \in Token \cup {None}
        BY <1>0, KindsAssumption DEF Keeps, BrowserTokens, TypeOK, Renewal
      <3>2. held' = [held EXCEPT ![request[r].client] = Keeps(r)]
        BY DEF Deliver
      <3> QED
        BY <1>1, <1>2, <3>1, <3>2, Frame DEF TypeOK, BrowserTokens, Clients
    <2>2. next.client \in Browsers => next.presented \in Token'
      BY NoneIsApart DEF Free, Clients
    <2>3. next.client \in Browsers /\ next.pc = "user" => next.token \in Token'
      BY NoneIsApart DEF Free, Clients
    <2> HIDE DEF next
    <2> QED
      BY <1>2, <1>5, <2>1, <2>2, <2>3, TokenStep
  <1>9. held' \in [Clients -> Token' \cup {Undefined, None}]
    BY <1>0, <1>1, <1>2, Frame DEF Deliver, Keeps, TypeOK, Renewal, Undefined
  <1>10. /\ issued' \in 0..MaxTokens
         /\ lock' \in [Clients -> Requests \cup {None}]
         /\ disabled' \in BOOLEAN
    BY NoneIsApart DEF Deliver, TypeOK
  <1> QED
    BY <1>5, <1>7, <1>8, <1>9, <1>10, <1>11 DEF TypeOK

LEMMA LoseTyped ==
    ASSUME TypeOK, NEW r \in Requests, Lose(r)
    PROVE  /\ TypeOK'
           /\ request'[r] = Free
           /\ \A q \in Requests \ {r} : request'[q] = request[q]
  <1> DEFINE next == Free
  <1>0. request[r].pc # "free" /\ request[r] \in Renewal
    BY DEF Lose, TypeOK
  <1>1. request[r].client \in Clients /\ request[r].client # None
    BY <1>0, OfClient
  <1>2. issued \in Nat /\ issued' \in {issued, issued + 1}
    BY IssuedIsNat DEF Lose
  <1>3. next \in Renewal'
    <2>1. next \in Renewal
      BY <1>0, <1>1 DEF Lose, Free, TypeOK, Renewal, Answers, Token, Undefined
    <2> QED
      BY <2>1, <1>2, Frame
  <1>4. Becomes(r, next)
    BY DEF Lose
  <1>5. /\ request' \in [Requests -> Renewal']
        /\ request'[r] = next
        /\ \A q \in Requests \ {r} : request'[q] = request[q]
    BY <1>2, <1>3, <1>4, Typed
  <1>7. session' \in [Clients -> SessionRow' \cup {None}]
    BY <1>2, Frame DEF Lose, TypeOK
  <1>8. LocksAreHeld'
    <2>1. \A c \in Clients : lock[c] = r => c = request[r].client /\ request[r].pc \in {"rotate", "user"}
      BY NoneIsApart DEF TypeOK, LocksAreHeld
    <2>2. LocksFollow(r)
      BY <1>0, <1>1, <1>5, <2>1 DEF LocksFollow, Lose, TypeOK, Renewal, Free
    <2>3. request'[r].pc # "free" => request'[r].client \in Clients
      BY <1>5 DEF Free
    <2> HIDE DEF next
    <2> QED
      BY <1>5, <2>2, <2>3, LockStep
  <1>11. BrowserTokens'
    <2>1. \A c \in Browsers : held'[c] \in Token' \cup {None}
      BY <1>2, Frame DEF Lose, TypeOK, BrowserTokens
    <2>2. next.client \in Browsers => next.presented \in Token'
      BY NoneIsApart DEF Free, Clients
    <2>3. next.client \in Browsers /\ next.pc = "user" => next.token \in Token'
      BY NoneIsApart DEF Free, Clients
    <2> HIDE DEF next
    <2> QED
      BY <1>2, <1>5, <2>1, <2>2, <2>3, TokenStep
  <1>9. held' \in [Clients -> Token' \cup {Undefined, None}]
    BY <1>2, Frame DEF Lose, TypeOK
  <1>10. /\ issued' \in 0..MaxTokens
         /\ lock' \in [Clients -> Requests \cup {None}]
         /\ disabled' \in BOOLEAN
    BY NoneIsApart DEF Lose, TypeOK
  <1> QED
    BY <1>5, <1>7, <1>8, <1>9, <1>10, <1>11 DEF TypeOK


LEMMA SendTyped ==
    ASSUME TypeOK, NEW c \in Clients, NEW r \in Requests, Send(c, r)
    PROVE  /\ TypeOK'
           /\ request'[r] = [Free EXCEPT !.pc = "look up", !.client = c, !.presented = held[c]]
           /\ \A q \in Requests \ {r} : request'[q] = request[q]
  <1> DEFINE next == [Free EXCEPT !.pc = "look up", !.client = c, !.presented = held[c]]
  <1>1. issued \in Nat /\ issued' \in {issued, issued + 1}
    BY IssuedIsNat, MaxTokensIsNat DEF Send, TypeOK
  <1>2. next \in Renewal'
    <2>1. held[c] \in Token \cup {Undefined, None}
      BY DEF TypeOK
    <2>2. next \in Renewal
      BY <2>1 DEF Free, Renewal
    <2> HIDE DEF next
    <2> QED
      BY <2>2, <1>1, Frame
  <1>3. /\ request' \in [Requests -> Renewal']
        /\ request'[r] = next
        /\ \A q \in Requests \ {r} : request'[q] = request[q]
    <2>1. Becomes(r, next)
      BY DEF Send
    <2> HIDE DEF next
    <2> QED
      BY <2>1, <1>1, <1>2, Typed
  <1>4. LocksAreHeld'
    <2>1. LocksFollow(r)
      BY DEF LocksFollow, Send, Free, TypeOK, LocksAreHeld
    <2>2. request'[r].client \in Clients
      BY <1>3 DEF Free
    <2> HIDE DEF next
    <2> QED
      BY <1>3, <2>1, <2>2, LockStep
  <1>5. BrowserTokens'
    <2>1. \A d \in Browsers : held'[d] \in Token' \cup {None}
      BY <1>1, Frame DEF Send, TypeOK, BrowserTokens
    <2>2. next.client = c /\ next.presented = held[c] /\ next.pc = "look up"
      BY DEF Free
    <2>3. c \in Browsers => held[c] \in Token'
      BY <1>1, Frame DEF Send, TypeOK, BrowserTokens
    <2> HIDE DEF next
    <2> QED
      BY <1>1, <1>3, <2>1, <2>2, <2>3, TokenStep
  <1> QED
    BY <1>1, <1>3, <1>4, <1>5, Frame DEF Send, TypeOK

\* A step that leaves the renewals and the locks as they are.
LEMMA ElsewhereTyped ==
    ASSUME TypeOK, issued' \in 0..MaxTokens, issued' \in {issued, issued + 1},
           session' \in [Clients -> SessionRow' \cup {None}],
           held' \in [Clients -> Token' \cup {Undefined, None}],
           \A c \in Browsers : held'[c] \in Token' \cup {None},
           disabled' \in BOOLEAN, UNCHANGED <<request, lock>>
    PROVE  TypeOK'
  <1>1. Token \subseteq Token' /\ Renewal \subseteq Renewal'
    BY Frame, IssuedIsNat DEF TypeOK
  <1>2. request' \in [Requests -> Renewal']
    BY <1>1 DEF TypeOK
  <1>3. LocksAreHeld'
    BY DEF TypeOK, LocksAreHeld
  <1>4. BrowserTokens'
    BY <1>1 DEF TypeOK, BrowserTokens
  <1> QED
    BY <1>2, <1>3, <1>4 DEF TypeOK

LEMMA SignInTyped ==
    ASSUME TypeOK, NEW c \in Clients, SignIn(c)
    PROVE  /\ TypeOK'
           /\ session'[c] = [sid |-> issued + 1, current |-> issued + 1, previous |-> None, idle |-> FALSE]
           /\ \A d \in Clients \ {c} : session'[d] = session[d]
  <1> DEFINE row == [sid |-> issued + 1, current |-> issued + 1, previous |-> None, idle |-> FALSE]
  <1>1. issued \in Nat /\ issued' \in {issued, issued + 1} /\ issued' \in 0..MaxTokens
    BY IssuedIsNat, NewToken DEF SignIn, TypeOK
  <1>2. row \in SessionRow' \cup {None}
    BY NewToken DEF SignIn, SessionRow
  <1>3. /\ session' \in [Clients -> SessionRow' \cup {None}]
        /\ session'[c] = row
        /\ \A d \in Clients \ {c} : session'[d] = session[d]
    <2>1. Stores(c, row)
      BY DEF SignIn
    <2> HIDE DEF row
    <2> QED
      BY <2>1, <1>1, <1>2, Stored
  <1>4. /\ held' \in [Clients -> Token' \cup {Undefined, None}]
        /\ \A d \in Browsers : held'[d] \in Token' \cup {None}
    <2>1. Token \subseteq Token' /\ issued + 1 \in Token'
      BY <1>1, Frame, NewToken DEF SignIn
    <2>2. held' = [held EXCEPT ![c] = issued + 1]
      BY DEF SignIn
    <2> QED
      BY <2>1, <2>2 DEF TypeOK, BrowserTokens, Clients
  <1>5. UNCHANGED <<request, lock>> /\ disabled' \in BOOLEAN
    BY DEF SignIn, TypeOK
  <1> QED
    BY <1>1, <1>3, <1>4, <1>5, ElsewhereTyped

LEMMA LogoutTyped ==
    ASSUME TypeOK, NEW c \in Clients, Logout(c)
    PROVE  /\ TypeOK'
           /\ session'[c] = None
           /\ \A d \in Clients \ {c} : session'[d] = session[d]
  <1> DEFINE row == None
  <1>1. issued \in Nat /\ issued' \in {issued, issued + 1} /\ issued' \in 0..MaxTokens
    BY IssuedIsNat DEF Logout, TypeOK
  <1>2. row \in SessionRow' \cup {None}
    OBVIOUS
  <1>3. /\ session' \in [Clients -> SessionRow' \cup {None}]
        /\ session'[c] = row
        /\ \A d \in Clients \ {c} : session'[d] = session[d]
    <2>1. Stores(c, row)
      BY DEF Logout
    <2> HIDE DEF row
    <2> QED
      BY <2>1, <1>1, <1>2, Stored
  <1>4. /\ held' \in [Clients -> Token' \cup {Undefined, None}]
        /\ \A d \in Browsers : held'[d] \in Token' \cup {None}
    BY <1>1, Frame DEF Logout, TypeOK, BrowserTokens, Clients
  <1>5. UNCHANGED <<request, lock>> /\ disabled' \in BOOLEAN
    BY DEF Logout, TypeOK
  <1> QED
    BY <1>1, <1>3, <1>4, <1>5, ElsewhereTyped

LEMMA RevokeTyped ==
    ASSUME TypeOK, NEW c \in Clients, Revoke(c)
    PROVE  /\ TypeOK'
           /\ session'[c] = None
           /\ \A d \in Clients \ {c} : session'[d] = session[d]
  <1> DEFINE row == None
  <1>1. issued \in Nat /\ issued' \in {issued, issued + 1} /\ issued' \in 0..MaxTokens
    BY IssuedIsNat DEF Revoke, TypeOK
  <1>2. row \in SessionRow' \cup {None}
    OBVIOUS
  <1>3. /\ session' \in [Clients -> SessionRow' \cup {None}]
        /\ session'[c] = row
        /\ \A d \in Clients \ {c} : session'[d] = session[d]
    <2>1. Stores(c, row)
      BY DEF Revoke
    <2> HIDE DEF row
    <2> QED
      BY <2>1, <1>1, <1>2, Stored
  <1>4. /\ held' \in [Clients -> Token' \cup {Undefined, None}]
        /\ \A d \in Browsers : held'[d] \in Token' \cup {None}
    BY <1>1, Frame DEF Revoke, TypeOK, BrowserTokens, Clients
  <1>5. UNCHANGED <<request, lock>> /\ disabled' \in BOOLEAN
    BY DEF Revoke, TypeOK
  <1> QED
    BY <1>1, <1>3, <1>4, <1>5, ElsewhereTyped

LEMMA FallIdleTyped ==
    ASSUME TypeOK, NEW c \in Clients, FallIdle(c)
    PROVE  /\ TypeOK'
           /\ session'[c] = [session[c] EXCEPT !.idle = TRUE]
           /\ \A d \in Clients \ {c} : session'[d] = session[d]
  <1> DEFINE row == [session[c] EXCEPT !.idle = TRUE]
  <1>1. issued \in Nat /\ issued' \in {issued, issued + 1} /\ issued' \in 0..MaxTokens
    BY IssuedIsNat DEF FallIdle, TypeOK
  <1>2. row \in SessionRow' \cup {None}
    <2>1. session[c] \in SessionRow
      BY DEF FallIdle, TypeOK
    <2>2. row \in SessionRow
      BY <2>1 DEF SessionRow
    <2> HIDE DEF row
    <2> QED
      BY <1>1, <2>2, Frame
  <1>3. /\ session' \in [Clients -> SessionRow' \cup {None}]
        /\ session'[c] = row
        /\ \A d \in Clients \ {c} : session'[d] = session[d]
    <2>1. Stores(c, row)
      BY DEF FallIdle
    <2> HIDE DEF row
    <2> QED
      BY <2>1, <1>1, <1>2, Stored
  <1>4. /\ held' \in [Clients -> Token' \cup {Undefined, None}]
        /\ \A d \in Browsers : held'[d] \in Token' \cup {None}
    BY <1>1, Frame DEF FallIdle, TypeOK, BrowserTokens, Clients
  <1>5. UNCHANGED <<request, lock>> /\ disabled' \in BOOLEAN
    BY DEF FallIdle, TypeOK
  <1> QED
    BY <1>1, <1>3, <1>4, <1>5, ElsewhereTyped

LEMMA CleanUpTyped ==
    ASSUME TypeOK, NEW c \in Clients, CleanUp(c)
    PROVE  /\ TypeOK'
           /\ session'[c] = None
           /\ \A d \in Clients \ {c} : session'[d] = session[d]
  <1> DEFINE row == None
  <1>1. issued \in Nat /\ issued' \in {issued, issued + 1} /\ issued' \in 0..MaxTokens
    BY IssuedIsNat DEF CleanUp, TypeOK
  <1>2. row \in SessionRow' \cup {None}
    OBVIOUS
  <1>3. /\ session' \in [Clients -> SessionRow' \cup {None}]
        /\ session'[c] = row
        /\ \A d \in Clients \ {c} : session'[d] = session[d]
    <2>1. Stores(c, row)
      BY DEF CleanUp
    <2> HIDE DEF row
    <2> QED
      BY <2>1, <1>1, <1>2, Stored
  <1>4. /\ held' \in [Clients -> Token' \cup {Undefined, None}]
        /\ \A d \in Browsers : held'[d] \in Token' \cup {None}
    BY <1>1, Frame DEF CleanUp, TypeOK, BrowserTokens, Clients
  <1>5. UNCHANGED <<request, lock>> /\ disabled' \in BOOLEAN
    BY DEF CleanUp, TypeOK
  <1> QED
    BY <1>1, <1>3, <1>4, <1>5, ElsewhereTyped

LEMMA RevokeAllTyped ==
    ASSUME TypeOK, RevokeAll
    PROVE  TypeOK'
  <1>1. issued' = issued /\ session' \in [Clients -> SessionRow' \cup {None}]
    BY DEF RevokeAll
  <1>2. /\ held' \in [Clients -> Token' \cup {Undefined, None}]
        /\ \A d \in Browsers : held'[d] \in Token' \cup {None}
        /\ issued' \in 0..MaxTokens /\ disabled' \in BOOLEAN
        /\ UNCHANGED <<request, lock>>
    BY DEF RevokeAll, TypeOK, BrowserTokens, Token
  <1> QED
    BY <1>1, <1>2, ElsewhereTyped

\* Nothing but the user's state, or nothing at all, changes.
LEMMA StillTyped ==
    ASSUME TypeOK, UNCHANGED <<session, held, request, lock, issued>>, disabled' \in BOOLEAN
    PROVE  TypeOK'
  <1>1. /\ session' \in [Clients -> SessionRow' \cup {None}]
        /\ held' \in [Clients -> Token' \cup {Undefined, None}]
        /\ \A d \in Browsers : held'[d] \in Token' \cup {None}
        /\ issued' \in 0..MaxTokens
    BY DEF TypeOK, BrowserTokens, Token, SessionRow
  <1> QED
    BY <1>1, ElsewhereTyped

LEMMA TypeStep == TypeOK /\ [Next]_vars => TypeOK'
  <1> SUFFICES ASSUME TypeOK, [Next]_vars PROVE TypeOK'
    OBVIOUS
  <1>1. ASSUME NEW r \in Requests, Serve(r) \/ Deliver(r) \/ Lose(r) PROVE TypeOK'
    BY <1>1, LookUpTyped, LookUpFailsTyped, ExpireTyped, TouchTyped, RotateTyped,
       RotateFailsTyped, UserRefusedTyped, CommitTyped, FailTyped, DeliverTyped, LoseTyped
       DEF Serve
  <1>2. ASSUME NEW c \in Clients, NEW r \in Requests, Send(c, r) PROVE TypeOK'
    BY <1>2, SendTyped
  <1>3. ASSUME NEW c \in Clients,
               SignIn(c) \/ Logout(c) \/ Revoke(c) \/ FallIdle(c) \/ CleanUp(c)
        PROVE  TypeOK'
    BY <1>3, SignInTyped, LogoutTyped, RevokeTyped, FallIdleTyped, CleanUpTyped
  <1>4. CASE RevokeAll
    BY <1>4, RevokeAllTyped
  <1>5. ASSUME NEW d \in BOOLEAN, SetDisabled(d) PROVE TypeOK'
    BY <1>5, StillTyped DEF SetDisabled
  <1>6. CASE UNCHANGED vars
    <2>1. disabled' \in BOOLEAN /\ UNCHANGED <<session, held, request, lock, issued>>
      BY <1>6 DEF vars, TypeOK
    <2> QED
      BY <2>1, StillTyped
  <1> QED
    BY <1>1, <1>2, <1>3, <1>4, <1>5, <1>6 DEF Next

LEMMA TypeInit == Init => TypeOK
  <1> SUFFICES ASSUME Init PROVE TypeOK
    OBVIOUS
  <1>1. issued = 0 /\ issued \in 0..MaxTokens
    BY MaxTokensIsNat DEF Init
  <1>2. Free \in Renewal
    BY DEF Free, Renewal
  <1>3. /\ session \in [Clients -> SessionRow \cup {None}]
        /\ held \in [Clients -> Token \cup {Undefined, None}]
        /\ lock \in [Clients -> Requests \cup {None}]
        /\ disabled \in BOOLEAN
    BY DEF Init
  <1>4. request \in [Requests -> Renewal]
    BY <1>2 DEF Init
  <1>5. LocksAreHeld
    BY DEF Init, LocksAreHeld, Free
  <1>6. BrowserTokens
    BY NoneIsApart DEF Init, BrowserTokens, Free, Clients
  <1> QED
    BY <1>1, <1>3, <1>4, <1>5, <1>6 DEF TypeOK

(***************************************************************************)
(* Every variable keeps its type, and a row is locked only by a renewal    *)
(* that is still to end.                                                   *)
(***************************************************************************)
THEOREM TypeCorrect == Spec => []TypeOK
  BY TypeInit, TypeStep, PTL DEF Spec

-----------------------------------------------------------------------------
(* Steps that neither issue a token nor change the tokens of a session.    *)

SameTokens(c) ==
    /\ session[c] # None /\ session'[c] # None
    /\ session'[c].sid = session[c].sid
    /\ session'[c].current = session[c].current
    /\ session'[c].previous = session[c].previous

\* The row of c is gone, and no transaction that goes on had locked it.
Gone(c) ==
    /\ session'[c] = None
    /\ session[c] # None /\ lock[c] # None => request'[lock[c]].pc = "replied"

\* The renewal is at its beginning, or ends without having replaced a token.
Begins(q) ==
    /\ request'[q].pc \in {"free", "look up"}
    /\ request'[q].sid = 0 /\ request'[q].read = 0 /\ request'[q].answer = None

Finishes(q) ==
    /\ request'[q].pc = "replied"
    /\ request'[q].client = request[q].client /\ request'[q].presented = request[q].presented
    /\ request'[q].sid = request[q].sid /\ request'[q].read = request[q].read
    /\ request'[q].client \in Browsers => request'[q].answer # "renewed"

Calm ==
    /\ \A c \in Clients : SameTokens(c) \/ Gone(c)
    /\ \A c \in Clients :
          lock'[c] = lock[c] \/ (lock[c] # None /\ request'[lock[c]].pc = "replied")
    /\ \A q \in Requests : request'[q] = request[q] \/ Begins(q) \/ Finishes(q)
    /\ issued' = issued

\* The row that a renewal has after such a step it had before.
LEMMA CalmRow ==
    ASSUME TypeOK, TypeOK', Calm, NEW r \in Requests, request'[r].client \in Clients, Row(r)'
    PROVE  /\ ~ Begins(r)
           /\ request'[r].client = request[r].client
           /\ request'[r].sid = request[r].sid
           /\ request'[r].read = request[r].read
           /\ request'[r].presented = request[r].presented
           /\ Row(r)
           /\ SameTokens(request[r].client)
  <1> DEFINE c == request'[r].client
  <1>1. session'[c] # None /\ session'[c].sid = request'[r].sid
    BY DEF Row
  <1>2. session'[c] \in SessionRow'
    BY <1>1 DEF TypeOK
  <1>3. ~ Begins(r)
    <2>1. session'[c].sid \in Token'
      BY <1>2 DEF SessionRow
    <2>2. 0 \notin Token'
      BY DEF Token
    <2> QED
      BY <1>1, <2>1, <2>2 DEF Begins
  <1>4. SameTokens(c)
    BY <1>1 DEF Calm, Gone
  <1>5. /\ request'[r].client = request[r].client
        /\ request'[r].sid = request[r].sid
        /\ request'[r].read = request[r].read
        /\ request'[r].presented = request[r].presented
    BY <1>3 DEF Calm, Finishes
  <1>6. Row(r)
    BY <1>1, <1>4, <1>5 DEF Row, SameTokens
  <1> QED
    BY <1>3, <1>4, <1>5, <1>6

LEMMA CalmStep ==
    ASSUME IInv, TypeOK', Calm
    PROVE  IInv' /\ OnlyNewTokens
  <1> USE DEF IInv
  <1>1. Found'
    <2> SUFFICES ASSUME NEW r \in Requests, request'[r].client \in Clients, Row(r)',
                        session'[request'[r].client].current = request'[r].read
                 PROVE  (request[r].presented \in Accepted(request[r].client))'
      BY DEF Found
    <2>1. /\ request'[r].client = request[r].client
          /\ request'[r].read = request[r].read
          /\ request'[r].presented = request[r].presented
          /\ Row(r)
          /\ SameTokens(request[r].client)
      BY CalmRow
    <2>2. request[r].presented \in Accepted(request[r].client)
      BY <2>1 DEF Found, SameTokens
    <2> QED
      BY <2>1, <2>2 DEF Accepted, SameTokens
  <1>2. \A q \in Requests : Rotating(q)' => request'[q] = request[q] /\ Rotating(q)
    BY DEF Calm, Rotating, Begins, Finishes
  <1>3. Fresh'
    <2> SUFFICES ASSUME NEW q \in Requests, Rotating(q)'
                 PROVE  /\ request'[q].token \in Token'
                        /\ \A r \in Requests : request'[r].read # request'[q].token
                        /\ \A r \in Requests \ {q} :
                              Rotating(r)' => request'[r].token # request'[q].token
                        /\ \A c \in Clients : session'[c] # None
                              => session'[c].current # request'[q].token
      BY DEF Fresh
    <2>1. request'[q] = request[q] /\ Rotating(q)
      BY <1>2
    <2>2. request[q].token \in Token /\ request[q].token # 0
      BY <2>1 DEF Fresh, Token
    <2>3. Token' = Token
      BY DEF Calm, Token
    <2>4. ASSUME NEW r \in Requests PROVE request'[r].read # request'[q].token
      <3>1. request[r].read # request[q].token
        BY <2>1 DEF Fresh
      <3>2. request'[r].read \in {0, request[r].read}
        BY DEF Calm, Begins, Finishes
      <3> QED
        BY <2>1, <2>2, <3>1, <3>2
    <2>5. \A r \in Requests \ {q} : Rotating(r)' => request'[r].token # request'[q].token
      BY <2>1, <1>2 DEF Fresh
    <2>6. \A c \in Clients : session'[c] # None => session'[c].current # request'[q].token
      BY <2>1 DEF Calm, Gone, SameTokens, Fresh
    <2> QED
      BY <2>1, <2>2, <2>3, <2>4, <2>5, <2>6
  <1>4. Locked'
    <2> SUFFICES ASSUME NEW r \in Requests, request'[r].pc \in {"rotate", "user"}, Row(r)'
                 PROVE  lock'[request'[r].client] = r
      BY DEF Locked
    <2>1. request'[r] = request[r]
      BY DEF Calm, Begins, Finishes
    <2>2. request[r].client \in Clients
      BY <2>1, OfClient
    <2>3. Row(r)
      BY <2>1, <2>2, CalmRow
    <2>4. lock[request[r].client] = r
      BY <2>1, <2>3 DEF Locked
    <2> QED
      BY <2>1, <2>2, <2>4 DEF Calm
  <1>5. Holds'
    <2> SUFFICES ASSUME NEW r \in Requests, Rotating(r)'
                 PROVE  Row(r)' /\ session'[request'[r].client].current = request'[r].read
      BY DEF Holds
    <2>1. request'[r] = request[r] /\ Rotating(r)
      BY <1>2
    <2>2. request[r].client \in Clients /\ request[r].client # None
      BY <2>1, OfClient DEF Rotating
    <2>3. Row(r) /\ session[request[r].client].current = request[r].read
      BY <2>1 DEF Holds
    <2>4. lock[request[r].client] = r
      BY <2>1, <2>3 DEF Locked, Rotating
    <2>5. ~ Gone(request[r].client)
      BY <2>1, <2>3, <2>4, NoneIsApart DEF Gone, Row, Rotating
    <2>6. SameTokens(request[r].client)
      BY <2>2, <2>5 DEF Calm
    <2> QED
      BY <2>1, <2>3, <2>6 DEF Row, SameTokens
  <1>6. Spent'
    <2> SUFFICES ASSUME NEW r \in Requests, request'[r].answer = "renewed",
                        request'[r].client \in Browsers, session'[request'[r].client] # None,
                        session'[request'[r].client].sid = request'[r].sid
                 PROVE  session'[request'[r].client].current # request'[r].read
      BY DEF Spent
    <2>1. request'[r] = request[r]
      BY NoneIsApart DEF Calm, Begins, Finishes, Answers
    <2>2. SameTokens(request[r].client)
      BY <2>1 DEF Calm, Gone, Clients
    <2> QED
      BY <2>1, <2>2 DEF Spent, SameTokens
  <1>7. Answered'
    BY DEF Calm, Begins, Finishes, Answered
  <1>8. OneWinner'
    <2>1. \A q \in Requests :
             request'[q].answer = "renewed" /\ request'[q].client \in Browsers
             => request'[q] = request[q]
      BY NoneIsApart DEF Calm, Begins, Finishes, Answers
    <2> QED
      BY <2>1 DEF OneWinner
  <1>9. OnlyNewTokens
    BY DEF OnlyNewTokens, Accepted, Calm, SameTokens, Gone
  <1> QED
    BY <1>1, <1>3, <1>4, <1>5, <1>6, <1>7, <1>8, <1>9

-----------------------------------------------------------------------------
(* The steps that issue a token or put one into a session.                 *)

\* Only the renewal r changes, and no row.
OnlyRequest(r) ==
    /\ session' = session
    /\ \A q \in Requests \ {r} : request'[q] = request[q]

LEMMA LookUpStep ==
    ASSUME IInv, NEW r \in Requests, LookUp(r)
    PROVE  IInv' /\ OnlyNewTokens
  <1> DEFINE c == request[r].client
  <1>1. TypeOK
    BY DEF IInv
  <1>2. /\ TypeOK'
        /\ request'[r].pc \in {"expired", "touch"}
        /\ request'[r].client = c /\ request'[r].presented = request[r].presented
        /\ request'[r].sid = session[c].sid /\ request'[r].read = session[c].current
        /\ request'[r].answer = request[r].answer
        /\ OnlyRequest(r)
    <2>1. request[r] \in Renewal /\ session' = session
      BY <1>1 DEF TypeOK, LookUp
    <2>2. OnlyRequest(r)
      BY <1>1, <2>1, LookUpTyped DEF OnlyRequest
    <2> QED
      <3> DEFINE pc == IF session[c].idle THEN "expired" ELSE "touch"
      <3>1. request'[r] = [request[r] EXCEPT !.pc = pc, !.sid = session[c].sid, !.read = session[c].current]
        BY <1>1, LookUpTyped
      <3>2. pc \in {"expired", "touch"}
        OBVIOUS
      <3>3. TypeOK'
        BY <1>1, LookUpTyped
      <3> HIDE DEF pc
      <3> QED
        BY <2>1, <2>2, <3>1, <3>2, <3>3 DEF Renewal
  <1>3. /\ request[r].pc = "look up" /\ request[r].presented \in Accepted(c)
        /\ UNCHANGED <<lock, issued>> /\ c \in Clients /\ session[c] # None
    BY <1>1, OfClient DEF LookUp, Accepted
  <1>4. Found'
    <2> SUFFICES ASSUME NEW q \in Requests, request'[q].client \in Clients, Row(q)',
                        session'[request'[q].client].current = request'[q].read
                 PROVE  (request[q].presented \in Accepted(request[q].client))'
      BY DEF Found
    <2>1. CASE q = r
      BY <1>2, <1>3, <2>1 DEF IInv, Found, Row, Accepted, OnlyRequest
    <2>2. CASE q # r
      <3>1. request'[q] = request[q] /\ session' = session
        BY <1>2, <2>2 DEF OnlyRequest
      <3>2. Row(q)
        BY <3>1 DEF Row
      <3> QED
        BY <3>1, <3>2 DEF IInv, Found, Accepted
    <2> QED
      BY <2>1, <2>2
  <1>5. Fresh'
    <2>1. \A q \in Requests : Rotating(q)' => q # r /\ request'[q] = request[q] /\ Rotating(q)
      BY <1>2 DEF OnlyRequest, Rotating
    <2>2. \A q \in Requests : Rotating(q) => session[c].current # request[q].token
      BY <1>3 DEF IInv, Fresh
    <2>3. Token' = Token /\ session' = session
      BY <1>2, <1>3 DEF Token, OnlyRequest
    <2>4. ASSUME NEW q \in Requests, Rotating(q)', NEW p \in Requests
          PROVE  request'[p].read # request'[q].token
      BY <1>2, <2>1, <2>2, <2>4 DEF IInv, Fresh, OnlyRequest
    <2> QED
      BY <2>1, <2>3, <2>4 DEF IInv, Fresh
  <1>6. Locked' /\ Holds'
    BY <1>2 DEF IInv, Locked, Holds, Rotating, Row, OnlyRequest, LookUp
  <1>7. request[r].answer = None
    BY <1>3 DEF IInv, Answered
  <1>8. Spent' /\ Answered'
    BY <1>2, <1>7, NoneIsApart DEF IInv, Spent, Answered, OnlyRequest, Answers
  <1>9. OneWinner'
    BY <1>2, <1>7, NoneIsApart DEF IInv, OneWinner, OnlyRequest, Answers
  <1>10. OnlyNewTokens
    BY <1>2 DEF OnlyNewTokens, Accepted, OnlyRequest
  <1> QED
    BY <1>2, <1>4, <1>5, <1>6, <1>8, <1>9, <1>10 DEF IInv

LEMMA TouchStep ==
    ASSUME IInv, NEW r \in Requests, Touch(r)
    PROVE  IInv' /\ OnlyNewTokens
  <1> DEFINE c == request[r].client
  <1>1. TypeOK
    BY DEF IInv
  <1>2. /\ TypeOK'
        /\ request'[r].pc = IF c \in Browsers THEN "rotate" ELSE "user"
        /\ request'[r].client = c /\ request'[r].presented = request[r].presented
        /\ request'[r].sid = request[r].sid /\ request'[r].read = request[r].read
        /\ request'[r].answer = request[r].answer
        /\ OnlyRequest(r)
    <2>1. request[r] \in Renewal /\ session' = session
      BY <1>1 DEF TypeOK, Touch, Rotates
    <2>2. OnlyRequest(r)
      BY <1>1, <2>1, TouchTyped DEF OnlyRequest
    <2> QED
      <3> DEFINE pc == IF c \in Browsers THEN "rotate" ELSE "user"
      <3>1. request'[r] = [request[r] EXCEPT !.pc = pc]
        BY <1>1, TouchTyped DEF Moved, Rotates
      <3>2. TypeOK' /\ pc = IF c \in Browsers THEN "rotate" ELSE "user"
        BY <1>1, TouchTyped DEF Rotates
      <3> HIDE DEF pc
      <3> QED
        BY <2>1, <2>2, <3>1, <3>2 DEF Renewal
  <1>3. /\ request[r].pc = "touch" /\ c \in Clients
        /\ Row(r) => lock[c] = None
        /\ lock' = [lock EXCEPT ![c] = IF Row(r) THEN r ELSE @]
        /\ UNCHANGED issued
    BY <1>1, OfClient DEF Touch, Rotates
  <1>4. Found'
    BY <1>2 DEF IInv, Found, Row, Accepted, OnlyRequest
  <1>5. Fresh'
    BY <1>2, <1>3 DEF IInv, Fresh, Rotating, OnlyRequest, Token
  <1>6. Locked'
    <2> SUFFICES ASSUME NEW q \in Requests, request'[q].pc \in {"rotate", "user"}, Row(q)'
                 PROVE  lock'[request'[q].client] = q
      BY DEF Locked
    <2>1. Row(q) /\ request'[q].client = request[q].client
      BY <1>2 DEF Row, OnlyRequest
    <2>2. CASE q = r
      BY <1>1, <1>3, <2>1, <2>2 DEF TypeOK
    <2>3. CASE q # r
      <3>1. request'[q] = request[q]
        BY <1>2, <2>3 DEF OnlyRequest
      <3>2. lock[request[q].client] = q /\ request[q].client \in Clients
        BY <1>1, <2>1, <3>1, OfClient DEF IInv, Locked
      <3>3. request[q].client = c => ~ Row(r)
        BY <1>3, <3>2, NoneIsApart
      <3> QED
        BY <1>1, <1>3, <2>1, <3>2, <3>3 DEF TypeOK
    <2> QED
      BY <2>2, <2>3
  <1>7. Holds'
    BY <1>2 DEF IInv, Holds, Rotating, Row, OnlyRequest
  <1>8. Spent' /\ Answered'
    BY <1>2, <1>3, NoneIsApart DEF IInv, Spent, Answered, OnlyRequest
  <1>9. OneWinner'
    BY <1>2, NoneIsApart DEF IInv, OneWinner, OnlyRequest
  <1>10. OnlyNewTokens
    BY <1>2 DEF OnlyNewTokens, Accepted, OnlyRequest
  <1> QED
    BY <1>2, <1>4, <1>5, <1>6, <1>7, <1>8, <1>9, <1>10 DEF IInv

LEMMA RotateStep ==
    ASSUME IInv, NEW r \in Requests, Rotate(r)
    PROVE  IInv' /\ OnlyNewTokens
  <1> DEFINE c == request[r].client
  <1>1. TypeOK
    BY DEF IInv
  <1>2. /\ TypeOK'
        /\ request'[r].pc = "user" /\ request'[r].token = issued + 1
        /\ request'[r].client = c /\ request'[r].presented = request[r].presented
        /\ request'[r].sid = request[r].sid /\ request'[r].read = request[r].read
        /\ request'[r].answer = request[r].answer
        /\ OnlyRequest(r)
    <2>1. request[r] \in Renewal /\ session' = session
      BY <1>1 DEF TypeOK, Rotate
    <2>2. OnlyRequest(r)
      BY <1>1, <2>1, RotateTyped DEF OnlyRequest
    <2>3. TypeOK' /\ request'[r] = [request[r] EXCEPT !.pc = "user", !.token = issued + 1]
      BY <1>1, RotateTyped
    <2> QED
      BY <2>1, <2>2, <2>3 DEF Renewal
  <1>3. /\ request[r].pc = "rotate" /\ c \in Clients
        /\ Row(r) /\ session[c].current = request[r].read
        /\ issued < MaxTokens /\ issued' = issued + 1 /\ lock' = lock
    BY <1>1, OfClient DEF Rotate, StillCurrent
  <1>4. Found'
    <2> SUFFICES ASSUME NEW q \in Requests, request'[q].client \in Clients, Row(q)',
                        session'[request'[q].client].current = request'[q].read
                 PROVE  (request[q].presented \in Accepted(request[q].client))'
      BY DEF Found
    <2>1. CASE q = r
      BY <1>2, <2>1 DEF IInv, Found, Row, Accepted, OnlyRequest
    <2>2. CASE q # r
      <3>1. request'[q] = request[q] /\ session' = session
        BY <1>2, <2>2 DEF OnlyRequest
      <3>2. Row(q)
        BY <3>1 DEF Row
      <3> QED
        BY <3>1, <3>2 DEF IInv, Found, Accepted
    <2> QED
      BY <2>1, <2>2
  <1>5. /\ issued + 1 \in Token' /\ issued + 1 # 0
        /\ \A t \in Token : t # issued + 1 /\ t \in Token'
    BY <1>1, <1>3, NewToken, IssuedIsNat DEF Token
  <1>6. Fresh'
    <2>1. \A q \in Requests : request'[q].read = request[q].read
      BY <1>2 DEF OnlyRequest
    <2>2. \A q \in Requests : request[q].read # issued + 1
      BY <1>1, <1>5 DEF TypeOK, Renewal
    <2>3. \A d \in Clients : session[d] # None => session[d].current # issued + 1
      BY <1>1, <1>5 DEF TypeOK, SessionRow
    <2>4. \A q \in Requests : Rotating(q) => request[q].token \in Token
      BY DEF IInv, Fresh
    <2>5. \A q \in Requests \ {r} : request'[q] = request[q] /\ (Rotating(q)' => Rotating(q))
      BY <1>2 DEF OnlyRequest, Rotating
    <2>6. ASSUME NEW q \in Requests, Rotating(q)'
          PROVE  /\ request'[q].token \in Token'
                 /\ \A p \in Requests : request'[p].read # request'[q].token
                 /\ \A p \in Requests \ {q} :
                       Rotating(p)' => request'[p].token # request'[q].token
                 /\ \A d \in Clients : session'[d] # None
                       => session'[d].current # request'[q].token
      <3>1. CASE q = r
        BY <1>2, <1>5, <2>1, <2>2, <2>3, <2>4, <2>5, <3>1 DEF OnlyRequest
      <3>2. CASE q # r
        <4>1. Rotating(q) /\ request'[q] = request[q] /\ request[q].token \in Token
          BY <2>4, <2>5, <2>6, <3>2
        <4>2. request'[r].token # request[q].token
          BY <1>2, <1>5, <4>1
        <4> QED
          BY <1>2, <1>5, <2>1, <2>5, <4>1, <4>2 DEF IInv, Fresh, OnlyRequest
      <3> QED
        BY <3>1, <3>2
    <2> QED
      BY <2>6 DEF Fresh
  <1>7. Locked'
    BY <1>2, <1>3 DEF IInv, Locked, Row, OnlyRequest
  <1>8. Holds'
    BY <1>2, <1>3 DEF IInv, Holds, Rotating, Row, OnlyRequest
  <1>9. Spent' /\ Answered'
    BY <1>2, <1>3, NoneIsApart DEF IInv, Spent, Answered, OnlyRequest
  <1>10. OneWinner'
    BY <1>2, NoneIsApart DEF IInv, OneWinner, OnlyRequest
  <1>11. OnlyNewTokens
    BY <1>2 DEF OnlyNewTokens, Accepted, OnlyRequest
  <1> QED
    BY <1>2, <1>4, <1>6, <1>7, <1>8, <1>9, <1>10, <1>11 DEF IInv

\* The commit of a browser's renewal.
LEMMA RotationStep ==
    ASSUME IInv, NEW r \in Requests, Commit(r), request[r].client \in Browsers
    PROVE  IInv' /\ OnlyNewTokens
  <1> DEFINE c == request[r].client
  <1>1. TypeOK
    BY DEF IInv
  <1>2. request[r] \in Renewal /\ request[r].pc = "user" /\ Rotating(r) /\ c \in Clients
    BY <1>1, OfClient DEF Commit, TypeOK, Rotating
  <1>3. Row(r) /\ session[c].current = request[r].read /\ lock[c] = r
    BY <1>2 DEF IInv, Holds, Locked
  <1>4. request[r].presented \in Accepted(c)
    BY <1>2, <1>3 DEF IInv, Found
  <1>5. /\ TypeOK'
        /\ \A q \in Requests \ {r} : request'[q] = request[q]
        /\ request'[r].pc = "replied" /\ request'[r].answer = "renewed"
        /\ request'[r].client = c /\ request'[r].presented = request[r].presented
        /\ request'[r].sid = request[r].sid /\ request'[r].read = request[r].read
        /\ request'[r].token = request[r].token
    <2>1. /\ TypeOK'
          /\ request'[r] = [request[r] EXCEPT !.pc = "replied", !.answer = "renewed"]
          /\ \A q \in Requests \ {r} : request'[q] = request[q]
      BY <1>1, CommitTyped
    <2> QED
      BY <1>2, <2>1 DEF Renewal
  <1>6. session[c] \in SessionRow
    BY <1>1, <1>2, <1>3 DEF TypeOK, Row
  <1>7. /\ \A d \in Clients \ {c} : session'[d] = session[d]
        /\ session'[c] # None
        /\ session'[c].sid = session[c].sid
        /\ session'[c].current = request[r].token
        /\ session'[c].previous = request[r].presented
    <2>1. session'[c] = Rotated(r) /\ \A d \in Clients \ {c} : session'[d] = session[d]
      BY <1>1, <1>3, CommitTyped DEF Renewed, Rotates
    <2>2. /\ Rotated(r).sid = session[c].sid
          /\ Rotated(r).current = request[r].token
          /\ Rotated(r).previous = request[r].presented
      BY <1>6 DEF Rotated, SessionRow
    <2>3. session'[c] # None
      <3>1. request[r].token \in Token /\ request[r].presented \in Token
        BY <1>1, <1>2 DEF TypeOK, BrowserTokens
      <3>2. Rotated(r) \in SessionRow
        BY <1>6, <3>1 DEF Rotated, SessionRow
      <3> QED
        BY <1>1, <2>1, <3>2, RowsArePresent
    <2> QED
      BY <2>1, <2>2, <2>3
  <1>8. issued' = issued /\ Token' = Token
    BY DEF Commit, Token
  <1>9. \A q \in Requests : /\ request'[q].read = request[q].read
                            /\ request'[q].sid = request[q].sid
                            /\ request'[q].client = request[q].client
                            /\ request'[q].presented = request[q].presented
                            /\ request'[q].token = request[q].token
    BY <1>5
  <1>10. \A q \in Requests : request[q].client \in Clients /\ Row(q)' => Row(q)
    BY <1>3, <1>7, <1>9 DEF Row
  <1>11. \A q \in Requests : Rotating(q)' => q # r /\ Rotating(q)
    BY <1>5 DEF Rotating
  <1>12. \A q \in Requests : request[q].read # request[r].token
    BY <1>2 DEF IInv, Fresh
  <1>13. Found'
    <2> SUFFICES ASSUME NEW q \in Requests, request'[q].client \in Clients, Row(q)',
                        session'[request'[q].client].current = request'[q].read
                 PROVE  (request[q].presented \in Accepted(request[q].client))'
      BY DEF Found
    <2>1. request[q].client # c
      BY <1>7, <1>9, <1>12
    <2> QED
      BY <1>7, <1>9, <1>10, <2>1 DEF IInv, Found, Accepted
  <1>14. Fresh'
    <2>1. ASSUME NEW q \in Requests, Rotating(q)'
          PROVE  /\ request'[q].token \in Token'
                 /\ \A p \in Requests : request'[p].read # request'[q].token
                 /\ \A p \in Requests \ {q} :
                       Rotating(p)' => request'[p].token # request'[q].token
                 /\ \A d \in Clients : session'[d] # None
                       => session'[d].current # request'[q].token
      <3>1. q # r /\ Rotating(q)
        BY <1>11, <2>1
      <3>2. request[r].token # request[q].token
        BY <1>2, <3>1 DEF IInv, Fresh
      <3>3. /\ request[q].token \in Token
            /\ \A p \in Requests : request[p].read # request[q].token
            /\ \A p \in Requests \ {q} : Rotating(p) => request[p].token # request[q].token
            /\ \A d \in Clients : session[d] # None => session[d].current # request[q].token
        BY <3>1 DEF IInv, Fresh
      <3> QED
        BY <1>7, <1>8, <1>9, <1>11, <3>2, <3>3
    <2> QED
      BY <2>1 DEF Fresh
  <1>15. \A d \in Clients \ {c} : lock'[d] = lock[d] \/ lock[d] = r
    BY <1>1 DEF Commit, Ends
  <1>16. Locked'
    <2> SUFFICES ASSUME NEW q \in Requests, request'[q].pc \in {"rotate", "user"}, Row(q)'
                 PROVE  lock'[request'[q].client] = q
      BY DEF Locked
    <2>1. q # r /\ request'[q] = request[q] /\ Row(q)
      BY <1>1, <1>5, <1>10, OfClient
    <2>2. lock[request[q].client] = q /\ request[q].client \in Clients
      BY <1>1, <2>1, OfClient DEF IInv, Locked
    <2>3. request[q].client # c
      BY <1>3, <2>1, <2>2
    <2> QED
      BY <1>15, <2>1, <2>2, <2>3
  <1>17. Holds'
    <2> SUFFICES ASSUME NEW q \in Requests, Rotating(q)'
                 PROVE  Row(q)' /\ session'[request'[q].client].current = request'[q].read
      BY DEF Holds
    <2>1. q # r /\ Rotating(q)
      BY <1>11
    <2>2. Row(q) /\ session[request[q].client].current = request[q].read
      BY <2>1 DEF IInv, Holds
    <2>3. lock[request[q].client] = q /\ request[q].client \in Clients
      BY <1>1, <2>1, <2>2, OfClient DEF IInv, Locked, Rotating
    <2>4. request[q].client # c
      BY <1>3, <2>1, <2>3
    <2> QED
      BY <1>7, <1>9, <2>2, <2>3, <2>4 DEF Row
  <1>18. Spent'
    <2> SUFFICES ASSUME NEW q \in Requests, request'[q].answer = "renewed",
                        request'[q].client \in Browsers, session'[request'[q].client] # None,
                        session'[request'[q].client].sid = request'[q].sid
                 PROVE  session'[request'[q].client].current # request'[q].read
      BY DEF Spent
    <2>1. CASE request[q].client = c
      BY <1>7, <1>9, <1>12, <2>1
    <2>2. CASE request[q].client # c
      BY <1>5, <1>7, <1>9, <2>2 DEF IInv, Spent, Clients
    <2> QED
      BY <2>1, <2>2
  <1>19. Answered'
    BY <1>5 DEF IInv, Answered
  <1>20. OneWinner'
    <2>1. ASSUME NEW q \in Requests, q # r, request[q].answer = "renewed",
                 request[q].client = c, request[q].sid = request[r].sid
          PROVE  request[q].read # request[r].read
      BY <1>2, <1>3, <2>1 DEF IInv, Spent, Row, Rotating
    <2>2. ASSUME NEW p \in Requests, NEW q \in Requests,
                 request'[p].answer = "renewed", request'[q].answer = "renewed",
                 request'[p].client = request'[q].client, request'[p].client \in Browsers,
                 request'[p].sid = request'[q].sid, request'[p].read = request'[q].read
          PROVE  p = q
      <3>1. CASE p = r \/ q = r
        BY <1>5, <1>9, <2>1, <2>2, <3>1
      <3>2. CASE p # r /\ q # r
        BY <1>5, <2>2, <3>2 DEF IInv, OneWinner
      <3> QED
        BY <3>1, <3>2
    <2> QED
      BY <2>2 DEF OneWinner
  <1>21. OnlyNewTokens
    <2>1. \A d \in Clients \ {c} : Accepted(d)' = Accepted(d)
      BY <1>7 DEF Accepted
    <2>2. Accepted(c)' \subseteq {request[r].token, request[r].presented}
      BY <1>5, <1>7 DEF Accepted
    <2> QED
      BY <1>2, <1>4, <1>5, <2>1, <2>2 DEF OnlyNewTokens
  <1> QED
    BY <1>5, <1>13, <1>14, <1>16, <1>17, <1>18, <1>19, <1>20, <1>21 DEF IInv

LEMMA SignInStep ==
    ASSUME IInv, NEW c \in Clients, SignIn(c)
    PROVE  IInv' /\ OnlyNewTokens
  <1>1. TypeOK
    BY DEF IInv
  <1>2. /\ TypeOK'
        /\ session'[c].sid = issued + 1 /\ session'[c].current = issued + 1
        /\ \A d \in Clients \ {c} : session'[d] = session[d]
    BY <1>1, SignInTyped
  <1>3. /\ session[c] = None /\ request' = request /\ lock' = lock
        /\ issued < MaxTokens /\ issued' = issued + 1
    BY DEF SignIn
  <1>4. /\ issued + 1 \in Token' /\ issued + 1 # 0
        /\ \A t \in Token : t # issued + 1 /\ t \in Token'
    BY <1>1, <1>3, NewToken, IssuedIsNat DEF Token
  <1>5. \A q \in Requests : request[q].sid # issued + 1
    BY <1>1, <1>4 DEF TypeOK, Renewal
  <1>6. \A q \in Requests : request[q].client \in Clients /\ Row(q)'
                              => Row(q) /\ request[q].client # c
    BY <1>2, <1>3, <1>5 DEF Row
  <1>7. Found'
    BY <1>2, <1>3, <1>6 DEF IInv, Found, Accepted
  <1>8. Fresh'
    <2>1. \A q \in Requests : Rotating(q)' => Rotating(q)
      BY <1>3 DEF Rotating
    <2>2. \A q \in Requests : Rotating(q) => request[q].token # issued + 1
      BY <1>4 DEF IInv, Fresh
    <2> QED
      BY <1>2, <1>3, <1>4, <2>1, <2>2 DEF IInv, Fresh
  <1>9. Locked'
    <2>1. \A q \in Requests : request[q].pc \in {"rotate", "user"} => request[q].client \in Clients
      BY <1>1, OfClient
    <2> QED
      BY <1>3, <1>6, <2>1 DEF IInv, Locked
  <1>10. Holds'
    <2> SUFFICES ASSUME NEW q \in Requests, Rotating(q)'
                 PROVE  Row(q)' /\ session'[request'[q].client].current = request'[q].read
      BY DEF Holds
    <2>1. Rotating(q)
      BY <1>3 DEF Rotating
    <2>2. Row(q) /\ session[request[q].client].current = request[q].read
      BY <2>1 DEF IInv, Holds
    <2>3. request[q].client # c /\ request[q].client \in Clients
      BY <1>1, <1>3, <2>1, <2>2, OfClient DEF Row, Rotating
    <2> QED
      BY <1>2, <1>3, <2>2, <2>3 DEF Row
  <1>11. Spent'
    BY <1>2, <1>3, <1>5 DEF IInv, Spent, Clients
  <1>12. Answered'
    BY <1>3 DEF IInv, Answered
  <1>13. OneWinner'
    BY <1>3 DEF IInv, OneWinner
  <1>14. OnlyNewTokens
    <2>1. \A d \in Clients \ {c} : Accepted(d)' = Accepted(d)
      BY <1>2 DEF Accepted
    <2>2. session'[c].previous = None
      BY <1>1, SignInTyped
    <2>3. Accepted(c)' \subseteq {issued + 1}
      BY <1>2, <2>2 DEF Accepted
    <2> QED
      BY <2>1, <2>3 DEF OnlyNewTokens
  <1> QED
    BY <1>2, <1>7, <1>8, <1>9, <1>10, <1>11, <1>12, <1>13, <1>14 DEF IInv

-----------------------------------------------------------------------------
(* The calm steps.                                                         *)

\* A renewal that ends without having replaced a token leaves the others alone.
LEMMA EndsCalmly ==
    ASSUME TypeOK, NEW r \in Requests, NEW answer \in Answers, Ends(r, answer),
           request'[r] = [request[r] EXCEPT !.pc = "replied", !.answer = answer],
           \A q \in Requests \ {r} : request'[q] = request[q],
           request[r].client \in Browsers => answer # "renewed"
    PROVE  /\ request'[r].pc = "replied"
           /\ \A c \in Clients :
                 lock'[c] = lock[c] \/ (lock[c] # None /\ request'[lock[c]].pc = "replied")
           /\ \A q \in Requests : request'[q] = request[q] \/ Begins(q) \/ Finishes(q)
  <1>1. request[r] \in Renewal
    BY DEF TypeOK
  <1>2. Finishes(r) /\ request'[r].pc = "replied"
    BY <1>1 DEF Finishes, Renewal
  <1>3. \A c \in Clients : lock'[c] = IF lock[c] = r THEN None ELSE lock[c]
    BY DEF Ends
  <1> QED
    BY <1>2, <1>3, NoneIsApart

LEMMA CalmEnds ==
    ASSUME IInv, NEW r \in Requests,
           \/ LookUpFails(r) \/ Expire(r) \/ RotateFails(r) \/ UserRefused(r) \/ Fail(r)
           \/ (Commit(r) /\ request[r].client \notin Browsers)
    PROVE  IInv' /\ OnlyNewTokens
  <1> DEFINE c == request[r].client
  <1>1. TypeOK
    BY DEF IInv
  <1>2. c \in Clients
    BY <1>1, OfClient DEF LookUpFails, Expire, RotateFails, UserRefused, Fail, Commit
  <1>3. CASE LookUpFails(r) \/ RotateFails(r) \/ Fail(r)
    <2>1. PICK answer \in Answers \ {"renewed"} :
             /\ Ends(r, answer)
             /\ request'[r] = [request[r] EXCEPT !.pc = "replied", !.answer = answer]
             /\ \A q \in Requests \ {r} : request'[q] = request[q]
             /\ TypeOK'
      BY <1>1, <1>3, LookUpFailsTyped, RotateFailsTyped, FailTyped
         DEF LookUpFails, RotateFails, Fail, Answers
    <2>2. UNCHANGED <<session, issued>>
      BY <1>3 DEF LookUpFails, RotateFails, Fail
    <2>3. \A d \in Clients : SameTokens(d) \/ Gone(d)
      BY <2>2 DEF SameTokens, Gone
    <2>4. Calm
      BY <1>1, <2>1, <2>2, <2>3, EndsCalmly DEF Calm
    <2> QED
      BY <2>1, <2>4, CalmStep
  <1>4. CASE Expire(r) \/ UserRefused(r)
    <2>1. PICK answer \in Answers \ {"renewed"} :
             /\ Ends(r, answer)
             /\ request'[r] = [request[r] EXCEPT !.pc = "replied", !.answer = answer]
             /\ \A q \in Requests \ {r} : request'[q] = request[q]
             /\ TypeOK'
      BY <1>1, <1>4, ExpireTyped, UserRefusedTyped DEF Expire, UserRefused, Answers
    <2>2. /\ session'[c] = IF Row(r) THEN None ELSE session[c]
          /\ \A d \in Clients \ {c} : session'[d] = session[d]
          /\ issued' = issued
      BY <1>1, <1>4, ExpireTyped, UserRefusedTyped DEF Expire, UserRefused
    <2>3. Row(r) => lock[c] = None \/ lock[c] = r
      BY <1>4 DEF IInv, Locked, Expire, UserRefused
    <2>4. request'[r].pc = "replied"
      BY <1>1, <2>1, EndsCalmly
    <2>5. \A d \in Clients : SameTokens(d) \/ Gone(d)
      BY <1>2, <2>2, <2>3, <2>4 DEF SameTokens, Gone
    <2>6. Calm
      BY <1>1, <2>1, <2>2, <2>5, EndsCalmly DEF Calm
    <2> QED
      BY <2>1, <2>6, CalmStep
  <1>5. CASE Commit(r) /\ c \notin Browsers
    <2>1. /\ Ends(r, "renewed")
          /\ request'[r] = [request[r] EXCEPT !.pc = "replied", !.answer = "renewed"]
          /\ \A q \in Requests \ {r} : request'[q] = request[q]
          /\ TypeOK' /\ issued' = issued /\ "renewed" \in Answers
      BY <1>1, <1>5, CommitTyped DEF Commit, Answers
    <2>2. /\ session'[c] = IF Row(r) THEN [session[c] EXCEPT !.idle = FALSE] ELSE session[c]
          /\ \A d \in Clients \ {c} : session'[d] = session[d]
      BY <1>1, <1>5, CommitTyped DEF Renewed, Rotates
    <2>3. SameTokens(c) \/ session'[c] = session[c]
      <3>1. CASE Row(r)
        <4>1. session[c] \in SessionRow
          BY <1>1, <1>2, <3>1 DEF TypeOK, Row
        <4>2. session'[c] \in SessionRow
          BY <2>2, <3>1, <4>1 DEF SessionRow
        <4>3. session[c] # None /\ session'[c] # None
          BY <1>1, <4>1, <4>2, RowsArePresent
        <4> QED
          BY <2>2, <3>1, <4>1, <4>3 DEF SameTokens, SessionRow
      <3>2. CASE ~ Row(r)
        BY <2>2, <3>2
      <3> QED
        BY <3>1, <3>2
    <2>4. \A d \in Clients : SameTokens(d) \/ Gone(d)
      BY <1>2, <2>2, <2>3 DEF SameTokens, Gone
    <2>5. Calm
      BY <1>1, <1>5, <2>1, <2>4, EndsCalmly DEF Calm
    <2> QED
      BY <2>1, <2>5, CalmStep
  <1> QED
    BY <1>3, <1>4, <1>5

LEMMA CalmBegins ==
    ASSUME IInv, NEW r \in Requests,
           Deliver(r) \/ Lose(r) \/ (\E c \in Clients : Send(c, r))
    PROVE  IInv' /\ OnlyNewTokens
  <1>1. TypeOK
    BY DEF IInv
  <1>2. /\ TypeOK'
        /\ \A q \in Requests \ {r} : request'[q] = request[q]
        /\ Begins(r)
    <2>1. CASE Deliver(r) \/ Lose(r)
      <3>1. /\ request'[r] = Free
            /\ TypeOK'
            /\ \A q \in Requests \ {r} : request'[q] = request[q]
        BY <1>1, <2>1, DeliverTyped, LoseTyped
      <3>2. Begins(r)
        BY <3>1 DEF Begins, Free
      <3> QED
        BY <3>1, <3>2
    <2>2. ASSUME NEW c \in Clients, Send(c, r)
          PROVE  /\ TypeOK'
                 /\ \A q \in Requests \ {r} : request'[q] = request[q]
                 /\ Begins(r)
      <3>1. request'[r] = [Free EXCEPT !.pc = "look up", !.client = c, !.presented = held[c]]
        BY <1>1, <2>2, SendTyped
      <3>2. Begins(r)
        BY <3>1 DEF Begins, Free
      <3> QED
        BY <1>1, <2>2, <3>2, SendTyped
    <2> QED
      BY <2>1, <2>2
  <1>3. UNCHANGED <<session, lock, issued>>
    BY DEF Deliver, Lose, Send
  <1>4. Calm
    BY <1>2, <1>3 DEF Calm, SameTokens, Gone
  <1> QED
    BY <1>2, <1>4, CalmStep

\* The row of c keeps its tokens, or is deleted while no renewal has it locked.
Undisturbed(c) ==
    \/ session'[c] = session[c]
    \/ SameTokens(c)
    \/ session'[c] = None /\ (session[c] # None => lock[c] = None)

LEMMA CalmElsewhere ==
    ASSUME IInv, TypeOK', UNCHANGED <<request, lock, issued>>,
           \A c \in Clients : Undisturbed(c)
    PROVE  IInv' /\ OnlyNewTokens
  <1>1. Calm
    BY DEF Calm, SameTokens, Gone, Undisturbed
  <1> QED
    BY <1>1, CalmStep

LEMMA InductiveStep == IInv /\ [Next]_vars => IInv' /\ OnlyNewTokens
  <1> SUFFICES ASSUME IInv, [Next]_vars PROVE IInv' /\ OnlyNewTokens
    OBVIOUS
  <1>1. TypeOK /\ TypeOK'
    BY TypeStep DEF IInv
  <1>2. ASSUME NEW r \in Requests, Serve(r) PROVE IInv' /\ OnlyNewTokens
    BY <1>2, LookUpStep, TouchStep, RotateStep, RotationStep, CalmEnds DEF Serve
  <1>3. ASSUME NEW r \in Requests, Deliver(r) \/ Lose(r) PROVE IInv' /\ OnlyNewTokens
    BY <1>3, CalmBegins
  <1>4. ASSUME NEW c \in Clients, NEW r \in Requests, Send(c, r) PROVE IInv' /\ OnlyNewTokens
    BY <1>4, CalmBegins
  <1>5. ASSUME NEW c \in Clients, SignIn(c) PROVE IInv' /\ OnlyNewTokens
    BY <1>5, SignInStep
  <1>6. ASSUME NEW c \in Clients, Logout(c) \/ Revoke(c) \/ CleanUp(c) PROVE IInv' /\ OnlyNewTokens
    <2>1. session'[c] = None /\ \A d \in Clients \ {c} : session'[d] = session[d]
      BY <1>1, <1>6, LogoutTyped, RevokeTyped, CleanUpTyped
    <2>2. /\ UNCHANGED <<request, lock, issued>>
          /\ session[c] # None => lock[c] = None
      BY <1>6 DEF Logout, Revoke, CleanUp
    <2>3. \A d \in Clients : Undisturbed(d)
      BY <2>1, <2>2 DEF Undisturbed
    <2> QED
      BY <1>1, <2>2, <2>3, CalmElsewhere
  <1>7. ASSUME NEW c \in Clients, FallIdle(c) PROVE IInv' /\ OnlyNewTokens
    <2>1. /\ session'[c] = [session[c] EXCEPT !.idle = TRUE]
          /\ \A d \in Clients \ {c} : session'[d] = session[d]
      BY <1>1, <1>7, FallIdleTyped
    <2>2. UNCHANGED <<request, lock, issued>> /\ session[c] \in SessionRow
      BY <1>1, <1>7 DEF FallIdle, TypeOK
    <2>3. session'[c] \in SessionRow
      BY <2>1, <2>2 DEF SessionRow
    <2>4. session[c] # None /\ session'[c] # None
      BY <1>1, <2>2, <2>3, RowsArePresent
    <2>5. SameTokens(c)
      BY <2>1, <2>2, <2>4 DEF SameTokens, SessionRow
    <2>6. \A d \in Clients : Undisturbed(d)
      BY <2>1, <2>5 DEF Undisturbed
    <2> QED
      BY <1>1, <2>2, <2>6, CalmElsewhere
  <1>8. CASE RevokeAll
    <2>1. /\ \A c \in Clients : session'[c] = None /\ (session[c] # None => lock[c] = None)
          /\ UNCHANGED <<request, lock, issued>>
      BY <1>8 DEF RevokeAll
    <2>2. \A c \in Clients : Undisturbed(c)
      BY <2>1 DEF Undisturbed
    <2> QED
      BY <1>1, <2>1, <2>2, CalmElsewhere
  <1>9. CASE (\E d \in BOOLEAN : SetDisabled(d)) \/ UNCHANGED vars
    <2>1. UNCHANGED <<session, request, lock, issued>>
      BY <1>9 DEF SetDisabled, vars
    <2>2. \A c \in Clients : Undisturbed(c)
      BY <2>1 DEF Undisturbed
    <2> QED
      BY <1>1, <2>1, <2>2, CalmElsewhere
  <1> QED
    BY <1>2, <1>3, <1>4, <1>5, <1>6, <1>7, <1>8, <1>9 DEF Next

LEMMA InductiveInit == Init => IInv
  <1> SUFFICES ASSUME Init PROVE IInv
    OBVIOUS
  <1>1. \A r \in Requests : request[r] = Free
    BY DEF Init
  <1>2. Found /\ Fresh /\ Locked /\ Holds /\ Spent /\ Answered /\ OneWinner
    BY <1>1, NoneIsApart
       DEF Free, Found, Fresh, Locked, Holds, Spent, Answered, OneWinner, Rotating, Answers
  <1> QED
    BY <1>2, TypeInit DEF IInv

LEMMA Inductive == Spec => []IInv
  BY InductiveInit, InductiveStep, PTL DEF Spec

(***************************************************************************)
(* Of the renewals that read one refresh token of a browser's session, one *)
(* answers with a new token, however many are under way.                   *)
(***************************************************************************)
THEOREM Exclusive == Spec => []OneWinner
  <1>1. IInv => OneWinner
    BY DEF IInv
  <1> QED
    BY <1>1, Inductive, PTL

(***************************************************************************)
(* No renewal makes a session accept a token again that it refused.        *)
(***************************************************************************)
THEOREM RefusedForGood == Spec => DeadTokensStayDead
  <1>1. IInv /\ [Next]_vars => [OnlyNewTokens]_vars
    BY InductiveStep
  <1> QED
    BY <1>1, Inductive, PTL DEF Spec, DeadTokensStayDead

=============================================================================
