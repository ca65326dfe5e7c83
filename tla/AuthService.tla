---------------------------- MODULE AuthService ----------------------------
(* auth-service: users by e-mail, and refresh tokens in the session store.    *)
(* outside has a pair for every token in the store, and for every token a     *)
(* client was answered.                                                       *)
(* Customers stand for e-mails.                                               *)
EXTENDS Rows

AuthUsers == [owner : Customers]

\* The user, and the second of issue: two of one second are the same token.
Tokens == Customers \X (1..MaxCount)

Of(kind, t) == <<kind, t>>
Marked(kind) == {x[2] : x \in {y \in outside : y[1] = kind}}
Stored == Marked("store")
Held == Marked("client")

\* The tokens that can be issued to a user now: the clock does not go back.
Issued(user) ==
    {t \in Tokens : t[1] = user /\ \A u \in Stored \cup Held : u[2] <= t[2]}

Revoke(t) == outside \ {Of("store", t)}
SaveToken(t) == outside \cup {Of("store", t)}

\* A client presents a token it was answered, as often as it likes.
Present(r, op) == \E t \in Held : Receive(r, op, t[1], t, None)

Request(r) ==
    \/ Routes(r, {"register", "login"}, {})
    \/ Present(r, "refresh") \/ Present(r, "logout")

\* The e-mail is unique.
Register(r) ==
    /\ At(r, "register")
    /\ IF Exists(User(r)) THEN Refuse(r) /\ UNCHANGED rows
       ELSE rows' = Put(User(r), [owner |-> User(r)]) /\ Goto(r, "issue", None)
    /\ OnlyRows

\* Wrong credentials are refused like an unknown e-mail.
Login(r) ==
    /\ At(r, "login")
    /\ \/ Exists(User(r)) /\ Goto(r, "issue", None)
       \/ Refuse(r)
    /\ Same

\* Rotation: the token must be stored, the user must exist, the token is deleted; an
\* error of the deletion is ignored.
Refresh(r) ==
    \/ /\ At(r, "refresh")
       /\ IF Key(r) \in Stored THEN Goto(r, "user", None) ELSE Refuse(r)
       /\ Same
    \/ /\ At(r, "user")
       /\ IF Exists(User(r)) THEN Goto(r, "rotate", None) ELSE Refuse(r)
       /\ Same
    \/ /\ At(r, "rotate")
       /\ outside' \in {outside, Revoke(Key(r))}
       /\ Goto(r, "issue", None)
       /\ UNCHANGED <<service, rows>>

Logout(r) ==
    /\ At(r, "logout")
    /\ outside' = Revoke(Key(r))
    /\ Answer(r, {})
    /\ UNCHANGED <<service, rows>>

\* A new token is saved, then answered; the answer may be lost.
Issue(r) ==
    /\ At(r, "issue")
    /\ \E t \in Issued(User(r)) :
          outside' \in {SaveToken(t), SaveToken(t) \cup {Of("client", t)}}
    /\ Answer(r, {})
    /\ UNCHANGED <<service, rows>>

Next(r) == Request(r) \/ Register(r) \/ Login(r) \/ Refresh(r) \/ Logout(r) \/ Issue(r)
=============================================================================
