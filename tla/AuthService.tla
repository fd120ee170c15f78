---------------------------- MODULE AuthService -----------------------------
(***************************************************************************)
(* backend/src/auth/auth.service.ts behind the session and fresh-auth      *)
(* middleware: challenges, sessions and protected requests, against the    *)
(* rows that UsersService changes meanwhile.                               *)
(*                                                                         *)
(* Every handler is a list of database accesses with an await at each; a   *)
(* request keeps what it has read and checks it against rows that may have *)
(* changed.  Any failed check ends the request.  In EVM mode a wallet      *)
(* address is derived from a public key, so one name stands for both; a    *)
(* client signs with a key of its choice, and a wrong signature is a       *)
(* failed check like the others.  The devices are those of one identity.   *)
(* The permission gate behind these is Rbac.                               *)
(***************************************************************************)
EXTENDS Naturals, Sequences

CONSTANTS
    Device, Key, Token, Challenge,
    DeviceOf,       \* the device a wallet was registered for
    Purpose,        \* <<operation, resource>> pairs that need fresh authentication
    Slot,           \* bound: requests in flight
    None

ASSUME AuthAssumption ==
    /\ DeviceOf \in [Key -> Device]
    /\ None \notin Device \cup Key \cup Token \cup Challenge \cup Purpose

VARIABLES
    device,         \* device rows: status and public key
    wallet,         \* wallet rows: status
    credential,     \* devices with an active legacy credential
    challenge,      \* provisioning_challenge rows
    session,        \* session rows; a deleted one keeps its row, closed
    req,            \* the request in each slot
    uses            \* history: what each challenge was accepted for

rowVars  == <<device, wallet, credential>>
authVars == <<rowVars, challenge, session, req, uses>>

NoChallenge == [device |-> None, for |-> None, token |-> None, used |-> FALSE, expired |-> FALSE]
NoSession   == [status |-> "none"]
Idle        == [todo |-> <<>>]

-----------------------------------------------------------------------------
(* The handlers as lists of accesses.                                      *)

Validate == <<"session", "device", "sessionWallet">>

\* The routes of /auth and a protected route, without and with fresh
\* authentication; attachSession validates the session of every one but the
\* first three.
Script ==
    [loginChallenge |-> <<"device", "wallet", "issue">>,
     login          |-> <<"challenge", "device", "wallet", "consume", "open">>,
     legacyLogin    |-> <<"credential", "device", "wallet", "open">>,
     freshChallenge |-> Validate \o Validate \o <<"issue">>,
     logout         |-> Validate \o <<"close">>,
     protected      |-> Validate \o <<"run">>,
     fresh          |-> Validate \o Validate
                          \o <<"challenge", "device", "wallet", "consume", "run">>]

\* validateSession, in attachSession, is over after the first three.
Validating(r) == Len(r.todo) > Len(Script[r.kind]) - 3
At(s, step)   == req[s] # Idle /\ req[s].todo # <<>> /\ Head(req[s].todo) = step

Ended(t)   == session[t].status # "open" \/ session[t].expired
Revoked(t) == wallet[session[t].wallet] = "REVOKED"

\* A request arrives, with whatever its client chooses to send.  History: late,
\* its session has ended; revoked, its wallet is revoked.
Arrive(s, kind, d, c, t, p) ==
    /\ req' = [req EXCEPT ![s] =
                 [kind |-> kind, todo |-> Script[kind], device |-> d,
                  chal |-> c, token |-> t, for |-> p, read |-> None,
                  late |-> t # None /\ Ended(t), revoked |-> t # None /\ Revoked(t)]]
    /\ UNCHANGED <<rowVars, challenge, session, uses>>

\* A request with a session of wallet w.
UsesWallet(r, w) ==
    r # Idle /\ r.kind # "evict" /\ r.token # None /\ session[r.token].wallet = w

Finish(s) == req' = [req EXCEPT ![s] = Idle]

\* validateSession deletes the session it refuses, in an access of its own.
Evict(s) ==
    req' = [req EXCEPT ![s] = [kind |-> "evict", todo |-> <<"evict">>, token |-> @.token]]

\* A check fails: 401, after the deletion when it is validateSession's.
Fail(s) == IF req[s].token # None /\ Validating(req[s]) THEN Evict(s) ELSE Finish(s)

Pass(s) == req' = [req EXCEPT ![s].todo = Tail(@)]
PassOrFail(s, ok) == IF ok THEN Pass(s) ELSE Fail(s)

-----------------------------------------------------------------------------
(* Reads.                                                                  *)

\* sessions.find; the request goes on with the session's device.  An expired
\* session is deleted by validateSession.
ReadSession(s) ==
    LET r == req[s] e == session[r.token] IN
    /\ At(s, "session")
    /\ \/ /\ e.status = "open" /\ ~e.expired
          /\ req' = [req EXCEPT ![s].todo = Tail(@), ![s].device = e.device]
       \/ e.status = "open" /\ e.expired /\ Fail(s)
       \/ e.status # "open" /\ Finish(s)
    /\ UNCHANGED <<rowVars, challenge, session, uses>>

ReadCredential(s) ==
    /\ At(s, "credential")
    /\ PassOrFail(s, req[s].device \in credential)
    /\ UNCHANGED <<rowVars, challenge, session, uses>>

\* devices.findById, and identities.findById of its owner (an identity never
\* leaves ACTIVE).  A proof must be made with the public key in the row: the
\* client has signed with that key, or with another.
ReadDevice(s) ==
    LET r == req[s] row == device[r.device] IN
    /\ At(s, "device")
    /\ \/ /\ row.status = "ACTIVE"
          /\ req' = [req EXCEPT ![s].todo = Tail(@), ![s].read = row.key]
       \/ /\ row.status = "ACTIVE" => r.chal # None /\ ~Validating(r)
          /\ Fail(s)
    /\ UNCHANGED <<rowVars, challenge, session, uses>>

\* Faulty variant: the wallet of a session is not read again.
KeepSessionWallet(s) ==
    /\ At(s, "sessionWallet")
    /\ req' = [req EXCEPT ![s].todo = Tail(@), ![s].read = None]
    /\ UNCHANGED <<rowVars, challenge, session, uses>>

\* wallets.findByAddress(session.walletAddress): ACTIVE, on the session's
\* device, and derived from the public key that was read.
ReadSessionWallet(s) ==
    LET r == req[s] w == session[r.token].wallet IN
    /\ At(s, "sessionWallet")
    /\ IF wallet[w] = "ACTIVE" /\ DeviceOf[w] = r.device /\ (Validating(r) => r.read = w)
       THEN req' = [req EXCEPT ![s].todo = Tail(@), ![s].read = None]
       ELSE Fail(s)
    /\ UNCHANGED <<rowVars, challenge, session, uses>>

\* wallets.listByIdentityId(...).find(...), which takes the first match: an
\* ACTIVE wallet of the device, for fresh authentication the session's, for the
\* legacy login any ACTIVE one of the identity, whose device is then compared.
\* A proof needs the wallet derived from the public key.
ReadWallet(s) ==
    LET r == req[s]
        Found == {w \in Key : /\ wallet[w] = "ACTIVE"
                              /\ r.kind # "legacyLogin" => DeviceOf[w] = r.device
                              /\ r.kind = "fresh" => w = session[r.token].wallet}
    IN
    /\ At(s, "wallet")
    /\ \/ \E w \in Found :
             IF DeviceOf[w] = r.device /\ (r.kind \in {"login", "fresh"} => w = r.read)
             THEN req' = [req EXCEPT ![s].todo = Tail(@), ![s].read = w]
             ELSE Fail(s)
       \/ Found = {} /\ Fail(s)
    /\ UNCHANGED <<rowVars, challenge, session, uses>>

\* The challenge is one for this device and this purpose, and for this session
\* and operation and resource when it is a fresh one.
IssuedFor(c, r) ==
    /\ challenge[c].device = r.device
    /\ IF r.kind = "login" THEN challenge[c].for = None
       ELSE challenge[c].for = r.for /\ challenge[c].token = r.token

\* challenges.findById
ReadChallenge(s) ==
    LET r == req[s] IN
    /\ At(s, "challenge")
    /\ PassOrFail(s, /\ IssuedFor(r.chal, r) /\ ~challenge[r.chal].used
                     /\ ~challenge[r.chal].expired)
    /\ UNCHANGED <<rowVars, challenge, session, uses>>

-----------------------------------------------------------------------------
(* Writes.                                                                 *)

Use(r) == [kind |-> r.kind, device |-> r.device, token |-> r.token, for |-> r.for]

\* Faulty variant: the challenge is marked as used without looking again.
MarkUsed(s) ==
    LET r == req[s] IN
    /\ At(s, "consume")
    /\ challenge' = [challenge EXCEPT ![r.chal].used = TRUE]
    /\ uses' = [uses EXCEPT ![r.chal] = Append(@, Use(r))]
    /\ Pass(s)
    /\ UNCHANGED <<rowVars, session>>

\* consumeIfUnused: one conditional update, whose count decides.
ConsumeIfUnused(s) ==
    LET r == req[s] IN
    /\ At(s, "consume")
    /\ \/ /\ ~challenge[r.chal].used
          /\ challenge' = [challenge EXCEPT ![r.chal].used = TRUE]
          /\ uses' = [uses EXCEPT ![r.chal] = Append(@, Use(r))]
          /\ req' = [req EXCEPT ![s].todo = Tail(@), ![s].chal = None, ![s].for = None]
       \/ /\ challenge[r.chal].used
          /\ Finish(s)
          /\ UNCHANGED <<challenge, uses>>
    /\ UNCHANGED <<rowVars, session>>

\* challenges.save of a fresh random challenge.
Issue(s) ==
    LET r == req[s] IN
    /\ At(s, "issue")
    /\ \E c \in Challenge :
          /\ challenge[c] = NoChallenge
          /\ challenge' = [challenge EXCEPT ![c] =
                [NoChallenge EXCEPT !.device = r.device, !.for = r.for, !.token = r.token]]
    /\ Finish(s)
    /\ UNCHANGED <<rowVars, session, uses>>

\* sessions.save under a fresh random token.
Open(s) ==
    LET r == req[s] IN
    /\ At(s, "open")
    /\ \E t \in Token :
          /\ session[t] = NoSession
          /\ session' = [session EXCEPT ![t] =
                [status |-> "open", device |-> r.device, wallet |-> r.read,
                 expired |-> FALSE]]
    /\ Finish(s)
    /\ UNCHANGED <<rowVars, challenge, uses>>

CloseSession(t) ==
    session' = [session EXCEPT ![t] =
                  IF @ = NoSession THEN @ ELSE [@ EXCEPT !.status = "closed", !.expired = FALSE]]

\* logout(), and the deletion at the end of a failed validateSession.
Close(s) ==
    /\ At(s, "close") \/ At(s, "evict")
    /\ CloseSession(req[s].token)
    /\ Finish(s)
    /\ UNCHANGED <<rowVars, challenge, uses>>

\* The gates are passed and the handler of the protected route runs.
Run(s) ==
    /\ At(s, "run")
    /\ Finish(s)
    /\ UNCHANGED <<rowVars, challenge, session, uses>>

-----------------------------------------------------------------------------
(* The rows, as UsersService writes them, and the clock.                   *)

\* UsersService reads a row, and saves the whole row several awaits later,
\* whatever it is by then.  Any number of its requests may be under way, so that
\* a row that was once as a request wants it may be overwritten at any moment.

\* registerDevice, which found the device not ACTIVE, saves it with the key sent,
\* then a credential.
SaveDevice(k) ==
    /\ device' = [device EXCEPT ![DeviceOf[k]] = [status |-> "ACTIVE", key |-> k]]
    /\ UNCHANGED <<wallet, credential, challenge, session, req, uses>>

SaveCredential(d) ==
    /\ credential' = credential \cup {d}
    /\ UNCHANGED <<device, wallet, challenge, session, req, uses>>

\* revokeDevice, first save; the credentials follow, and the wallets
\* (RevokeWallet).
RevokeDevice(d) ==
    /\ device' = [device EXCEPT ![d].status = "REVOKED"]
    /\ UNCHANGED <<wallet, credential, challenge, session, req, uses>>

RevokeForDevice(d) ==
    /\ credential' = credential \ {d}
    /\ UNCHANGED <<device, wallet, challenge, session, req, uses>>

\* activateWallet or activateRegistration, which found the wallet PENDING, saves
\* it ACTIVE: also when another activation and a revocation came between.  To the
\* requests under way the wallet is then not revoked any longer.
ActivateWallet(w) ==
    /\ wallet' = [wallet EXCEPT ![w] = "ACTIVE"]
    /\ req' = [s \in Slot |-> IF UsesWallet(req[s], w) THEN [req[s] EXCEPT !.revoked = FALSE]
                            ELSE req[s]]
    /\ UNCHANGED <<device, credential, challenge, session, uses>>

\* revokeWallet, revokeDevice or activateWallet, which found the wallet ACTIVE,
\* saves it REVOKED; no row becomes PENDING again.
RevokeWallet(w) ==
    /\ wallet[w] # "PENDING"
    /\ wallet' = [wallet EXCEPT ![w] = "REVOKED"]
    /\ UNCHANGED <<device, credential, challenge, session, req, uses>>

\* Time passes; a used challenge and a closed session are refused anyway.
ExpireChallenge(c) ==
    /\ challenge[c] # NoChallenge /\ ~challenge[c].expired /\ ~challenge[c].used
    /\ challenge' = [challenge EXCEPT ![c].expired = TRUE]
    /\ UNCHANGED <<rowVars, session, req, uses>>

ExpireSession(t) ==
    /\ session[t].status = "open" /\ ~session[t].expired
    /\ session' = [session EXCEPT ![t].expired = TRUE]
    /\ UNCHANGED <<rowVars, challenge, req, uses>>

-----------------------------------------------------------------------------
AuthInit ==
    /\ device \in {f \in [Device -> [status : {"ACTIVE"}, key : Key]] :
                     \A d \in Device : DeviceOf[f[d].key] = d}
    /\ wallet = [w \in Key |-> IF w = device[DeviceOf[w]].key THEN "ACTIVE" ELSE "PENDING"]
    /\ credential = Device
    /\ challenge = [c \in Challenge |-> NoChallenge]
    /\ session = [t \in Token |-> NoSession]
    /\ req = [s \in Slot |-> Idle]
    /\ uses = [c \in Challenge |-> <<>>]

\* Bound: no more challenges, and sessions without one, are asked for than the
\* instance has left, one at a time.
InFlight(kinds) == \E s \in Slot : req[s] # Idle /\ req[s].kind \in kinds
ChallengeLeft ==
    ~InFlight({"loginChallenge", "freshChallenge"}) /\ \E c \in Challenge : challenge[c] = NoChallenge
TokenLeft ==
    ~InFlight({"legacyLogin"}) /\ \E t \in Token : session[t] = NoSession

\* What clients send: any known challenge and token.
Client(s) ==
    /\ req[s] = Idle
    /\ \/ /\ ChallengeLeft
          /\ \E d \in Device : Arrive(s, "loginChallenge", d, None, None, None)
       \/ /\ TokenLeft
          /\ \E d \in Device : Arrive(s, "legacyLogin", d, None, None, None)
       \/ \E d \in Device, c \in Challenge :
             challenge[c] # NoChallenge /\ Arrive(s, "login", d, c, None, None)
       \/ \E t \in Token :
             /\ session[t] # NoSession
             /\ \/ \E kind \in {"logout", "protected"} : Arrive(s, kind, None, None, t, None)
                \/ \E p \in Purpose :
                     \/ ChallengeLeft /\ Arrive(s, "freshChallenge", None, None, t, p)
                     \/ \E c \in Challenge :
                           challenge[c] # NoChallenge /\ Arrive(s, "fresh", None, c, t, p)

Serve(s) ==
    \/ ReadSession(s) \/ ReadCredential(s) \/ ReadDevice(s) \/ ReadSessionWallet(s)
    \/ ReadWallet(s) \/ ReadChallenge(s)
    \/ ConsumeIfUnused(s) \/ Issue(s) \/ Open(s) \/ Close(s) \/ Run(s)

AuthNext ==
    \/ \E s \in Slot : Client(s) \/ Serve(s)
    \/ \E d \in Device : SaveCredential(d) \/ RevokeDevice(d) \/ RevokeForDevice(d)
    \/ \E k \in Key : SaveDevice(k) \/ ActivateWallet(k) \/ RevokeWallet(k)
    \/ \E c \in Challenge : ExpireChallenge(c)
    \/ \E t \in Token : ExpireSession(t)

AuthSpec == AuthInit /\ [][AuthNext]_authVars

-----------------------------------------------------------------------------
(* Properties.                                                             *)

\* Rows, sessions and requests are well formed, and a session's wallet belongs
\* to its device.
AuthTypeOK ==
    /\ \A d \in Device : device[d].status \in {"ACTIVE", "REVOKED"} /\ device[d].key \in Key
    /\ wallet \in [Key -> {"PENDING", "ACTIVE", "REVOKED"}]
    /\ credential \subseteq Device
    /\ \A t \in Token : session[t] # NoSession => DeviceOf[session[t].wallet] = session[t].device

\* A challenge is good for one login, or for one protected operation on one
\* resource in one session, however many requests present it at once: it is
\* accepted at most once, and only for what it was issued for.  The check
\* happens several awaits before the challenge is consumed.
ChallengeSingleUse ==
    AuthTypeOK /\ \A c \in Challenge :
        /\ Len(uses[c]) <= 1
        /\ \A i \in DOMAIN uses[c] :
             /\ uses[c][i].device = challenge[c].device
             /\ uses[c][i].token = challenge[c].token
             /\ uses[c][i].for = challenge[c].for

\* docs/RBAC_MATRIX.md: "Revoking a wallet or device invalidates applicable
\* active sessions".  No session is touched by a revocation; still no request
\* that begins after its session was closed or has expired reaches a handler,
\* and none that begins after its wallet was revoked, even with a session that a
\* login already under way opened after the revocation.  The exception is a
\* wallet whose REVOKED row is overwritten while the request is under way.
DeadSessionsServeNothing ==
    \A s \in Slot : At(s, "run") => ~req[s].late /\ ~req[s].revoked

-----------------------------------------------------------------------------
(* Statements of the documentation that do not hold (see the README).      *)

\* What the sentence rests on, a revoked row that stays revoked: of two
\* overlapping activations one may save its row after the revocation, and the
\* sessions of the wallet serve again.
RevocationIsFinal ==
    [][\A w \in Key : wallet[w] = "REVOKED" => wallet'[w] = "REVOKED"]_authVars
=============================================================================
