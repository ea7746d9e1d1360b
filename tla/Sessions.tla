------------------------------ MODULE Sessions ------------------------------
(***************************************************************************)
(* The session of a browser tab: api, refreshAccessToken, login and logout  *)
(* of client/dashboard/app.ts, against AuthService                         *)
(* (src/auth/auth.service.ts) and the accounts of UsersService              *)
(* (src/users/users.service.ts).  The page boots with the session the tab   *)
(* kept, then has several calls under way; each that finds its access      *)
(* token expired exchanges the refresh token, and nothing keeps two of     *)
(* them from doing it at once.                                             *)
(*                                                                         *)
(* Tokens are issued in pairs, an access and a refresh token, which are one *)
(* number here; 0 is no token.  Access tokens are checked without the       *)
(* database, refresh tokens are rows of it.                                *)
(***************************************************************************)
EXTENDS Naturals, FiniteSets

CONSTANTS Calls,       \* calls of the tab under way
          Booting,     \* the first of them, sent as the page is loaded
          MaxTokens,   \* bound: pairs issued
          MaxLost      \* bound: requests that fail or lose their answer

ASSUME SessionsAssumption == /\ IsFiniteSet(Calls)
                             /\ Booting \in Calls
                             /\ MaxTokens \in Nat \ {0}
                             /\ MaxLost \in Nat

VARIABLES
  status,     \* of the account: ACTIVE or INACTIVE
  tokens,     \* refresh_tokens: none, live, revoked or expired
  expired,    \* the pairs whose access token has expired
  parent,     \* the token each was exchanged for, 0 after a login
  tab,        \* the pair the tab holds
  entered,    \* whether the app has been shown: boot, or a login, is done
  call,       \* where each call is, the pair it was sent with, the token it
              \* presents or was issued, whether it was retried or is boot's
  lost        \* requests that failed or lost their answer

server == <<status, tokens, expired, parent>>
client == <<tab, entered>>
sessions == <<server, client, call, lost>>

Pairs == 1..MaxTokens
Issued == {t \in Pairs : tokens[t] # "none"}
Idle == [stage |-> "idle", sent |-> 0, token |-> 0, retried |-> FALSE, boot |-> FALSE]

(* A call is sent; or presents a refresh token, which is found good, is     *)
(* revoked, has its account read, gives a new pair, is denied, or fails; or  *)
(* it logs in or out.                                                      *)
Exchanging == {"presented", "checked", "revoked", "active"}
Stages == Exchanging \union {"idle", "sent", "issued", "denied", "errored",
                            "password", "leaving", "left"}

SessionsTypeOK ==
  /\ status \in {"ACTIVE", "INACTIVE"}
  /\ tokens \in [Pairs -> {"none", "live", "revoked", "expired"}]
  /\ expired \subseteq Pairs
  /\ parent \in [Pairs -> 0..MaxTokens]
  /\ tab \in 0..MaxTokens
  /\ entered \in BOOLEAN
  /\ call \in [Calls -> [stage : Stages, sent : 0..MaxTokens, token : 0..MaxTokens,
                         retried : BOOLEAN, boot : BOOLEAN]]
  /\ lost \in 0..MaxLost

(* boot: the tab has a session, and asks for the user's profile.            *)
SessionsInit ==
  /\ status = "ACTIVE"
  /\ tokens = [t \in Pairs |-> IF t = 1 THEN "live" ELSE "none"]
  /\ expired = {}
  /\ parent = [t \in Pairs |-> 0]
  /\ tab = 1
  /\ entered = FALSE
  /\ call = [c \in Calls |-> IF c = Booting
                             THEN [stage |-> "sent", sent |-> 1, token |-> 0,
                                   retried |-> FALSE, boot |-> TRUE]
                             ELSE Idle]
  /\ lost = 0

At(c, stage) == call[c].stage = stage
Goes(c, from, to) == At(c, from) /\ call' = [call EXCEPT ![c].stage = to]
Ends(c) == call' = [call EXCEPT ![c] = Idle]

-----------------------------------------------------------------------------
(* The tab.  api sends the request with the access token it has now, or     *)
(* without: a view may still be loading when the session ends.             *)
Send(c) ==
  /\ At(c, "idle")
  /\ entered
  /\ call' = [call EXCEPT ![c] = [Idle EXCEPT !.stage = "sent", !.sent = tab]]
  /\ UNCHANGED <<server, client, lost>>

Authorized(c) == call[c].sent # 0 /\ call[c].sent \notin expired

(* An answer that is no 401; the profile's shows the app.                    *)
Answered(c) ==
  /\ At(c, "sent")
  /\ Authorized(c)
  /\ entered' = (entered \/ call[c].boot)
  /\ Ends(c)
  /\ UNCHANGED <<server, tab, lost>>

(* A 401, once: the refresh token of the tab is presented.                  *)
Refresh(c) ==
  /\ At(c, "sent")
  /\ ~Authorized(c)
  /\ ~call[c].retried
  /\ tab # 0
  /\ call' = [call EXCEPT ![c].stage = "presented", ![c].token = tab]
  /\ UNCHANGED <<server, client, lost>>

(* setSession; after a login the app is shown, after a refresh the request   *)
(* is sent again.                                                          *)
Renewed(c) ==
  /\ At(c, "issued")
  /\ tab' = call[c].token
  /\ IF parent[call[c].token] = 0 THEN entered' = TRUE /\ Ends(c)
     ELSE /\ call' = [call EXCEPT ![c].stage = "sent", ![c].sent = call[c].token,
                                  ![c].token = 0, ![c].retried = TRUE]
          /\ UNCHANGED entered
  /\ UNCHANGED <<server, lost>>

(* clearSession: the exchange was refused or failed, there is nothing to     *)
(* exchange, the retry was refused, or the password was.                   *)
ClearSession(c) ==
  /\ \/ call[c].stage \in {"denied", "errored", "password"}
     \/ At(c, "sent") /\ ~Authorized(c) /\ (call[c].retried \/ tab = 0)
  /\ tab' = 0
  /\ Ends(c)
  /\ UNCHANGED <<server, entered, lost>>

(* fetch rejects, whatever the server did, or the answer is an error; boot   *)
(* catches it and clears the session.                                      *)
(* Faulty variant: every call does.                                         *)
LoseAndClear(c) ==
  /\ call[c].stage \in {"sent", "issued", "denied"}
  /\ lost < MaxLost
  /\ lost' = lost + 1
  /\ tab' = 0
  /\ Ends(c)
  /\ UNCHANGED <<server, entered>>
Lose(c) ==
  /\ call[c].stage \in {"sent", "issued", "denied"}
  /\ lost < MaxLost
  /\ lost' = lost + 1
  /\ tab' = IF call[c].boot THEN 0 ELSE tab
  /\ Ends(c)
  /\ UNCHANGED <<server, entered>>

LoggingIn(c) == \/ call[c].stage \in {"password", "active"} /\ call[c].token = 0
                \/ At(c, "issued") /\ parent[call[c].token] = 0

(* The form of login is there from the start, and disabled while it waits.  *)
LoginSent(c) ==
  /\ tab = 0 \/ ~entered
  /\ \A d \in Calls : ~LoggingIn(d)
  /\ Goes(c, "idle", "password")
  /\ UNCHANGED <<server, client, lost>>

(* logout clears the session whether or not it revoked the token.           *)
LogoutSent(c) ==
  /\ At(c, "idle")
  /\ entered /\ tab # 0
  /\ call' = [call EXCEPT ![c] = [Idle EXCEPT !.stage = "leaving", !.token = tab]]
  /\ UNCHANGED <<server, client, lost>>
LogoutEnds(c) ==
  /\ Goes(c, "leaving", "left")
  /\ tokens' \in {tokens, [tokens EXCEPT ![call[c].token] = IF @ = "live" THEN "revoked" ELSE @]}
  /\ UNCHANGED <<status, expired, parent, client, lost>>
LogoutClears(c) ==
  /\ At(c, "left")
  /\ tab' = 0
  /\ Ends(c)
  /\ UNCHANGED <<server, entered, lost>>

-----------------------------------------------------------------------------
(* The server's refresh: every await is a step.                             *)
Deny(c) == /\ Goes(c, "presented", "denied")
           /\ tokens[call[c].token] # "live"
           /\ UNCHANGED <<server, client, lost>>

(* Faulty variant: the row is looked up without its revokedAt.              *)
CheckUnrevoked(c) == /\ Goes(c, "presented", "checked")
                     /\ tokens[call[c].token] # "expired"
                     /\ UNCHANGED <<server, client, lost>>
Check(c) == /\ Goes(c, "presented", "checked")
            /\ tokens[call[c].token] = "live"
            /\ UNCHANGED <<server, client, lost>>

Revoke(c) ==
  /\ Goes(c, "checked", "revoked")
  /\ tokens' = [tokens EXCEPT ![call[c].token] = "revoked"]
  /\ UNCHANGED <<status, expired, parent, client, lost>>

ReadAccount(c) ==
  /\ Goes(c, "revoked", IF status = "ACTIVE" THEN "active" ELSE "denied")
  /\ UNCHANGED <<server, client, lost>>

(* A statement of the exchange fails, after which the token may be revoked.  *)
ExchangeFails(c) ==
  /\ call[c].stage \in Exchanging
  /\ call[c].token # 0
  /\ lost < MaxLost
  /\ lost' = lost + 1
  /\ call' = [call EXCEPT ![c].stage = "errored"]
  /\ UNCHANGED <<server, client>>

(* login, with a good password.                                             *)
Login(c) ==
  /\ Goes(c, "password", "active")
  /\ status = "ACTIVE"
  /\ UNCHANGED <<server, client, lost>>

(* issueTokens: the next pair.                                              *)
Issue(c) ==
  /\ At(c, "active")
  /\ Pairs # Issued
  /\ LET t == Cardinality(Issued) + 1
     IN /\ tokens' = [tokens EXCEPT ![t] = "live"]
        /\ parent' = [parent EXCEPT ![t] = call[c].token]
        /\ call' = [call EXCEPT ![c].stage = "issued", ![c].token = t]
  /\ UNCHANGED <<status, expired, client, lost>>

(* UsersService.update; no token is revoked.  Time passes for the tokens.   *)
UpdateAccount ==
  /\ status' \in {"ACTIVE", "INACTIVE"} \ {status}
  /\ UNCHANGED <<tokens, expired, parent, client, call, lost>>
ExpireAccess(t) ==
  /\ t \in Issued \ expired
  /\ expired' = expired \union {t}
  /\ UNCHANGED <<status, tokens, parent, client, call, lost>>
ExpireRefresh(t) ==
  /\ tokens[t] = "live"
  /\ tokens' = [tokens EXCEPT ![t] = "expired"]
  /\ UNCHANGED <<status, expired, parent, client, call, lost>>

SessionStep(c) ==
  \/ Send(c) \/ Answered(c) \/ Refresh(c) \/ Renewed(c) \/ ClearSession(c) \/ Lose(c)
  \/ LoginSent(c) \/ LogoutSent(c) \/ LogoutEnds(c) \/ LogoutClears(c)
  \/ Deny(c) \/ Check(c) \/ Revoke(c) \/ ReadAccount(c) \/ ExchangeFails(c) \/ Login(c) \/ Issue(c)

SessionsNext ==
  \/ \E c \in Calls : SessionStep(c)
  \/ UpdateAccount
  \/ \E t \in Pairs : ExpireAccess(t) \/ ExpireRefresh(t)

SessionsSpec == SessionsInit /\ [][SessionsNext]_sessions

-----------------------------------------------------------------------------
(* A refresh token that was rotated, revoked or has expired stays so, and    *)
(* gives pairs only to calls that had passed its check before: the claims   *)
(* on it, pairs issued and calls past the check, never grow again.          *)
Children(t) == {u \in Issued : parent[u] = t}
PastCheck(t) == {c \in Calls : /\ call[c].stage \in {"checked", "revoked", "active"}
                               /\ call[c].token = t}
Claims(t) == Cardinality(Children(t)) + Cardinality(PastCheck(t))
RevokedStaysSpent ==
  [][ \A t \in Issued : tokens[t] # "live" =>
        tokens'[t] # "live" /\ Claims(t)' <= Claims(t) ]_sessions

(* A session whose refresh token is good is ended only by logging out, by a *)
(* failed boot, exchange or login, by a retry that is refused, or by a call *)
(* that was refused for an older token while another had renewed the       *)
(* session: never by the answer to the tab's own token.                    *)
GoodSessionEnds ==
  [][ tab # 0 /\ tab' = 0 /\ tokens[tab] = "live" =>
        \E c \in Calls :
          /\ call[c].stage # "idle" /\ call'[c].stage = "idle"
          /\ \/ call[c].stage \in {"left", "errored", "password"}
             \/ At(c, "sent") /\ call[c].retried
             \/ call[c].boot
             \/ At(c, "denied") /\ call[c].token # tab ]_sessions
=============================================================================
