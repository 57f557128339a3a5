------------------------------ MODULE Accounts ------------------------------
(***************************************************************************)
(* One account (one email address) and its key vault: registration, login  *)
(* with an optional second factor, sessions, password change and deletion  *)
(* (routes/auth.js), the vault (routes/vault.js), and the repositories     *)
(* under them.                                                             *)
(*                                                                         *)
(* Every handler is synchronous or one db.transaction, so a request is a   *)
(* step; what interleaves are the requests of several devices, each acting *)
(* on what it fetched earlier.  The client is the one the comments of      *)
(* these files describe: it keeps the password that was typed, from which  *)
(* it derives both authHash and the key that wraps the vault.              *)
(***************************************************************************)
EXTENDS Integers

CONSTANTS
  Devices,      \* browsers, each with its cookies and one tab
  Passwords,
  Keys,         \* masternode keys a vault may hold
  None,
  Sliding,      \* slidingMs
  Absolute,     \* absoluteMs
  TokenTtl,     \* ttlMs of a verification link
  ChallengeTtl, \* CHALLENGE_TTL_MS
  MaxAttempts,  \* MAX_CHALLENGE_ATTEMPTS
  MaxWrites,    \* bound: vault blobs ever written
  MaxAccounts,  \* bound: accounts ever created for the address
  MaxTime       \* bound: the clock stops here

ASSUME AccountsAssumption ==
  /\ {TokenTtl, ChallengeTtl, MaxWrites, MaxAccounts, MaxTime} \subseteq Nat
  /\ Sliding \in Nat /\ Absolute \in Nat /\ Sliding <= Absolute
  /\ MaxAttempts \in Nat \ {0}
  /\ None \notin Passwords \cup Devices \cup Nat

VARIABLES
  account,   \* the row of users with the one of user_totp
  vault,     \* the row of vaults; etag 0: no row
  links,     \* pending_registrations: verification links mailed out
  challenge, \* mfa_challenges: at most one per user
  session,   \* per device, the session its cookie names
  client,    \* per device, what the client keeps in memory
  written,   \* vault blobs written so far
  created,   \* accounts created so far
  saved,     \* history: keys whose PUT was answered 200
  now        \* the clock

vars == <<account, vault, links, challenge, session, client, written, created,
          saved, now>>

-----------------------------------------------------------------------------
Times == 0..MaxTime
Etags == 0..MaxWrites

Account == [pass: Passwords \cup {None}, mfa: BOOLEAN,
            setup: Devices \cup {None}]
NoAccount == [pass |-> None, mfa |-> FALSE, setup |-> None]
Exists == account.pass # None

\* A blob's etag is its hash; blobs carry random IVs, so no two are the same.
Vault == [etag: Etags, wrap: Passwords \cup {None}, keys: SUBSET Keys]
NoVault == [etag |-> 0, wrap |-> None, keys |-> {}]

Link == [pass: Passwords, expires: Nat, epoch: 0..MaxAccounts]

Challenge == [device: Devices \cup {None}, expires: Nat,
              attempts: 0..MaxAttempts]
NoChallenge == [device |-> None, expires |-> 0, attempts |-> 0]

Session == [open: BOOLEAN, created: Times, expires: Nat]
NoSession == [open |-> FALSE, created |-> 0, expires |-> 0]
NewSession == [open |-> TRUE, created |-> now, expires |-> now + Sliding]
Closed == [d \in Devices |-> NoSession]

\* pass: as typed; proved: /verify-password said it is the account's;
\* seen: the etag of the blob that was fetched and opened, 0 for "no vault yet"
\* (If-Match: *), None if nothing was; keys: what was in it.
Client == [pass: Passwords \cup {None}, proved: BOOLEAN,
           seen: Etags \cup {None}, keys: SUBSET Keys]
Typed(p) == [pass |-> p, proved |-> FALSE, seen |-> None, keys |-> {}]

Init ==
  /\ account = NoAccount
  /\ vault = NoVault
  /\ links = {}
  /\ challenge = NoChallenge
  /\ session = Closed
  /\ client = [d \in Devices |-> Typed(None)]
  /\ written = 0
  /\ created = 0
  /\ saved = {}
  /\ now = 0

-----------------------------------------------------------------------------
(* Sessions.                                                               *)

Earlier(m, n) == IF m < n THEN m ELSE n

\* verify: neither limit has passed, and the sliding one is moved on.
Alive(s) == s.open /\ s.expires >= now /\ s.created + Absolute >= now
Slid(s) == [s EXCEPT !.expires = Earlier(now + Sliding, s.created + Absolute)]

\* A request of device d passes requireAuth.  Every request extends a
\* live session.
Authenticated(d) == Alive(session[d])
Extended(d) == [session EXCEPT ![d] = IF Alive(@) THEN Slid(@) ELSE @]

\* verifyPasswordStepUp: the password typed there is the account's.
StepUp(d) == Authenticated(d) /\ Exists /\ client[d].pass = account.pass

Remember(d, memory) == client' = [client EXCEPT ![d] = memory]

\* Any authenticated request that only reads, or is rejected.
Touch(d) ==
  /\ Authenticated(d)
  /\ session' = Extended(d)
  /\ UNCHANGED <<account, vault, links, challenge, client, written, created,
                 saved, now>>

Logout(d) ==
  /\ session' = [session EXCEPT ![d] = NoSession]
  /\ UNCHANGED <<account, vault, links, challenge, client, written, created,
                 saved, now>>

-----------------------------------------------------------------------------
(* Registration.  An account is created, verified, when a link is redeemed.*)

Register(d) ==
  /\ client[d].pass # None
  /\ ~Exists
  /\ links' = links \cup {[pass |-> client[d].pass, expires |-> now + TokenTtl,
                           epoch |-> created]}
  /\ UNCHANGED <<account, vault, challenge, session, client, written, created,
                 saved, now>>

\* purgeForEmail.
PurgedOne(link) == links \ {link}   \* variant: only the redeemed link goes
Purged(link) == {}

\* redeem, then create the account and purge the address's links, atomically.
VerifyEmail(link) ==
  /\ link \in links
  /\ link.expires >= now
  /\ created < MaxAccounts
  /\ links' = Purged(link)
  /\ IF Exists THEN UNCHANGED <<account, created>>
     ELSE /\ account' = [NoAccount EXCEPT !.pass = link.pass]
          /\ created' = created + 1
  /\ UNCHANGED <<vault, challenge, session, client, written, saved, now>>

\* An expired link is removed when it is looked at.
LinkExpired(link) ==
  /\ link \in links
  /\ link.expires < now
  /\ links' = links \ {link}
  /\ UNCHANGED <<account, vault, challenge, session, client, written, created,
                 saved, now>>

-----------------------------------------------------------------------------
(* Login.                                                                  *)

\* The user types a password: to log in, to register, or to open the vault.
TypePassword(d, p) ==
  /\ Remember(d, Typed(p))
  /\ UNCHANGED <<account, vault, links, challenge, session, written, created,
                 saved, now>>

\* The right password gives a session or, with a second factor, a challenge
\* that replaces the user's earlier ones.
Login(d) ==
  /\ Exists
  /\ client[d].pass = account.pass
  /\ IF account.mfa
       THEN /\ challenge' = [device |-> d, expires |-> now + ChallengeTtl,
                             attempts |-> 0]
            /\ session' = Extended(d)
       ELSE /\ session' = [session EXCEPT ![d] = NewSession]
            /\ challenge' = challenge
  /\ Remember(d, Typed(client[d].pass))
  /\ UNCHANGED <<account, vault, links, written, created, saved, now>>

TooManyOffByOne == challenge.attempts > MaxAttempts   \* variant
TooMany == challenge.attempts >= MaxAttempts
Answerable == challenge.expires >= now /\ ~TooMany /\ account.mfa

\* verifyChallenge.
ChallengeDead(d) ==
  /\ challenge.device = d
  /\ ~Answerable
  /\ challenge' = NoChallenge
  /\ session' = Extended(d)
  /\ UNCHANGED <<account, vault, links, client, written, created,
                 saved, now>>

ChallengeWrong(d) ==
  /\ challenge.device = d
  /\ Answerable
  /\ challenge' = [challenge EXCEPT !.attempts = @ + 1]
  /\ session' = Extended(d)
  /\ UNCHANGED <<account, vault, links, client, written, created,
                 saved, now>>

ChallengeRight(d) ==
  /\ challenge.device = d
  /\ Answerable
  /\ challenge' = NoChallenge
  /\ session' = [session EXCEPT ![d] = NewSession]
  /\ Remember(d, Typed(client[d].pass))
  /\ UNCHANGED <<account, vault, links, written, created, saved, now>>

-----------------------------------------------------------------------------
(* The second factor.  A setup belongs to the device that was shown its    *)
(* secret: only there can its code be produced.                            *)

BeginSetup(d) ==
  /\ StepUp(d)
  /\ account' = [account EXCEPT !.setup = d]
  /\ session' = Extended(d)
  /\ UNCHANGED <<vault, links, challenge, client, written, created,
                 saved, now>>

EnableSetup(d) ==
  /\ StepUp(d)
  /\ account.setup = d
  /\ account' = [account EXCEPT !.mfa = TRUE, !.setup = None]
  /\ session' = Extended(d)
  /\ UNCHANGED <<vault, links, challenge, client, written, created,
                 saved, now>>

DisableTotp(d) ==
  /\ StepUp(d)
  /\ account.mfa
  /\ account' = [account EXCEPT !.mfa = FALSE, !.setup = None]
  /\ session' = Extended(d)
  /\ UNCHANGED <<vault, links, challenge, client, written, created,
                 saved, now>>

-----------------------------------------------------------------------------
(* The vault.                                                              *)

\* POST /verify-password says 204.
VerifyPassword(d) ==
  /\ StepUp(d)
  /\ client' = [client EXCEPT ![d].proved = TRUE]
  /\ session' = Extended(d)
  /\ UNCHANGED <<account, vault, links, challenge, written, created, saved,
                 now>>

\* GET /vault.  The client can use a blob it can open.
GetVault(d) ==
  LET opens == vault.etag = 0 \/ vault.wrap = client[d].pass IN
  /\ Authenticated(d)
  /\ client[d].pass # None
  /\ client' = [client EXCEPT ![d].seen = IF opens THEN vault.etag ELSE None,
                              ![d].keys = IF opens THEN vault.keys ELSE {}]
  /\ session' = Extended(d)
  /\ UNCHANGED <<account, vault, links, challenge, written, created, saved,
                 now>>

\* put: If-Match names the stored blob, "*" that there is none.
MatchesAny(ifMatch) == ifMatch # None   \* variant: the UPDATE has no etag
Matches(ifMatch) == ifMatch = vault.etag

\* The client writes what it opened, or first writes after /verify-password.
MayWrite(d) ==
  client[d].seen # None /\ (client[d].seen = 0 => client[d].proved)

\* A new blob under password p; the writer knows its etag.
Write(d, p, keys) ==
  /\ written < MaxWrites
  /\ written' = written + 1
  /\ vault' = [etag |-> written + 1, wrap |-> p, keys |-> keys]
  /\ Remember(d, [pass |-> p, proved |-> client[d].proved,
                  seen |-> written + 1, keys |-> keys])

\* PUT /vault, 200: the keys the client knows and a new one.
PutVault(d, k) ==
  /\ Authenticated(d)
  /\ MayWrite(d)
  /\ Matches(client[d].seen)
  /\ Write(d, client[d].pass, client[d].keys \cup {k})
  /\ saved' = saved \cup {k}
  /\ session' = Extended(d)
  /\ UNCHANGED <<account, links, challenge, created, now>>

-----------------------------------------------------------------------------
(* Password change and deletion.                                           *)

\* 409 vault_rewrap_required otherwise.
MayOmitVaultAlways == TRUE   \* variant: the check is missing
MayOmitVault == vault.etag = 0

\* All sessions are revoked and this device gets a new one.
OnlyHere(d) == [Closed EXCEPT ![d] = NewSession]

\* Without a vault in the request.
ChangePassword(d, p) ==
  /\ StepUp(d)
  /\ MayOmitVault
  /\ account' = [account EXCEPT !.pass = p]
  /\ session' = OnlyHere(d)
  /\ Remember(d, Typed(p))
  /\ UNCHANGED <<vault, links, challenge, written, created, saved,
                 now>>

\* With the vault the client opened (or a first one), wrapped anew.
ChangePasswordAndRewrap(d, p) ==
  /\ StepUp(d)
  /\ client[d].seen # None
  /\ Matches(client[d].seen)
  /\ Write(d, p, client[d].keys)
  /\ account' = [account EXCEPT !.pass = p]
  /\ session' = OnlyHere(d)
  /\ UNCHANGED <<links, challenge, created, saved, now>>

\* DELETE /account: links are purged, everything else cascades.
DeleteAccount(d) ==
  /\ StepUp(d)
  /\ account' = NoAccount
  /\ vault' = NoVault
  /\ links' = {}
  /\ challenge' = NoChallenge
  /\ session' = Closed
  /\ saved' = {}
  /\ UNCHANGED <<client, written, created, now>>

ClockTick ==
  /\ now < MaxTime
  /\ now' = now + 1
  /\ UNCHANGED <<account, vault, links, challenge, session, client, written,
                 created, saved>>

-----------------------------------------------------------------------------
Request(d) ==
  \/ Touch(d)
  \/ Logout(d)
  \/ Register(d)
  \/ \E p \in Passwords : \/ TypePassword(d, p)
                          \/ ChangePassword(d, p)
                          \/ ChangePasswordAndRewrap(d, p)
  \/ Login(d)
  \/ ChallengeDead(d)
  \/ ChallengeWrong(d)
  \/ ChallengeRight(d)
  \/ BeginSetup(d)
  \/ EnableSetup(d)
  \/ DisableTotp(d)
  \/ VerifyPassword(d)
  \/ GetVault(d)
  \/ \E k \in Keys : PutVault(d, k)
  \/ DeleteAccount(d)

Next ==
  \/ \E d \in Devices : Request(d)
  \/ \E link \in links : VerifyEmail(link) \/ LinkExpired(link)
  \/ ClockTick

Spec == Init /\ [][Next]_vars

-----------------------------------------------------------------------------
(* Properties.                                                             *)

TypeOK ==
  /\ account \in Account
  /\ vault \in Vault
  /\ links \subseteq Link
  /\ challenge \in Challenge
  /\ session \in [Devices -> Session]
  /\ client \in [Devices -> Client]
  /\ written \in Etags
  /\ created \in 0..MaxAccounts
  /\ saved \subseteq Keys
  /\ now \in Times

\* No lock-out: the stored vault always opens with the account's password,
\* however logins, challenges, password changes and first writes of several
\* devices interleave.
VaultOpens == vault.etag # 0 => vault.wrap = account.pass

\* No lost update: a key whose PUT succeeded stays in the vault as long as the
\* account exists, whatever other devices write and whoever changes the
\* password.
KeysKept == saved \subseteq vault.keys

\* Of several verification links one wins: while the account exists, and after
\* it was deleted, no link mailed before its creation can be redeemed.
LinksDie == /\ Exists => links = {}
            /\ \A link \in links : link.epoch = created

-----------------------------------------------------------------------------
(* The inductive strengthening of VaultOpens and KeysKept.                 *)

\* Sessions, and a vault, exist only beside the account.
CascadeOK ==
  /\ ~Exists => /\ vault = NoVault
                /\ saved = {}
                /\ session = Closed
                /\ challenge = NoChallenge
  /\ vault.etag = 0 => saved = {} /\ vault.keys = {}
  /\ vault.etag <= written

\* While its session lasts, what a client proved of its password stays true: a
\* password change leaves no session but the one of the device that made it.
ProvedOK ==
  \A d \in Devices : session[d].open /\ client[d].proved =>
    client[d].pass = account.pass

\* A client that opened the stored blob has its password and knows its keys.
SeenOK ==
  \A d \in Devices :
    /\ client[d].seen # None => /\ client[d].seen <= written
                                /\ client[d].pass # None
    /\ client[d].seen = 0 => client[d].keys = {}
    /\ client[d].seen = vault.etag /\ vault.etag # 0 =>
         client[d].pass = vault.wrap /\ client[d].keys = vault.keys

VaultInv == TypeOK /\ CascadeOK /\ ProvedOK /\ SeenOK /\ VaultOpens /\ KeysKept
=============================================================================
