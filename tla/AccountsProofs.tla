--------------------------- MODULE AccountsProofs ---------------------------
(***************************************************************************)
(* Theorems about the account and its vault, for every number of devices,  *)
(* passwords and keys.                                                     *)
(***************************************************************************)
EXTENDS Accounts, TLAPS

\* A session's record after a request, a login or a password change.
LEMMA SessionTypes ==
  ASSUME TypeOK, NEW d \in Devices
  PROVE  /\ NoSession \in Session /\ NewSession \in Session
         /\ Extended(d) \in [Devices -> Session]
         /\ OnlyHere(d) \in [Devices -> Session]
         /\ \A s \in Session : [session EXCEPT ![d] = s] \in [Devices -> Session]
<1>1. now \in Times /\ now \in Nat /\ 0 \in Times
  BY AccountsAssumption DEF TypeOK, Times
<1>2. NoSession \in Session /\ NewSession \in Session
  BY <1>1, AccountsAssumption DEF NoSession, NewSession, Session
<1>3. \A s \in Session : [session EXCEPT ![d] = s] \in [Devices -> Session]
  BY DEF TypeOK
<1>4. Slid(session[d]) \in Session
  <2>1. session[d] \in Session
    BY DEF TypeOK
  <2>2. Earlier(now + Sliding, session[d].created + Absolute) \in Nat
    BY <1>1, <2>1, AccountsAssumption DEF Session, Times, Earlier
  <2> QED
    BY <2>1, <2>2 DEF Slid, Session
<1>5. Extended(d) \in [Devices -> Session]
  BY <1>4 DEF Extended, TypeOK
<1>6. OnlyHere(d) \in [Devices -> Session]
  BY <1>2 DEF OnlyHere, Closed
<1> QED
  BY <1>2, <1>3, <1>5, <1>6

\* What a client remembers after a password was typed or a blob written.
LEMMA MemoryTypes ==
  ASSUME TypeOK, NEW d \in Devices
  PROVE  /\ \A p \in Passwords \cup {None} : Typed(p) \in Client
         /\ \A m \in Client : Remember(d, m) => client' \in [Devices -> Client]
         /\ \A p \in Passwords, ks \in SUBSET Keys : Write(d, p, ks) =>
              /\ client' \in [Devices -> Client]
              /\ vault' \in Vault
              /\ written' \in Etags
<1>1. \A p \in Passwords \cup {None} : Typed(p) \in Client
  BY DEF Typed, Client
<1>2. \A m \in Client : Remember(d, m) => client' \in [Devices -> Client]
  BY DEF Remember, TypeOK
<1>3. ASSUME NEW p \in Passwords, NEW ks \in SUBSET Keys, Write(d, p, ks)
      PROVE  /\ client' \in [Devices -> Client]
             /\ vault' \in Vault
             /\ written' \in Etags
  <2>1. written + 1 \in Etags
    BY <1>3, AccountsAssumption DEF Write, TypeOK, Etags
  <2>2. client[d].proved \in BOOLEAN
    BY DEF TypeOK, Client
  <2>3. [pass |-> p, proved |-> client[d].proved, seen |-> written + 1,
         keys |-> ks] \in Client
    BY <2>1, <2>2 DEF Client
  <2> QED
    BY <1>2, <1>3, <2>1, <2>3 DEF Write, Vault
<1> QED
  BY <1>1, <1>2, <1>3

\* Initially there is nothing.
LEMMA InitType == Init => TypeOK
<1> SUFFICES ASSUME Init PROVE TypeOK
  OBVIOUS
<1>1. 0 \in Times /\ 0 \in Etags /\ 0 \in 0..MaxAccounts /\ 0 \in 0..MaxAttempts
  BY AccountsAssumption DEF Times, Etags
<1>2. NoAccount \in Account /\ NoVault \in Vault
  BY <1>1 DEF NoAccount, Account, NoVault, Vault
<1>3. NoChallenge \in Challenge /\ Closed \in [Devices -> Session]
  BY <1>1 DEF NoChallenge, Challenge, Closed, NoSession, Session
<1>4. client \in [Devices -> Client]
  BY DEF Init, Typed, Client
<1> QED
  BY <1>1, <1>2, <1>3, <1>4 DEF Init, TypeOK

\* A request keeps the types; that a blob is never wrapped by "no password"
\* follows from SeenOK.
LEMMA RequestType ==
  ASSUME TypeOK, SeenOK, NEW d \in Devices, Request(d)
  PROVE  TypeOK'
<1> USE DEF TypeOK
<1>0. /\ Extended(d) \in [Devices -> Session]
      /\ client[d] \in Client
      /\ NoChallenge \in Challenge
  BY SessionTypes, AccountsAssumption DEF NoChallenge, Challenge
<1>1. CASE Touch(d)
  BY <1>0, <1>1 DEF Touch
<1>2. CASE Logout(d)
  BY <1>2, SessionTypes DEF Logout
<1>3. CASE Register(d)
  <2>1. [pass |-> client[d].pass, expires |-> now + TokenTtl,
         epoch |-> created] \in Link
    BY <1>0, <1>3, AccountsAssumption DEF Register, Link, Client, Times
  <2> QED
    BY <1>3, <2>1 DEF Register
<1>4. CASE \E p \in Passwords : TypePassword(d, p)
  BY <1>4, MemoryTypes DEF TypePassword
<1>5. CASE \E p \in Passwords : ChangePassword(d, p)
  BY <1>5, MemoryTypes, SessionTypes DEF ChangePassword, Account
<1>6. CASE \E p \in Passwords : ChangePasswordAndRewrap(d, p)
  <2>1. PICK p \in Passwords : ChangePasswordAndRewrap(d, p)
    BY <1>6
  <2>2. client[d].keys \in SUBSET Keys
    BY <1>0 DEF Client
  <2> QED
    BY <2>1, <2>2, MemoryTypes, SessionTypes
    DEF ChangePasswordAndRewrap, Account
<1>7. CASE Login(d)
  <2>1. client' \in [Devices -> Client]
    BY <1>0, <1>7, MemoryTypes DEF Login, Client
  <2>2. [device |-> d, expires |-> now + ChallengeTtl, attempts |-> 0] \in Challenge
    BY AccountsAssumption DEF Challenge, Times
  <2>3. challenge' \in Challenge /\ session' \in [Devices -> Session]
    BY <1>0, <1>7, <2>2, SessionTypes DEF Login
  <2> QED
    BY <1>7, <2>1, <2>3 DEF Login
<1>8. CASE ChallengeDead(d)
  BY <1>0, <1>8 DEF ChallengeDead
<1>9. CASE ChallengeWrong(d)
  <2>1. challenge' \in Challenge
    BY <1>9, AccountsAssumption DEF ChallengeWrong, Answerable, TooMany, Challenge
  <2> QED
    BY <1>0, <1>9, <2>1 DEF ChallengeWrong
<1>10. CASE ChallengeRight(d)
  <2>1. client' \in [Devices -> Client]
    BY <1>0, <1>10, MemoryTypes DEF ChallengeRight, Client
  <2> QED
    BY <1>0, <1>10, <2>1, SessionTypes DEF ChallengeRight
<1>11. CASE BeginSetup(d)
  BY <1>0, <1>11 DEF BeginSetup, Account
<1>12. CASE EnableSetup(d)
  BY <1>0, <1>12 DEF EnableSetup, Account
<1>13. CASE DisableTotp(d)
  BY <1>0, <1>13 DEF DisableTotp, Account
<1>14. CASE VerifyPassword(d)
  BY <1>0, <1>14 DEF VerifyPassword, Client
<1>15. CASE GetVault(d)
  <2>1. vault.etag \in Etags /\ vault.keys \in SUBSET Keys
    BY DEF Vault
  <2>2. client' \in [Devices -> Client]
    BY <1>0, <1>15, <2>1 DEF GetVault, Client
  <2> QED
    BY <1>0, <1>15, <2>2 DEF GetVault
<1>16. CASE \E k \in Keys : PutVault(d, k)
  <2>1. PICK k \in Keys : PutVault(d, k)
    BY <1>16
  <2>2. client[d].keys \cup {k} \in SUBSET Keys
    BY <1>0 DEF Client
  <2>3. client[d].pass \in Passwords
    BY <1>0, <2>1 DEF PutVault, MayWrite, SeenOK, Client
  <2> QED
    BY <1>0, <2>1, <2>2, <2>3, MemoryTypes DEF PutVault
<1>17. CASE DeleteAccount(d)
  <2>1. NoAccount \in Account /\ NoVault \in Vault
    BY AccountsAssumption DEF NoAccount, Account, NoVault, Vault, Etags
  <2>2. Closed \in [Devices -> Session]
    BY SessionTypes DEF Closed
  <2> QED
    BY <1>0, <1>17, <2>1, <2>2 DEF DeleteAccount
<1> QED
  BY <1>1, <1>2, <1>3, <1>4, <1>5, <1>6, <1>7, <1>8, <1>9, <1>10, <1>11, <1>12,
     <1>13, <1>14, <1>15, <1>16, <1>17 DEF Request

\* The clock and the links keep the types.
LEMMA OtherType ==
  ASSUME TypeOK,
         \/ \E link \in links : VerifyEmail(link) \/ LinkExpired(link)
         \/ ClockTick
         \/ UNCHANGED vars
  PROVE  TypeOK'
<1> USE DEF TypeOK
<1>1. ASSUME NEW link \in links, VerifyEmail(link) PROVE TypeOK'
  <2>1. link.pass \in Passwords
    BY DEF Link
  <2>2. account' \in Account
    BY <1>1, <2>1 DEF VerifyEmail, Account, NoAccount
  <2>3. created' \in 0..MaxAccounts
    BY <1>1, AccountsAssumption DEF VerifyEmail
  <2> QED
    BY <1>1, <2>2, <2>3 DEF VerifyEmail, Purged
<1>2. ASSUME NEW link \in links, LinkExpired(link) PROVE TypeOK'
  BY <1>2 DEF LinkExpired
<1>3. CASE ClockTick
  BY <1>3, AccountsAssumption DEF ClockTick, Times, Session
<1>4. CASE UNCHANGED vars
  BY <1>4 DEF vars
<1> QED
  BY <1>1, <1>2, <1>3, <1>4

-----------------------------------------------------------------------------
(* The vault.                                                              *)

\* Only an open session of an existing account makes an authenticated request,
\* and a request does not open one.
LEMMA OpenSession ==
  ASSUME TypeOK, CascadeOK, NEW d \in Devices
  PROVE  /\ Authenticated(d) => Exists /\ session[d].open
         /\ ~Exists => Extended(d) = Closed
         /\ \A e \in Devices : Extended(d)[e].open = session[e].open
<1>1. Authenticated(d) => session[d].open
  BY DEF Authenticated, Alive
<1>2. ~Exists => ~session[d].open
  BY DEF CascadeOK, Closed, NoSession
<1>3. ASSUME ~Exists PROVE Extended(d) = Closed
  <2>1. session = Closed /\ ~Alive(session[d])
    BY <1>2, <1>3 DEF CascadeOK, Alive
  <2>2. session \in [Devices -> Session]
    BY DEF TypeOK
  <2> QED
    BY <2>1, <2>2 DEF Extended
<1>4. \A e \in Devices : Extended(d)[e].open = session[e].open
  <2>1. session[d] \in Session /\ session \in [Devices -> Session]
    BY DEF TypeOK
  <2>2. Slid(session[d]).open = session[d].open
    BY <2>1 DEF Slid, Session
  <2> QED
    BY <2>1, <2>2 DEF Extended
<1> QED
  BY <1>1, <1>2, <1>3, <1>4

\* An authenticated client that may write at the stored etag knows the
\* account's password, and every key that was saved.
LEMMA WriterKnows ==
  ASSUME VaultInv, NEW d \in Devices, Authenticated(d),
         client[d].seen # None, Matches(client[d].seen),
         client[d].seen = 0 => client[d].pass = account.pass
  PROVE  client[d].pass = account.pass /\ saved \subseteq client[d].keys
<1> USE DEF VaultInv
<1>1. CASE client[d].seen = 0
  BY <1>1 DEF Matches, CascadeOK
<1>2. CASE client[d].seen # 0
  BY <1>2 DEF Matches, SeenOK, VaultOpens, KeysKept
<1> QED
  BY <1>1, <1>2

\* A write under the password the account has after the step, of all the keys
\* that are saved after it, keeps what clients know of the vault.
LEMMA WriteKeeps ==
  ASSUME VaultInv, NEW d \in Devices, NEW p \in Passwords,
         NEW ks \in SUBSET Keys, Write(d, p, ks),
         Exists', account'.pass = p, saved' \subseteq ks
  PROVE  CascadeOK' /\ SeenOK' /\ VaultOpens' /\ KeysKept'
<1> USE DEF VaultInv
<1>1. /\ written \in Nat /\ None \notin Nat /\ None \notin Passwords
      /\ written' = written + 1
      /\ vault' = [etag |-> written + 1, wrap |-> p, keys |-> ks]
      /\ client \in [Devices -> Client]
  BY AccountsAssumption DEF Write, TypeOK, Etags
<1>2. /\ client'[d].seen = written + 1 /\ client'[d].pass = p
      /\ client'[d].keys = ks
      /\ \A e \in Devices \ {d} : client'[e] = client[e]
  BY <1>1 DEF Write, Remember
<1>3. CascadeOK' /\ VaultOpens' /\ KeysKept'
  BY <1>1 DEF CascadeOK, VaultOpens, KeysKept
<1>4. ASSUME NEW e \in Devices
      PROVE  /\ client[e].seen # None =>
                  client[e].seen \in Nat /\ client[e].seen <= written
  BY <1>1 DEF SeenOK, TypeOK, Client, Etags
<1>5. SeenOK'
  BY <1>1, <1>2, <1>4 DEF SeenOK
<1> QED
  BY <1>3, <1>5

\* A client that starts again from a typed password knows nothing wrong.
LEMMA TypedKeeps ==
  ASSUME TypeOK, SeenOK, NEW d \in Devices, NEW p, Remember(d, Typed(p)),
         UNCHANGED <<vault, written>>
  PROVE  SeenOK' /\ client'[d].proved = FALSE
         /\ \A e \in Devices \ {d} : client'[e] = client[e]
<1>1. /\ client'[d] = Typed(p)
      /\ \A e \in Devices \ {d} : client'[e] = client[e]
  BY DEF Remember, TypeOK
<1>2. client'[d].seen = None /\ client'[d].proved = FALSE
  BY <1>1 DEF Typed
<1>3. vault.etag # None /\ None # 0
  BY AccountsAssumption DEF TypeOK, Vault, Etags
<1> QED
  BY <1>1, <1>2, <1>3 DEF SeenOK

\* Initially there is no vault.
LEMMA VaultInit == Init => VaultInv
<1> SUFFICES ASSUME Init PROVE VaultInv
  OBVIOUS
<1>1. TypeOK
  BY InitType
<1>2. CascadeOK /\ VaultOpens /\ KeysKept
  BY <1>1 DEF Init, CascadeOK, VaultOpens, KeysKept, NoVault, TypeOK, Etags
<1>3. ProvedOK /\ SeenOK
  BY AccountsAssumption DEF Init, ProvedOK, SeenOK, Typed, NoVault
<1> QED
  BY <1>1, <1>2, <1>3 DEF VaultInv

\* A request keeps what the invariant says of the vault.
LEMMA RequestVault ==
  ASSUME VaultInv, NEW d \in Devices, Request(d)
  PROVE  CascadeOK' /\ ProvedOK' /\ SeenOK' /\ VaultOpens' /\ KeysKept'
<1> USE DEF VaultInv
<1>0. /\ None \notin Devices /\ None \notin Passwords
      /\ session \in [Devices -> Session]
      /\ \A s : [session EXCEPT ![d] = s][d] = s
      /\ \A s : \A e \in Devices \ {d} : [session EXCEPT ![d] = s][e] = session[e]
  BY AccountsAssumption DEF TypeOK
\* The account, the vault and the clients' memory are what they were.
<1>a. ASSUME UNCHANGED <<account, vault, client, written, saved>>,
             ~Exists => session' = Closed /\ challenge' = NoChallenge,
             \A e \in Devices : session'[e].open => session[e].open
      PROVE  CascadeOK' /\ ProvedOK' /\ SeenOK' /\ VaultOpens' /\ KeysKept'
  BY <1>a DEF CascadeOK, ProvedOK, SeenOK, VaultOpens, KeysKept, Exists
\* The memory of the device is a typed password.
<1>b. ASSUME NEW p, Remember(d, Typed(p)),
             UNCHANGED <<account, vault, written, saved>>,
             ~Exists => session' = Closed /\ challenge' = NoChallenge,
             \A e \in Devices \ {d} : session'[e].open => session[e].open
      PROVE  CascadeOK' /\ ProvedOK' /\ SeenOK' /\ VaultOpens' /\ KeysKept'
  <2>1. SeenOK' /\ ProvedOK'
    BY <1>b, TypedKeeps DEF ProvedOK
  <2>2. CascadeOK' /\ VaultOpens' /\ KeysKept'
    BY <1>b DEF CascadeOK, VaultOpens, KeysKept, Exists
  <2> QED
    BY <2>1, <2>2
<1>1. CASE Touch(d)
  BY <1>a, <1>1, OpenSession DEF Touch, CascadeOK
<1>2. CASE Logout(d)
  <2>1. ~Exists => session' = Closed
    BY <1>0, <1>2 DEF Logout, CascadeOK, Closed
  <2>2. \A e \in Devices : session'[e].open => session[e].open
    BY <1>0, <1>2 DEF Logout, NoSession
  <2> QED
    BY <1>a, <1>2, <2>1, <2>2 DEF Logout, CascadeOK
<1>3. CASE Register(d)
  BY <1>a, <1>3 DEF Register, CascadeOK
<1>4. CASE \E p \in Passwords : TypePassword(d, p)
  BY <1>b, <1>4 DEF TypePassword, CascadeOK
<1>5. CASE \E p \in Passwords : ChangePassword(d, p)
  <2>1. PICK p \in Passwords : ChangePassword(d, p)
    BY <1>5
  <2>2. Exists' /\ Exists
    BY <1>0, <2>1 DEF ChangePassword, StepUp, Exists, TypeOK, Account
  <2>3. \A e \in Devices \ {d} : ~session'[e].open
    BY <2>1 DEF ChangePassword, OnlyHere, Closed, NoSession
  <2>4. SeenOK' /\ ProvedOK'
    BY <2>1, <2>3, TypedKeeps DEF ChangePassword, ProvedOK
  <2> QED
    BY <2>1, <2>2, <2>4
    DEF ChangePassword, MayOmitVault, CascadeOK, VaultOpens, KeysKept
<1>6. CASE \E p \in Passwords : ChangePasswordAndRewrap(d, p)
  <2>1. PICK p \in Passwords : ChangePasswordAndRewrap(d, p)
    BY <1>6
  <2>2. Exists' /\ account'.pass = p
    BY <1>0, <2>1 DEF ChangePasswordAndRewrap, Exists, TypeOK, Account
  <2>3. saved \subseteq client[d].keys /\ client[d].keys \in SUBSET Keys
    BY <2>1, WriterKnows DEF ChangePasswordAndRewrap, StepUp, TypeOK, Client
  <2>4. CascadeOK' /\ SeenOK' /\ VaultOpens' /\ KeysKept'
    BY <2>1, <2>2, <2>3, WriteKeeps DEF ChangePasswordAndRewrap
  <2>5. \A e \in Devices \ {d} : ~session'[e].open
    BY <2>1 DEF ChangePasswordAndRewrap, OnlyHere, Closed, NoSession
  <2>6. client'[d].pass = p
    BY <2>1 DEF ChangePasswordAndRewrap, Write, Remember, TypeOK
  <2>7. ProvedOK'
    BY <2>2, <2>5, <2>6 DEF ProvedOK
  <2> QED
    BY <2>4, <2>7
<1>7. CASE Login(d)
  <2>1. \A e \in Devices \ {d} : session'[e].open => session[e].open
    BY <1>0, <1>7, OpenSession DEF Login
  <2> QED
    BY <1>b, <1>7, <2>1 DEF Login
<1>8. CASE ChallengeDead(d)
  <2>1. Exists
    BY <1>0, <1>8 DEF ChallengeDead, CascadeOK, NoChallenge
  <2> QED
    BY <1>a, <1>8, <2>1, OpenSession DEF ChallengeDead
<1>9. CASE ChallengeWrong(d)
  <2>1. Exists
    BY <1>0, <1>9 DEF ChallengeWrong, CascadeOK, NoChallenge
  <2> QED
    BY <1>a, <1>9, <2>1, OpenSession DEF ChallengeWrong
<1>10. CASE ChallengeRight(d)
  <2>1. Exists
    BY <1>0, <1>10 DEF ChallengeRight, CascadeOK, NoChallenge
  <2> QED
    BY <1>b, <1>0, <1>10, <2>1 DEF ChallengeRight
\* The second factor changes neither the password nor the vault.
<1>c. ASSUME Authenticated(d), account'.pass = account.pass,
             UNCHANGED <<vault, client, challenge, written, saved>>,
             session' = Extended(d)
      PROVE  CascadeOK' /\ ProvedOK' /\ SeenOK' /\ VaultOpens' /\ KeysKept'
  BY <1>c, OpenSession
  DEF CascadeOK, ProvedOK, SeenOK, VaultOpens, KeysKept, Exists
<1>11. CASE BeginSetup(d)
  BY <1>c, <1>11 DEF BeginSetup, StepUp, TypeOK, Account
<1>12. CASE EnableSetup(d)
  BY <1>c, <1>12 DEF EnableSetup, StepUp, TypeOK, Account
<1>13. CASE DisableTotp(d)
  BY <1>c, <1>13 DEF DisableTotp, StepUp, TypeOK, Account
\* What a client may learn without a write.
<1>d. ASSUME Authenticated(d), session' = Extended(d),
             UNCHANGED <<account, vault, challenge, written, saved>>
      PROVE  /\ CascadeOK' /\ VaultOpens' /\ KeysKept'
             /\ Exists /\ session[d].open
             /\ \A e \in Devices : session'[e].open = session[e].open
  BY <1>d, OpenSession DEF CascadeOK, VaultOpens, KeysKept, Exists
<1>14. CASE VerifyPassword(d)
  <2>1. /\ client'[d].pass = account.pass
        /\ client'[d].seen = client[d].seen /\ client'[d].keys = client[d].keys
        /\ client'[d].pass = client[d].pass
        /\ \A e \in Devices \ {d} : client'[e] = client[e]
    BY <1>14 DEF VerifyPassword, StepUp, TypeOK, Client
  <2>2. ProvedOK'
    BY <1>d, <1>14, <2>1 DEF VerifyPassword, StepUp, ProvedOK
  <2>3. SeenOK'
    BY <1>14, <2>1 DEF VerifyPassword, SeenOK
  <2> QED
    BY <1>d, <1>14, <2>2, <2>3 DEF VerifyPassword, StepUp
<1>15. CASE GetVault(d)
  <2> DEFINE opens == vault.etag = 0 \/ vault.wrap = client[d].pass
  <2>1. /\ client'[d].pass = client[d].pass
        /\ client'[d].proved = client[d].proved
        /\ client'[d].seen = IF opens THEN vault.etag ELSE None
        /\ client'[d].keys = IF opens THEN vault.keys ELSE {}
        /\ \A e \in Devices \ {d} : client'[e] = client[e]
    BY <1>15 DEF GetVault, TypeOK, Client
  <2>2. ProvedOK'
    BY <1>d, <1>15, <2>1 DEF GetVault, ProvedOK
  <2>3. vault.etag # None
    BY AccountsAssumption DEF TypeOK, Vault, Etags
  <2>a. /\ client[d].pass # None
        /\ vault' = vault /\ written' = written
        /\ vault.etag <= written
        /\ vault.etag = 0 => vault.keys = {}
    BY <1>15 DEF GetVault, CascadeOK
  <2>b. /\ client'[d].seen # None => /\ client'[d].seen <= written'
                                   /\ client'[d].pass # None
        /\ client'[d].seen = 0 => client'[d].keys = {}
        /\ client'[d].seen = vault'.etag /\ vault'.etag # 0 =>
             client'[d].pass = vault'.wrap /\ client'[d].keys = vault'.keys
    <3>1. CASE opens
      BY <2>1, <2>3, <2>a, <3>1
    <3>2. CASE ~opens
      BY <2>1, <2>3, <2>a, <3>2
    <3> QED
      BY <3>1, <3>2
  <2>4. SeenOK'
    <3> HIDE DEF VaultInv
    <3> SUFFICES ASSUME NEW e \in Devices \ {d}
                 PROVE  /\ client'[e].seen # None => /\ client'[e].seen <= written'
                                                    /\ client'[e].pass # None
                        /\ client'[e].seen = 0 => client'[e].keys = {}
                        /\ client'[e].seen = vault'.etag /\ vault'.etag # 0 =>
                             /\ client'[e].pass = vault'.wrap
                             /\ client'[e].keys = vault'.keys
      BY <2>b DEF SeenOK
    <3>1. SeenOK
      BY DEF VaultInv
    <3> QED
      BY <2>1, <2>a, <3>1 DEF SeenOK
  <2> QED
    BY <1>d, <1>15, <2>2, <2>4 DEF GetVault
<1>16. CASE \E k \in Keys : PutVault(d, k)
  <2>1. PICK k \in Keys : PutVault(d, k)
    BY <1>16
  <2>2. Exists /\ session[d].open
    BY <2>1, OpenSession DEF PutVault
  <2>3. client[d].pass = account.pass /\ saved \subseteq client[d].keys
    BY <2>1, <2>2, WriterKnows DEF PutVault, MayWrite, ProvedOK
  <2>4. /\ client[d].keys \cup {k} \in SUBSET Keys
        /\ client[d].pass \in Passwords
    BY <2>2, <2>3 DEF TypeOK, Client, Account, Exists
  <2>5. CascadeOK' /\ SeenOK' /\ VaultOpens' /\ KeysKept'
    BY <2>1, <2>2, <2>3, <2>4, WriteKeeps DEF PutVault, Exists
  <2>6. /\ client'[d].pass = client[d].pass
        /\ \A e \in Devices \ {d} : client'[e] = client[e]
    BY <2>1 DEF PutVault, Write, Remember, TypeOK
  <2>7. ProvedOK'
    BY <2>1, <2>3, <2>6, OpenSession DEF PutVault, ProvedOK
  <2> QED
    BY <2>5, <2>7
<1>17. CASE DeleteAccount(d)
  <2>1. CascadeOK' /\ VaultOpens' /\ KeysKept'
    BY <1>17, AccountsAssumption
    DEF DeleteAccount, CascadeOK, VaultOpens, KeysKept, NoVault, TypeOK, Etags
  <2>2. ProvedOK' /\ SeenOK'
    BY <1>17 DEF DeleteAccount, ProvedOK, SeenOK, Closed, NoSession, NoVault
  <2> QED
    BY <2>1, <2>2
<1> QED
  BY <1>1, <1>2, <1>3, <1>4, <1>5, <1>6, <1>7, <1>8, <1>9, <1>10, <1>11, <1>12,
     <1>13, <1>14, <1>15, <1>16, <1>17 DEF Request

\* So do a link and the clock.
LEMMA OtherVault ==
  ASSUME VaultInv,
         \/ \E link \in links : VerifyEmail(link) \/ LinkExpired(link)
         \/ ClockTick
         \/ UNCHANGED vars
  PROVE  CascadeOK' /\ ProvedOK' /\ SeenOK' /\ VaultOpens' /\ KeysKept'
<1> USE DEF VaultInv
<1>1. ASSUME NEW link \in links, VerifyEmail(link)
      PROVE  CascadeOK' /\ ProvedOK' /\ SeenOK' /\ VaultOpens' /\ KeysKept'
  <2>1. CASE Exists
    BY <1>1, <2>1
    DEF VerifyEmail, CascadeOK, ProvedOK, SeenOK, VaultOpens, KeysKept, Exists
  <2>2. CASE ~Exists
    <3>1. Exists'
      BY <1>1, <2>2, AccountsAssumption
      DEF VerifyEmail, Exists, NoAccount, TypeOK, Link
    <3>2. ProvedOK'
      BY <1>1, <2>2 DEF VerifyEmail, ProvedOK, CascadeOK, Closed, NoSession
    <3>3. VaultOpens'
      BY <1>1, <2>2 DEF VerifyEmail, VaultOpens, CascadeOK, NoVault
    <3> QED
      BY <1>1, <3>1, <3>2, <3>3 DEF VerifyEmail, CascadeOK, SeenOK, KeysKept
  <2> QED
    BY <2>1, <2>2
<1>2. ASSUME NEW link \in links, LinkExpired(link)
      PROVE  CascadeOK' /\ ProvedOK' /\ SeenOK' /\ VaultOpens' /\ KeysKept'
  BY <1>2
  DEF LinkExpired, CascadeOK, ProvedOK, SeenOK, VaultOpens, KeysKept, Exists
<1>3. CASE ClockTick
  BY <1>3
  DEF ClockTick, CascadeOK, ProvedOK, SeenOK, VaultOpens, KeysKept, Exists
<1>4. CASE UNCHANGED vars
  BY <1>4 DEF vars, CascadeOK, ProvedOK, SeenOK, VaultOpens, KeysKept, Exists
<1> QED
  BY <1>1, <1>2, <1>3, <1>4

\* The invariant behind the two guarantees below: what a device proved or saw
\* stays true for as long as it can be used.
THEOREM VaultInvariant == Spec => []VaultInv
<1>1. VaultInv /\ [Next]_vars => VaultInv'
  <2> SUFFICES ASSUME VaultInv, [Next]_vars PROVE VaultInv'
    OBVIOUS
  <2>1. CASE \E d \in Devices : Request(d)
    BY <2>1, RequestType, RequestVault DEF VaultInv
  <2>2. CASE \/ \E link \in links : VerifyEmail(link) \/ LinkExpired(link)
             \/ ClockTick
             \/ UNCHANGED vars
    BY <2>2, OtherType, OtherVault DEF VaultInv
  <2> QED
    BY <2>1, <2>2 DEF Next
<1> QED
  BY <1>1, VaultInit, PTL DEF Spec

\* Every variable of the accounts keeps its type.
THEOREM TypeCorrect == Spec => []TypeOK
<1>1. VaultInv => TypeOK
  BY DEF VaultInv
<1> QED
  BY <1>1, VaultInvariant, PTL

\* No lock-out: password changes, first writes and rewraps of any number of
\* devices leave a vault that opens with the account's password.
THEOREM VaultOpensAlways == Spec => []VaultOpens
<1>1. VaultInv => VaultOpens
  BY DEF VaultInv
<1> QED
  BY <1>1, VaultInvariant, PTL

\* No lost update: a key whose PUT was answered 200 stays in the vault.
THEOREM KeysKeptAlways == Spec => []KeysKept
<1>1. VaultInv => KeysKept
  BY DEF VaultInv
<1> QED
  BY <1>1, VaultInvariant, PTL

-----------------------------------------------------------------------------
(* Registration.                                                           *)

\* Of several verification links one wins, and none outlives the account.
THEOREM LinksDieAlways == Spec => []LinksDie
<1>1. Init => LinksDie
  BY DEF Init, LinksDie, Exists, NoAccount
<1>2. TypeOK /\ TypeOK' /\ LinksDie /\ [Next]_vars => LinksDie'
  <2> SUFFICES ASSUME TypeOK, TypeOK', LinksDie, [Next]_vars PROVE LinksDie'
    OBVIOUS
  <2> USE DEF LinksDie
  <2>1. ASSUME UNCHANGED <<links, created>>, Exists' => Exists PROVE LinksDie'
    BY <2>1
  <2>2. ASSUME NEW d \in Devices, Request(d) PROVE LinksDie'
    <3>1. CASE \/ Touch(d) \/ Logout(d) \/ Login(d) \/ GetVault(d)
               \/ ChallengeDead(d) \/ ChallengeWrong(d) \/ ChallengeRight(d)
               \/ VerifyPassword(d)
               \/ \E p \in Passwords : TypePassword(d, p)
               \/ \E k \in Keys : PutVault(d, k)
      BY <2>1, <3>1
      DEF Touch, Logout, Login, GetVault, ChallengeDead, ChallengeWrong,
          ChallengeRight, VerifyPassword, TypePassword, PutVault, Exists
    <3>2. CASE \/ BeginSetup(d) \/ EnableSetup(d) \/ DisableTotp(d)
               \/ \E p \in Passwords : \/ ChangePassword(d, p)
                                       \/ ChangePasswordAndRewrap(d, p)
      BY <2>1, <3>2
      DEF BeginSetup, EnableSetup, DisableTotp, ChangePassword,
          ChangePasswordAndRewrap, StepUp
    <3>3. CASE Register(d)
      BY <3>3 DEF Register, Exists
    <3>4. CASE DeleteAccount(d)
      BY <3>4 DEF DeleteAccount, Exists, NoAccount
    <3> QED
      BY <2>2, <3>1, <3>2, <3>3, <3>4 DEF Request
  <2>3. ASSUME NEW link \in links, VerifyEmail(link) PROVE LinksDie'
    BY <2>3 DEF VerifyEmail, Purged
  <2>4. ASSUME NEW link \in links, LinkExpired(link) PROVE LinksDie'
    BY <2>4 DEF LinkExpired, Exists
  <2>5. CASE ClockTick
    BY <2>1, <2>5 DEF ClockTick, Exists
  <2>6. CASE UNCHANGED vars
    BY <2>1, <2>6 DEF vars, Exists
  <2> QED
    BY <2>2, <2>3, <2>4, <2>5, <2>6 DEF Next
<1> QED
  BY <1>1, <1>2, TypeCorrect, PTL DEF Spec
=============================================================================
