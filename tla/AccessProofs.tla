----------------------------- MODULE AccessProofs -----------------------------
(***************************************************************************)
(* What stands between a request and the tables: the accounts and their    *)
(* sessions (UserAccounts), and the limiter in front of login and of every *)
(* other request (RateLimiter).                                            *)
(*                                                                         *)
(* Sessions are accounted for, and an admin remains unless two changes     *)
(* overlapped, for any users, any number of requests under way and any     *)
(* bounds.                                                                 *)
(*                                                                         *)
(* Neither is inductive.  A session is committed long after its user was   *)
(* read, so one needs to know what a login under way has already missed    *)
(* (LoginsAccountedFor) and what a change that has deleted the sessions    *)
(* and not committed has not deleted (ChangesAccountedFor).  The check for *)
(* the last admin is made long before the commit it guards, so one needs   *)
(* to know that it still holds then (ChecksStand).                         *)
(***************************************************************************)
EXTENDS UserAccounts, RateLimiter, FiniteSetTheorems, SequenceTheorems, WellFoundedInduction,
        TLAPS

LoggingIn(h) == phase[h] \in {"authenticated", "logged"}
TakesAdminAway(h) == phase[h] \in {"checked", "revoked"} /\ job[h].op \in {"demote", "deactivate"}
ActiveAdmins == {u \in Users : role[u] = "admin" /\ is_active[u]}

\* The handlers' local state is a function of the handlers; a login under way
\* has drawn its number.
HandlersOK ==
  /\ phase \in [Handlers -> {"idle", "authorized", "checked", "revoked", "authenticated", "logged"}]
  /\ DOMAIN job = Handlers /\ DOMAIN doomed = Handlers
  /\ \A h \in Handlers : LoggingIn(h) => job[h].login \in 1..logins

\* The jobs of the handlers by their phases, and the types of the tables.
JobFits(h) ==
  /\ phase[h] = "idle" => job[h] = NoJob
  /\ phase[h] = "authorized" => job[h] \in ChangeJobs
  /\ phase[h] \in {"checked", "revoked"} => job[h] \in CheckedJobs
  /\ LoggingIn(h) => job[h] \in LoginJobs

TablesOK ==
  /\ role \in [Users -> {"admin", "investigator"}]
  /\ is_active \in [Users -> BOOLEAN]
  /\ password \in [Users -> 0..MaxPassword]
  /\ sessions \subseteq Sessions /\ expired \subseteq sessions
  /\ logins \in 0..MaxLogins /\ raced \subseteq 1..logins /\ clashed \in BOOLEAN
  /\ \A h \in Handlers : doomed[h] \subseteq Sessions
  /\ audit \subseteq [login : 1..MaxLogins, user : Users, outcome : {"success", "failure"}]

\* A row lock is held by one handler; a password it is about to change is not
\* the last one.
LocksExclusive ==
  \A h \in Handlers : phase[h] = "revoked" =>
    /\ \A g \in Handlers \ {h} : phase[g] = "revoked" => job[g].target # job[h].target
    /\ job[h].op = "password" => password[job[h].target] < MaxPassword

\* A login under way knows of every change of its user that it overlapped, and
\* its event is in the ledger before its session is created.
LoginKnows(h) ==
  LET j == job[h] IN
  /\ phase[h] = "logged" => [login |-> j.login, user |-> j.target, outcome |-> "success"] \in audit
  /\ j.password # password[j.target] \/ ~is_active[j.target] \/ RowLocked(j.target) => j.overlap
LoginsAccountedFor == \A h \in Handlers : LoggingIn(h) => LoginKnows(h)

\* A change that revokes has deleted every session of its user but those of
\* logins that overlapped it.
ChangesAccountedFor ==
  \A h \in Handlers : phase[h] = "revoked" /\ job[h].op # "reactivate" =>
    \A s \in sessions : s.user = job[h].target => s \in doomed[h] \/ s.login \in raced

\* While no two changes have clashed an admin remains, and the check each
\* change has made would still come out the same.
ChecksStand ==
  \/ clashed
  \/ /\ ActiveAdmins # {}
     /\ \A h \in Handlers : TakesAdminAway(h) => ~LastAdmin(job[h].target, job[h].op)

IndInv ==
  /\ TablesOK
  /\ HandlersOK
  /\ \A h \in Handlers : JobFits(h)
  /\ LocksExclusive
  /\ LoginsAccountedFor
  /\ ChangesAccountedFor
  /\ SessionsAccountedFor
  /\ ChecksStand

----------------------------------------------------------------------------
(* count_active_admins <= 1 is a statement about a finite set: it has at     *)
(* most one member, none at 0.                                               *)
LEMMA CountsAdmins ==
  /\ IsFiniteSet(ActiveAdmins) /\ count_active_admins = Cardinality(ActiveAdmins)
  /\ count_active_admins \in Nat
  /\ count_active_admins = 0 <=> ActiveAdmins = {}
  /\ \A u \in ActiveAdmins : count_active_admins <= 1 <=> ActiveAdmins = {u}
<1>1. IsFiniteSet(ActiveAdmins)
  <2>1. ActiveAdmins \subseteq Users
    BY DEF ActiveAdmins
  <2> QED BY <2>1, AccountsAssumption, FS_Subset
<1>2. count_active_admins = Cardinality(ActiveAdmins)
  BY DEF count_active_admins, ActiveAdmins
<1>3. Cardinality(ActiveAdmins) \in Nat /\ (Cardinality(ActiveAdmins) = 0 <=> ActiveAdmins = {})
  BY <1>1, FS_CardinalityType, FS_EmptySet
<1>4. ASSUME NEW u \in ActiveAdmins
      PROVE  Cardinality(ActiveAdmins) <= 1 <=> ActiveAdmins = {u}
  <2>1. Cardinality(ActiveAdmins) <= 1 => Cardinality(ActiveAdmins) = 1
    BY <1>3, <1>4
  <2>2. Cardinality(ActiveAdmins) = 1 <=> \E x : ActiveAdmins = {x}
    BY <1>1, FS_Singleton
  <2> QED BY <1>4, <2>1, <2>2
<1> QED BY <1>1, <1>2, <1>3, <1>4

(* TypeOK, in the two parts the proofs use.                                  *)
LEMMA TypeOKParts ==
  ASSUME HandlersOK
  PROVE  TypeOK <=> TablesOK /\ \A h \in Handlers : JobFits(h)
<1>1. ASSUME NEW h \in Handlers
      PROVE  JobFits(h) <=>
               job[h] \in CASE phase[h] = "idle" -> {NoJob}
                            [] phase[h] = "authorized" -> ChangeJobs
                            [] phase[h] \in {"checked", "revoked"} -> CheckedJobs
                            [] phase[h] \in {"authenticated", "logged"} -> LoginJobs
  <2>1. phase[h] \in {"idle", "authorized", "checked", "revoked", "authenticated", "logged"}
    BY DEF HandlersOK
  <2>2. CASE phase[h] = "idle"
    BY <2>2 DEF JobFits, LoggingIn
  <2>3. CASE phase[h] = "authorized"
    BY <2>3 DEF JobFits, LoggingIn
  <2>4. CASE phase[h] \in {"checked", "revoked"}
    BY <2>4 DEF JobFits, LoggingIn
  <2>5. CASE phase[h] \in {"authenticated", "logged"}
    BY <2>5 DEF JobFits, LoggingIn
  <2> QED BY <2>1, <2>2, <2>3, <2>4, <2>5
<1> QED BY <1>1 DEF TypeOK, TablesOK

(* Init establishes the inductive invariant.                                 *)
LEMMA InitIndInv == Init => IndInv
<1> SUFFICES ASSUME Init PROVE IndInv
  OBVIOUS
<1> USE DEF Init
<1>1. TablesOK
  <2>1. role \in [Users -> {"admin", "investigator"}] /\ is_active \in [Users -> BOOLEAN]
    OBVIOUS
  <2>2. 0 \in 0..MaxPassword /\ 0 \in 0..MaxLogins
    BY BoundsAssumption
  <2> QED BY <2>1, <2>2 DEF TablesOK
<1>2. HandlersOK /\ \A h \in Handlers : JobFits(h)
  BY DEF HandlersOK, JobFits, LoggingIn
<1>3. LocksExclusive /\ LoginsAccountedFor /\ ChangesAccountedFor /\ SessionsAccountedFor
  BY DEF LocksExclusive, LoginsAccountedFor, LoginKnows, ChangesAccountedFor, SessionsAccountedFor, LoggingIn
<1>4. ChecksStand
  BY AccountsAssumption DEF ChecksStand, ActiveAdmins, TakesAdminAway
<1> QED BY <1>1, <1>2, <1>3, <1>4 DEF IndInv

(* authenticate_user: the login's job carries the password it was checked    *)
(* against, and whether a change of the user is under way.                   *)
LEMMA AuthenticateStep ==
  ASSUME IndInv, NEW h \in Handlers, NEW u \in Users, authenticate_user(h, u)
  PROVE  IndInv'
<1> USE DEF authenticate_user, IndInv, userVars, sessionVars
<1>1. /\ phase' = [phase EXCEPT ![h] = "authenticated"]
      /\ job'[h] = [login |-> logins + 1, target |-> u, password |-> password[u], overlap |-> RowLocked(u)]
      /\ \A g \in Handlers \ {h} : phase'[g] = phase[g] /\ job'[g] = job[g]
      /\ DOMAIN job' = Handlers
      /\ phase'[h] = "authenticated" /\ phase[h] = "idle"
  BY DEF HandlersOK
<1>2. \A v \in Users : RowLocked(v)' <=> RowLocked(v)
  BY <1>1 DEF RowLocked
<1>3. TablesOK'
  BY BoundsAssumption DEF TablesOK
<1>4. HandlersOK'
  BY <1>1, BoundsAssumption DEF TablesOK, HandlersOK, LoggingIn
<1>5. \A g \in Handlers : JobFits(g)'
  <2>1. job'[h] \in LoginJobs
    BY <1>1, BoundsAssumption DEF LoginJobs, TablesOK, RowLocked
  <2> QED BY <1>1, <2>1 DEF JobFits, LoggingIn
<1>6. LocksExclusive'
  BY <1>1 DEF LocksExclusive
<1>7. LoginsAccountedFor'
  BY <1>1, <1>2 DEF LoginsAccountedFor, LoginKnows, LoggingIn, LoginJobs, JobFits
<1>8. ChangesAccountedFor' /\ SessionsAccountedFor'
  BY <1>1 DEF ChangesAccountedFor, SessionsAccountedFor
<1>9. ChecksStand'
  BY <1>1 DEF ChecksStand, ActiveAdmins, TakesAdminAway, LastAdmin, count_active_admins
<1> QED BY <1>3, <1>4, <1>5, <1>6, <1>7, <1>8, <1>9

(* A handler that leaves the accounts and the sessions alone and holds no    *)
(* row lock afterwards: it logs, reads, checks, is refused or is cut off.    *)
LEMMA TablesAlone ==
  ASSUME IndInv, NEW h \in Handlers,
         NEW p \in {"idle", "authorized", "checked", "logged"},
         phase' = [phase EXCEPT ![h] = p], UNCHANGED <<userVars, sessionVars, logins>>,
         \A g \in Handlers \ {h} : job'[g] = job[g] /\ doomed'[g] = doomed[g],
         DOMAIN job' = Handlers, DOMAIN doomed' = Handlers, doomed'[h] \subseteq Sessions,
         JobFits(h)', audit \subseteq audit',
         audit' \subseteq [login : 1..MaxLogins, user : Users, outcome : {"success", "failure"}],
         p = "checked" /\ job'[h].op \in {"demote", "deactivate"} =>
           ~LastAdmin(job'[h].target, job'[h].op),
         p = "logged" =>
           /\ LoggingIn(h) /\ job' = job
           /\ [login |-> job[h].login, user |-> job[h].target, outcome |-> "success"] \in audit'
  PROVE  IndInv'
<1> USE DEF IndInv, userVars, sessionVars
<1>1. /\ phase'[h] = p /\ ~(p = "revoked")
      /\ \A g \in Handlers \ {h} : phase'[g] = phase[g]
      /\ DOMAIN phase' = Handlers
  BY DEF HandlersOK
<1>2. \A u : RowLocked(u)' => RowLocked(u)
  BY <1>1 DEF RowLocked
<1>3. TablesOK'
  BY DEF TablesOK
<1>4. HandlersOK'
  BY <1>1 DEF HandlersOK, LoggingIn
<1>5. \A g \in Handlers : JobFits(g)'
  BY <1>1 DEF JobFits, LoggingIn
<1>6. LocksExclusive'
  BY <1>1 DEF LocksExclusive
<1>7. LoginsAccountedFor'
  <2>1. ASSUME NEW g \in Handlers \ {h}, LoggingIn(g)'
        PROVE  LoggingIn(g) /\ job'[g] = job[g] /\ phase'[g] = phase[g]
    BY <1>1, <2>1 DEF LoggingIn
  <2>2. ASSUME LoggingIn(h)'
        PROVE  p = "logged" /\ LoggingIn(h) /\ job'[h] = job[h]
    BY <1>1, <2>2 DEF LoggingIn
  <2> QED BY <1>1, <1>2, <2>1, <2>2 DEF LoginsAccountedFor, LoginKnows, LoggingIn
<1>8. ChangesAccountedFor' /\ SessionsAccountedFor'
  BY <1>1 DEF ChangesAccountedFor, SessionsAccountedFor
<1>9. ChecksStand'
  <2>1. ASSUME NEW g \in Handlers \ {h}, TakesAdminAway(g)'
        PROVE  TakesAdminAway(g) /\ job'[g] = job[g]
    BY <1>1, <2>1 DEF TakesAdminAway
  <2>2. TakesAdminAway(h)' => ~LastAdmin(job'[h].target, job'[h].op)
    BY <1>1 DEF TakesAdminAway
  <2>3. \A u, op : LastAdmin(u, op)' <=> LastAdmin(u, op)
    BY DEF LastAdmin, count_active_admins
  <2>4. ActiveAdmins' = ActiveAdmins
    BY DEF ActiveAdmins
  <2>5. ASSUME ~clashed, NEW g \in Handlers, TakesAdminAway(g)'
        PROVE  ~LastAdmin(job[g].target, job[g].op)'
    BY <2>1, <2>2, <2>3, <2>5 DEF ChecksStand, LastAdmin, count_active_admins
  <2> QED BY <2>4, <2>5 DEF ChecksStand
<1> QED BY <1>3, <1>4, <1>5, <1>6, <1>7, <1>8, <1>9

(* Sessions that end, by logout or in time, and failed logins: what is left  *)
(* is still accounted for.                                                   *)
LEMMA SessionsShrink ==
  ASSUME IndInv, UNCHANGED <<userVars, phase, job, doomed, raced, clashed>>,
         sessions' \subseteq sessions, expired' \subseteq sessions', audit \subseteq audit',
         audit' \subseteq [login : 1..MaxLogins, user : Users, outcome : {"success", "failure"}],
         logins' \in logins..MaxLogins
  PROVE  IndInv'
<1> USE DEF IndInv, userVars
<1>1. \A u : RowLocked(u)' <=> RowLocked(u)
  BY DEF RowLocked
<1>2. \A h \in Handlers : LoggingIn(h)' <=> LoggingIn(h)
  BY DEF LoggingIn
<1>3. TablesOK' /\ HandlersOK' /\ \A h \in Handlers : JobFits(h)'
  BY <1>2, BoundsAssumption DEF TablesOK, HandlersOK, JobFits
<1>4. LocksExclusive'
  BY DEF LocksExclusive
<1>5. LoginsAccountedFor'
  BY <1>1, <1>2 DEF LoginsAccountedFor, LoginKnows
<1>6. ChangesAccountedFor' /\ SessionsAccountedFor'
  BY DEF ChangesAccountedFor, SessionsAccountedFor
<1>7. ChecksStand'
  BY DEF ChecksStand, ActiveAdmins, TakesAdminAway, LastAdmin, count_active_admins
<1> QED BY <1>3, <1>4, <1>5, <1>6, <1>7

(* create_session: its event was logged before, and if the user has changed  *)
(* since they authenticated, or is about to, the login overlapped it.        *)
LEMMA CreateSessionStep ==
  ASSUME IndInv, NEW h \in Handlers, create_session(h)
  PROVE  IndInv'
<1> USE DEF create_session, Finish, IndInv, userVars
<1> DEFINE s == [login |-> job[h].login, user |-> job[h].target, password |-> job[h].password]
<1>1. /\ phase[h] = "logged" /\ phase'[h] = "idle" /\ job'[h] = NoJob /\ doomed'[h] = {}
      /\ \A g \in Handlers \ {h} : phase'[g] = phase[g] /\ job'[g] = job[g] /\ doomed'[g] = doomed[g]
      /\ DOMAIN phase' = Handlers /\ DOMAIN job' = Handlers /\ DOMAIN doomed' = Handlers
  BY DEF HandlersOK
<1>2. \A u : RowLocked(u)' <=> RowLocked(u)
  BY <1>1 DEF RowLocked
<1>3. LoggingIn(h) /\ job[h] \in LoginJobs /\ job[h].login \in 1..logins
  BY <1>1 DEF LoggingIn, HandlersOK, JobFits
<1>4. s \in Sessions /\ raced' \subseteq 1..logins /\ raced \subseteq raced'
  BY <1>3, BoundsAssumption DEF Sessions, LoginJobs, TablesOK
<1>5. TablesOK'
  BY <1>1, <1>4 DEF TablesOK
<1>6. HandlersOK' /\ \A g \in Handlers : JobFits(g)'
  BY <1>1 DEF HandlersOK, JobFits, LoggingIn
<1>7. LocksExclusive'
  BY <1>1 DEF LocksExclusive
<1>8. LoginsAccountedFor'
  BY <1>1, <1>2 DEF LoginsAccountedFor, LoginKnows, LoggingIn
<1>9. ChangesAccountedFor'
  <2> SUFFICES ASSUME NEW g \in Handlers, phase'[g] = "revoked", job'[g].op # "reactivate",
                      NEW t \in sessions', t.user = job'[g].target
               PROVE  t \in doomed'[g] \/ t.login \in raced'
    BY DEF ChangesAccountedFor
  <2>1. g # h /\ phase[g] = "revoked" /\ job'[g] = job[g] /\ doomed'[g] = doomed[g]
    BY <1>1
  <2>2. CASE t = s
    BY <2>1, <2>2 DEF RowLocked
  <2>3. CASE t \in sessions
    BY <1>4, <2>1, <2>3 DEF ChangesAccountedFor
  <2> QED BY <2>2, <2>3
<1>10. SessionsAccountedFor'
  <2>1. /\ [login |-> s.login, user |-> s.user, outcome |-> "success"] \in audit
        /\ s.password # password[s.user] \/ ~is_active[s.user] => s.login \in raced'
    BY <1>1, <1>3 DEF LoginsAccountedFor, LoginKnows
  <2>2. sessions' = sessions \cup {s}
    OBVIOUS
  <2> HIDE DEF s
  <2> QED BY <1>4, <2>1, <2>2 DEF SessionsAccountedFor
<1>11. ChecksStand'
  BY <1>1 DEF ChecksStand, ActiveAdmins, TakesAdminAway, LastAdmin, count_active_admins
<1> QED BY <1>5, <1>6, <1>7, <1>8, <1>9, <1>10, <1>11

(* The flush and the DELETE of the sessions: the row lock is taken, every    *)
(* committed session of the user is doomed and every login under way told.   *)
LEMMA RevokeStep ==
  ASSUME IndInv, NEW h \in Handlers, _revoke_all_sessions(h)
  PROVE  IndInv'
<1> USE DEF _revoke_all_sessions, IndInv, userVars, sessionVars
<1> DEFINE u == job[h].target
<1>1. /\ phase[h] = "checked" /\ phase'[h] = "revoked"
      /\ \A g \in Handlers \ {h} : phase'[g] = phase[g] /\ doomed'[g] = doomed[g]
      /\ DOMAIN phase' = Handlers /\ DOMAIN job' = Handlers /\ DOMAIN doomed' = Handlers
  BY DEF HandlersOK
<1>2. \A g \in Handlers : ~LoggingIn(g) => job'[g] = job[g]
  BY DEF LoggingIn
<1>3. job'[h] = job[h] /\ job[h] \in CheckedJobs /\ ~LoggingIn(h)
  BY <1>1, <1>2 DEF LoggingIn, JobFits
<1>4. ASSUME NEW g \in Handlers, LoggingIn(g)
      PROVE  /\ g # h /\ job[g] \in LoginJobs /\ job'[g] \in LoginJobs
             /\ job'[g].login = job[g].login /\ job'[g].target = job[g].target
             /\ job'[g].password = job[g].password
             /\ job[g].overlap => job'[g].overlap
             /\ job[g].target = u => job'[g].overlap
  BY <1>1, <1>4 DEF LoggingIn, JobFits, LoginJobs
<1>5. \A g \in Handlers : LoggingIn(g)' <=> LoggingIn(g)
  BY <1>1 DEF LoggingIn
<1>6. \A v : RowLocked(v)' => RowLocked(v) \/ v = u
  BY <1>1, <1>2 DEF RowLocked, LoggingIn
<1>7. TablesOK'
  BY <1>1 DEF TablesOK
<1>8. HandlersOK' /\ \A g \in Handlers : JobFits(g)'
  BY <1>1, <1>2, <1>3, <1>4, <1>5 DEF HandlersOK, JobFits
<1>9. LocksExclusive'
  <2>1. ASSUME NEW g \in Handlers, phase'[g] = "revoked"
        PROVE  job'[g] = job[g] /\ (g # h => phase[g] = "revoked" /\ job[g].target # u)
    BY <1>1, <1>2, <1>3, <2>1 DEF LoggingIn, RowLocked
  <2> QED BY <1>3, <2>1 DEF LocksExclusive
<1>10. LoginsAccountedFor'
  <2> SUFFICES ASSUME NEW g \in Handlers, LoggingIn(g)
               PROVE  LoginKnows(g)'
    BY <1>5 DEF LoginsAccountedFor
  <2>1. phase'[g] = phase[g]
    BY <1>1, <1>4
  <2>2. RowLocked(job[g].target)' => RowLocked(job[g].target) \/ job[g].target = u
    BY <1>4, <1>6 DEF RowLocked
  <2>3. CASE job[g].target = u
    <3>1. job'[g].overlap
      BY <1>4, <2>3
    <3>2. phase'[g] = "logged" =>
            [login |-> job'[g].login, user |-> job'[g].target, outcome |-> "success"] \in audit'
      BY <1>4, <2>1 DEF LoginsAccountedFor, LoginKnows
    <3> QED BY <3>1, <3>2 DEF LoginKnows
  <2>4. CASE job[g].target # u
    BY <1>4, <2>1, <2>2, <2>4 DEF LoginsAccountedFor, LoginKnows
  <2> QED BY <2>3, <2>4
<1>11. ChangesAccountedFor'
  <2> SUFFICES ASSUME NEW g \in Handlers, phase'[g] = "revoked", job'[g].op # "reactivate",
                      NEW t \in sessions, t.user = job'[g].target
               PROVE  t \in doomed'[g] \/ t.login \in raced
    BY DEF ChangesAccountedFor
  <2>1. CASE g = h
    BY <1>1, <1>3, <2>1 DEF HandlersOK
  <2>2. CASE g # h
    BY <1>1, <1>2, <2>2 DEF ChangesAccountedFor, LoggingIn
  <2> QED BY <2>1, <2>2
<1>12. SessionsAccountedFor'
  BY DEF SessionsAccountedFor
<1>13. ChecksStand'
  <2>1. \A g \in Handlers : TakesAdminAway(g)' => TakesAdminAway(g) /\ job'[g] = job[g]
    BY <1>1, <1>2, <1>3 DEF TakesAdminAway, LoggingIn
  <2>2. ActiveAdmins' = ActiveAdmins
    BY DEF ActiveAdmins
  <2>3. \A v, op : LastAdmin(v, op)' <=> LastAdmin(v, op)
    BY DEF LastAdmin, count_active_admins
  <2>4. ASSUME ~clashed, NEW g \in Handlers, TakesAdminAway(g)'
        PROVE  ~LastAdmin(job[g].target, job[g].op)'
    BY <2>1, <2>4 DEF ChecksStand, LastAdmin, count_active_admins
  <2> QED BY <2>2, <2>4 DEF ChecksStand
<1> QED BY <1>7, <1>8, <1>9, <1>10, <1>11, <1>12, <1>13

(* What a commit does to the admins: unless two changes clashed, the one     *)
(* that is taken away was not the last.                                      *)
LEMMA AdminRemains ==
  ASSUME IndInv, NEW h \in Handlers, CommitChange(h), ~clashed
  PROVE  ActiveAdmins' # {}
<1> DEFINE u == job[h].target
<1> USE DEF CommitChange, IndInv, userVars
<1>1. phase[h] = "revoked" /\ job[h] \in CheckedJobs /\ u \in Users
  BY DEF JobFits, CheckedJobs
<1>2. ActiveAdmins # {} /\ (TakesAdminAway(h) => ~LastAdmin(u, job[h].op))
  BY DEF ChecksStand
<1>3. ActiveAdmins \ {u} \subseteq ActiveAdmins'
  BY DEF ActiveAdmins, TablesOK
<1>4. CASE job[h].op \notin {"demote", "deactivate"}
  <2>1. ActiveAdmins \subseteq ActiveAdmins'
    BY <1>1, <1>4 DEF ActiveAdmins, TablesOK, CheckedJobs, Operations
  <2> QED BY <1>2, <2>1
<1>5. CASE job[h].op \in {"demote", "deactivate"}
  <2>1. CASE u \notin ActiveAdmins
    BY <1>2, <1>3, <2>1
  <2>2. CASE u \in ActiveAdmins
    <3>1. ~(count_active_admins <= 1)
      BY <1>1, <1>2, <1>5, <2>2 DEF TakesAdminAway, LastAdmin, ActiveAdmins
    <3>2. ActiveAdmins # {u}
      BY <2>2, <3>1, CountsAdmins
    <3> QED BY <1>2, <1>3, <3>2
  <2> QED BY <2>1, <2>2
<1> QED BY <1>4, <1>5

(* CommitChange: the sessions it has not deleted, and the logins under way,  *)
(* know of it; the checks of the others are void only if they clashed.       *)
LEMMA CommitStep ==
  ASSUME IndInv, NEW h \in Handlers, CommitChange(h)
  PROVE  IndInv'
<1> DEFINE u == job[h].target
<1> USE DEF CommitChange, Finish, IndInv
<1>1. /\ phase[h] = "revoked" /\ phase'[h] = "idle" /\ job'[h] = NoJob /\ doomed'[h] = {}
      /\ \A g \in Handlers \ {h} : phase'[g] = phase[g] /\ job'[g] = job[g] /\ doomed'[g] = doomed[g]
      /\ DOMAIN phase' = Handlers /\ DOMAIN job' = Handlers /\ DOMAIN doomed' = Handlers
  BY DEF HandlersOK
<1>2. job[h] \in CheckedJobs /\ u \in Users /\ job[h].op \in Operations
  BY <1>1 DEF JobFits, CheckedJobs
<1>3. \A v : RowLocked(v)' => RowLocked(v)
  BY <1>1 DEF RowLocked
<1>4. /\ \A v \in Users \ {u} : password'[v] = password[v] /\ is_active'[v] = is_active[v]
      /\ job[h].op = "reactivate" => password' = password /\ (is_active[u] => is_active'[u])
  BY <1>2 DEF TablesOK
<1>5. TablesOK'
  <2>1. role' \in [Users -> {"admin", "investigator"}]
    BY <1>2 DEF TablesOK
  <2>2. is_active' \in [Users -> BOOLEAN]
    BY <1>2 DEF TablesOK
  <2>3. password' \in [Users -> 0..MaxPassword]
    <3>1. job[h].op = "password" => password[u] + 1 \in 0..MaxPassword
      BY <1>1, <1>2, BoundsAssumption DEF LocksExclusive, TablesOK
    <3> QED BY <1>2, <3>1 DEF TablesOK
  <2>4. \A g \in Handlers : doomed'[g] \subseteq Sessions
    BY <1>1 DEF TablesOK
  <2>5. clashed' \in BOOLEAN
    BY DEF TablesOK
  <2>6. sessions' \subseteq Sessions /\ expired' \subseteq sessions'
    BY DEF TablesOK
  <2> QED BY <2>1, <2>2, <2>3, <2>4, <2>5, <2>6 DEF TablesOK
<1>6. HandlersOK' /\ \A g \in Handlers : JobFits(g)'
  BY <1>1 DEF HandlersOK, JobFits, LoggingIn
<1>7. LocksExclusive'
  <2> SUFFICES ASSUME NEW g \in Handlers, phase'[g] = "revoked"
               PROVE  /\ \A f \in Handlers \ {g} : phase'[f] = "revoked" => job'[f].target # job'[g].target
                      /\ job'[g].op = "password" => password'[job'[g].target] < MaxPassword
    BY DEF LocksExclusive
  <2>1. g # h /\ phase[g] = "revoked" /\ job'[g] = job[g]
    BY <1>1
  <2>2. job[g].target # u /\ job[g].target \in Users
    BY <1>1, <2>1 DEF LocksExclusive, JobFits, CheckedJobs
  <2> QED BY <1>1, <1>4, <2>1, <2>2 DEF LocksExclusive
<1>8. LoginsAccountedFor'
  <2> SUFFICES ASSUME NEW g \in Handlers, LoggingIn(g)'
               PROVE  LoginKnows(g)'
    BY DEF LoginsAccountedFor
  <2>1. g # h /\ LoggingIn(g) /\ phase'[g] = phase[g] /\ job'[g] = job[g] /\ job[g].target \in Users
    BY <1>1 DEF LoggingIn, JobFits, LoginJobs
  <2>2. RowLocked(job[g].target)' => RowLocked(job[g].target)
    BY <1>3, <2>1 DEF RowLocked
  <2>3. CASE job[g].target = u
    BY <1>1, <2>1, <2>3 DEF LoginsAccountedFor, LoginKnows, RowLocked
  <2>4. CASE job[g].target # u
    BY <1>4, <2>1, <2>2, <2>4 DEF LoginsAccountedFor, LoginKnows
  <2> QED BY <2>3, <2>4
<1>9. ChangesAccountedFor'
  BY <1>1 DEF ChangesAccountedFor
<1>10. SessionsAccountedFor'
  <2> SUFFICES ASSUME NEW s \in sessions, s \notin doomed[h]
               PROVE  /\ [login |-> s.login, user |-> s.user, outcome |-> "success"] \in audit
                      /\ s.password # password'[s.user] \/ ~is_active'[s.user] => s.login \in raced
    BY DEF SessionsAccountedFor
  <2>1. s.user \in Users
    BY DEF TablesOK, Sessions
  <2>2. CASE s.user = u /\ job[h].op # "reactivate"
    BY <1>1, <2>2 DEF ChangesAccountedFor, SessionsAccountedFor
  <2>3. CASE s.user # u
    BY <1>4, <2>1, <2>3 DEF SessionsAccountedFor
  <2>4. CASE s.user = u /\ job[h].op = "reactivate"
    BY <1>4, <2>4 DEF SessionsAccountedFor
  <2> QED BY <2>2, <2>3, <2>4
<1>11. ChecksStand'
  <2>1. CASE clashed'
    BY <2>1 DEF ChecksStand
  <2>2. CASE ~clashed'
    <3>1. ~clashed
      BY <2>2 DEF TablesOK
    <3>2. \A g \in Handlers \ {h} : ~TakesAdminAway(g)
      BY <2>2 DEF TakesAdminAway
    <3>3. \A g \in Handlers : ~TakesAdminAway(g)'
      BY <1>1, <3>2 DEF TakesAdminAway
    <3> QED BY <3>1, <3>3, AdminRemains DEF ChecksStand
  <2> QED BY <2>1, <2>2
<1> QED BY <1>5, <1>6, <1>7, <1>8, <1>9, <1>10, <1>11

(* Every step preserves the inductive invariant.                             *)
LEMMA StepIndInv == IndInv /\ [Next]_vars => IndInv'
<1> SUFFICES ASSUME IndInv, [Next]_vars PROVE IndInv'
  OBVIOUS
<1>1. ASSUME NEW h \in Handlers, LoginStep(h) PROVE IndInv'
  <2>1. CASE _log_dashboard_login(h)
    <3>1. LoggingIn(h) /\ job[h] \in LoginJobs
      BY <2>1 DEF _log_dashboard_login, LoggingIn, IndInv, JobFits
    <3>2. JobFits(h)'
      BY <2>1, <3>1 DEF _log_dashboard_login, JobFits, LoggingIn, IndInv, HandlersOK
    <3>3. [login |-> job[h].login, user |-> job[h].target, outcome |-> "success"]
            \in [login : 1..MaxLogins, user : Users, outcome : {"success", "failure"}]
      BY <3>1 DEF LoginJobs
    <3>4. audit' \subseteq [login : 1..MaxLogins, user : Users, outcome : {"success", "failure"}]
      BY <2>1, <3>3 DEF _log_dashboard_login, IndInv, TablesOK
    <3> QED BY <2>1, <3>1, <3>2, <3>4, TablesAlone DEF _log_dashboard_login, IndInv, HandlersOK, TablesOK
  <2> QED BY <1>1, <2>1, AuthenticateStep, CreateSessionStep DEF LoginStep
<1>2. ASSUME NEW h \in Handlers, ChangeStep(h) PROVE IndInv'
  <2>1. ASSUME NEW s \in sessions, NEW op \in Operations, NEW u \in Users, Authorize(h, s, op, u)
        PROVE  IndInv'
    <3>1. JobFits(h)' /\ DOMAIN job' = Handlers /\ \A g \in Handlers \ {h} : job'[g] = job[g]
      BY <2>1 DEF Authorize, JobFits, LoggingIn, ChangeJobs, IndInv, HandlersOK
    <3> QED BY <2>1, <3>1, TablesAlone DEF Authorize, IndInv, HandlersOK, TablesOK
  <2>2. CASE CheckTarget(h)
    <3>1. job[h] \in ChangeJobs /\ job[h].target \in Users
      BY <2>2 DEF CheckTarget, IndInv, JobFits, ChangeJobs
    <3>2. CASE LastAdmin(job[h].target, job[h].op)
      <4>1. /\ JobFits(h)' /\ DOMAIN job' = Handlers /\ DOMAIN doomed' = Handlers /\ doomed'[h] = {}
            /\ \A g \in Handlers \ {h} : job'[g] = job[g] /\ doomed'[g] = doomed[g]
            /\ phase' = [phase EXCEPT ![h] = "idle"]
        BY <2>2, <3>2 DEF CheckTarget, Finish, JobFits, LoggingIn, IndInv, HandlersOK
      <4> QED BY <2>2, <4>1, TablesAlone DEF CheckTarget, IndInv, TablesOK
    <3>3. CASE ~LastAdmin(job[h].target, job[h].op)
      <4>1. /\ phase' = [phase EXCEPT ![h] = "checked"] /\ doomed' = doomed
            /\ job'[h] = [target |-> job[h].target, op |-> job[h].op, role |-> role[job[h].target],
                          is_active |-> is_active[job[h].target]]
            /\ DOMAIN job' = Handlers /\ \A g \in Handlers \ {h} : job'[g] = job[g]
        BY <2>2, <3>3 DEF CheckTarget, IndInv, HandlersOK
      <4>2. JobFits(h)'
        BY <3>1, <4>1 DEF JobFits, LoggingIn, ChangeJobs, CheckedJobs, IndInv, HandlersOK, TablesOK
      <4>3. ~LastAdmin(job'[h].target, job'[h].op)
        BY <3>3, <4>1
      <4>4. UNCHANGED <<userVars, sessionVars, logins, audit>>
        BY <2>2 DEF CheckTarget
      <4>5. DOMAIN doomed' = Handlers /\ doomed'[h] \subseteq Sessions
        BY <4>1 DEF IndInv, HandlersOK, TablesOK
      <4>6. audit' \subseteq [login : 1..MaxLogins, user : Users, outcome : {"success", "failure"}]
        BY <4>4 DEF IndInv, TablesOK
      <4> QED BY <4>1, <4>2, <4>3, <4>4, <4>5, <4>6, TablesAlone
    <3> QED BY <3>2, <3>3
  <2> QED BY <1>2, <2>1, <2>2, RevokeStep, CommitStep DEF ChangeStep
<1>3. ASSUME NEW h \in Handlers, Crash(h) PROVE IndInv'
  <2>1. /\ JobFits(h)' /\ DOMAIN job' = Handlers /\ DOMAIN doomed' = Handlers /\ doomed'[h] = {}
        /\ \A g \in Handlers \ {h} : job'[g] = job[g] /\ doomed'[g] = doomed[g]
        /\ phase' = [phase EXCEPT ![h] = "idle"]
    BY <1>3 DEF Crash, Finish, JobFits, LoggingIn, IndInv, HandlersOK
  <2> QED BY <1>3, <2>1, TablesAlone DEF Crash, IndInv, TablesOK
<1>4. ASSUME NEW u \in Users, LoginFails(u) PROVE IndInv'
  <2>1. logins' \in logins..MaxLogins /\ logins + 1 \in 1..MaxLogins
    BY <1>4, BoundsAssumption DEF LoginFails, IndInv, TablesOK
  <2>2. audit' \subseteq [login : 1..MaxLogins, user : Users, outcome : {"success", "failure"}]
    BY <1>4, <2>1 DEF LoginFails, IndInv, TablesOK
  <2> QED BY <1>4, <2>1, <2>2, SessionsShrink DEF LoginFails, sessionVars, IndInv, TablesOK
<1>5. ASSUME NEW s \in sessions, delete_session_by_token(s) \/ Expire(s) PROVE IndInv'
  <2>1. logins' \in logins..MaxLogins
    BY <1>5, BoundsAssumption DEF delete_session_by_token, Expire, IndInv, TablesOK
  <2> QED BY <1>5, <2>1, SessionsShrink DEF delete_session_by_token, Expire, IndInv, TablesOK
<1>6. ASSUME UNCHANGED vars PROVE IndInv'
  <2>1. logins' \in logins..MaxLogins
    BY <1>6, BoundsAssumption DEF vars, IndInv, TablesOK
  <2> QED BY <1>6, <2>1, SessionsShrink DEF vars, userVars, IndInv, TablesOK
<1> QED BY <1>1, <1>2, <1>3, <1>4, <1>5, <1>6 DEF Next, AtBound

(* The inductive invariant holds in every reachable state.                   *)
THEOREM Invariance == Spec => []IndInv
BY InitIndInv, StepIndInv, PTL DEF Spec

(* The tables and the handlers' local state have their types, in every       *)
(* interleaving of the requests.                                             *)
THEOREM TypeCorrect == Spec => []TypeOK
<1>1. IndInv => TypeOK
  BY TypeOKParts DEF IndInv
<1> QED BY <1>1, Invariance, PTL

(* Every session has its login's event, and outlives a change of password or *)
(* a deactivation of its user only if its login overlapped the change.       *)
THEOREM SessionsAlwaysAccountedFor == Spec => []SessionsAccountedFor
<1>1. IndInv => SessionsAccountedFor
  BY DEF IndInv
<1> QED BY <1>1, Invariance, PTL

(* Another active admin remains after every change, unless two changes that  *)
(* each passed the check overlapped.                                         *)
THEOREM LastAdminsOnlyClash == Spec => []LastAdminsClash
<1>1. IndInv => LastAdminsClash
  BY CountsAdmins DEF IndInv, ChecksStand, LastAdminsClash
<1> QED BY <1>1, Invariance, PTL

-----------------------------------------------------------------------------
(***************************************************************************)
(* No window of window_seconds holds more than max_requests requests of a  *)
(* key, and no key is refused for less, whatever the limits, the number of *)
(* keys and the size of the table.                                         *)
(*                                                                         *)
(* WindowExact is about the true history, which the limiter does not have: *)
(* its timestamps are the end of that history, and all before them is too  *)
(* old to matter (Mirrors), also for a key that was deleted in between.    *)
(* That windows of the past were not exceeded either is said of pairs of   *)
(* requests: the one max_requests later came after the window had passed   *)
(* (Spaced).                                                               *)
(***************************************************************************)

\* The timestamps ts are the end of the history all, as of the time t; what
\* came before them is older than the window.
Mirrors(ts, all, t) ==
  /\ Len(ts) <= Len(all)
  /\ \A i \in 1 .. Len(ts) : ts[i] = all[Len(all) - Len(ts) + i]
  /\ \A i \in 1 .. Len(all) - Len(ts) : all[i] < t - window_seconds

Ordered(all) == \A i, j \in 1 .. Len(all) : i <= j => all[i] <= all[j]

Spaced(all) ==
  \A i, j \in 1 .. Len(all) : j = i + max_requests => all[j] > all[i] + window_seconds

HistoryOf(k) ==
  /\ Ordered(allowed[k]) /\ Spaced(allowed[k])
  /\ \A i \in 1 .. Len(allowed[k]) : allowed[k][i] <= now
  /\ Mirrors(_request_log[k], allowed[k], now) /\ Len(_request_log[k]) <= max_requests

RefusalsFit ==
  \A k \in refused :
    \/ InWindow(k, now) >= max_requests
    \/ _request_log[k] = <<>> /\ Cardinality(Tracked) >= _MAX_TRACKED_KEYS

LimiterIndInv ==
  /\ LimiterTypeOK /\ IsFiniteSet(Tracked)
  /\ \A k \in Keys : HistoryOf(k)
  /\ RefusalsFit

-----------------------------------------------------------------------------
(* What is left of a number is a number.                                     *)
LEMMA Rest ==
  ASSUME NEW n \in Nat, NEW m \in Nat, m <= n
  PROVE  \E d \in Nat : d = n - m
OBVIOUS

(* A set of natural numbers has a smallest one.                              *)
LEMMA SmallestOf ==
  ASSUME NEW S, S \subseteq Nat, S # {}
  PROVE  \E m \in S : \A p \in S : m <= p
<1> DEFINE below == OpToRel(<, Nat)
<1>1. IsWellFoundedOn(below, Nat)
  BY NatLessThanWellFounded, Zenon
<1>2. \A x, y \in Nat : y < x => <<y, x>> \in below
  BY DEF OpToRel
<1> HIDE DEF below
<1>3. PICK x \in S : \A y \in S : ~(<<y, x>> \in below)
  BY <1>1, WFMin
<1>4. ASSUME NEW y \in S PROVE x <= y
  <2>1. x \in Nat /\ y \in Nat
    OBVIOUS
  <2>2. ~(y < x)
    BY <1>2, <1>3, <2>1
  <2> QED BY <2>1, <2>2
<1> QED BY <1>4

(* The largest of some numbers up to N: there is one.                        *)
LEMMA LargestUpTo ==
  ASSUME NEW N \in Nat, NEW T, T \subseteq 0 .. N, T # {}
  PROVE  \E m \in T : \A p \in T : p <= m
<1> DEFINE gaps == {N - p : p \in T}
<1>1. gaps \subseteq Nat /\ gaps # {}
  <2>1. \A p \in T : N - p \in Nat
    OBVIOUS
  <2> QED BY <2>1
<1>2. PICK x \in gaps : \A y \in gaps : x <= y
  <2> HIDE DEF gaps
  <2> QED BY <1>1, SmallestOf
<1>3. PICK m \in T : x = N - m
  OBVIOUS
<1>4. ASSUME NEW p \in T PROVE p <= m
  <2>1. N - p \in gaps /\ p \in Int /\ m \in Int
    OBVIOUS
  <2>2. N - m <= N - p
    BY <1>2, <1>3, <2>1
  <2> QED BY <2>1, <2>2
<1> QED BY <1>4

(* The loop that pops aged timestamps leaves those from the first that is    *)
(* not.                                                                      *)
LEMMA DropAgedDrops ==
  ASSUME NEW s \in Seq(Nat), NEW cutoff \in Int, NEW u, u = DropAged(s, cutoff)
  PROVE  \E n \in 0 .. Len(s) :
           /\ u = SubSeq(s, n + 1, Len(s)) /\ u \in Seq(Nat) /\ Len(u) = Len(s) - n
           /\ \A i \in 1 .. Len(u) : u[i] = s[n + i]
           /\ \A i \in 1 .. n : s[i] < cutoff
           /\ u # <<>> => u[1] >= cutoff
<1> DEFINE T == {n \in 0 .. Len(s) : \A i \in 1 .. n : s[i] < cutoff}
           n == Max(T)
<1>1. Len(s) \in Nat /\ \A i \in 1 .. Len(s) : s[i] \in Nat
  OBVIOUS
<1>2. 0 \in T /\ T \subseteq 0 .. Len(s)
  BY <1>1
<1>3. n \in T /\ \A p \in T : p <= n
  <2>1. \E m \in T : \A p \in T : p <= m
    <3> HIDE DEF T
    <3> QED BY <1>1, <1>2, LargestUpTo
  <2>2. \E m \in T : \A p \in T : m >= p
    <3>1. \A m, p \in T : m \in Int /\ p \in Int
      BY <1>1
    <3> HIDE DEF T
    <3> QED BY <2>1, <3>1
  <2>3. n \in T /\ \A p \in T : n >= p
    <3> HIDE DEF T
    <3> QED BY <2>2 DEF Max
  <2>4. \A p \in T : p \in Int
    BY <1>1
  <2> HIDE DEF T, n
  <2> QED BY <2>3, <2>4
<1>4. n \in 0 .. Len(s) /\ \A i \in 1 .. n : s[i] < cutoff
  BY <1>3
<1>5. u = SubSeq(s, n + 1, Len(s))
  BY DEF DropAged
<1> HIDE DEF n
<1>6. u \in Seq(Nat) /\ Len(u) = Len(s) - n /\ \A i \in 1 .. Len(u) : u[i] = s[n + i]
  BY <1>1, <1>4, <1>5
<1>7. ASSUME u # <<>> PROVE u[1] >= cutoff
  <2>1. Len(u) >= 1
    BY <1>6, <1>7
  <2>2. n + 1 \in 0 .. Len(s) /\ n + 1 \in 1 .. Len(s) /\ u[1] = s[n + 1]
    BY <1>1, <1>4, <1>6, <2>1
  <2>3. n + 1 \notin T
    BY <1>3, <1>4, <1>1
  <2>4. ~(s[n + 1] < cutoff)
    <3> SUFFICES ASSUME s[n + 1] < cutoff PROVE FALSE
      OBVIOUS
    <3>1. \A i \in 1 .. n + 1 : i \in 1 .. n \/ i = n + 1
      BY <1>4
    <3> QED BY <1>4, <2>2, <2>3, <3>1
  <2> QED BY <1>1, <2>2, <2>4
<1> QED BY <1>4, <1>5, <1>6, <1>7

(* Dropping them leaves the timestamps of the window.                        *)
LEMMA DropAgedMirrors ==
  ASSUME NEW s \in Seq(Nat), NEW all \in Seq(Nat), NEW t \in Nat, Mirrors(s, all, t), Ordered(all),
         NEW u, u = DropAged(s, t - window_seconds)
  PROVE  /\ u \in Seq(Nat) /\ Len(u) <= Len(s) /\ Mirrors(u, all, t)
         /\ \A i \in 1 .. Len(u) : u[i] >= t - window_seconds
         /\ \A X : s \in Seq(X) => u \in Seq(X)
<1>1. PICK c \in Int : c = t - window_seconds
  BY LimitAssumption
<1>2. /\ Len(s) \in Nat /\ Len(all) \in Nat /\ Len(s) <= Len(all)
      /\ \A i \in 1 .. Len(all) : all[i] \in Nat
  BY DEF Mirrors
<1>3. PICK d \in Nat : d = Len(all) - Len(s)
  BY <1>2, Rest
<1>4. /\ \A i \in 1 .. Len(s) : s[i] = all[d + i]
      /\ \A i \in 1 .. d : all[i] < c
  BY <1>1, <1>3 DEF Mirrors
<1>5. \E n \in 0 .. Len(s) :
        /\ u = SubSeq(s, n + 1, Len(s)) /\ u \in Seq(Nat) /\ Len(u) = Len(s) - n
        /\ \A i \in 1 .. Len(u) : u[i] = s[n + i]
        /\ \A i \in 1 .. n : s[i] < c
        /\ u # <<>> => u[1] >= c
  <2>1. u = DropAged(s, c)
    BY <1>1
  <2> HIDE DEF DropAged
  <2> QED BY <2>1, DropAgedDrops
<1>6. PICK n \in 0 .. Len(s) :
        /\ u = SubSeq(s, n + 1, Len(s)) /\ u \in Seq(Nat) /\ Len(u) = Len(s) - n
        /\ \A i \in 1 .. Len(u) : u[i] = s[n + i]
        /\ \A i \in 1 .. n : s[i] < c
        /\ u # <<>> => u[1] >= c
  BY <1>5
<1>7. n \in Nat /\ n <= Len(s) /\ Len(u) \in Nat
  BY <1>2, <1>6
<1>8. PICK e \in Nat : e = d + n
  BY <1>7
<1>9. /\ Len(u) \in Nat /\ Len(u) <= Len(s) /\ Len(u) <= Len(all)
      /\ Len(all) - Len(u) = e /\ Len(all) = e + Len(u)
  <2>1. PICK lu \in Int : lu = Len(u)
    BY <1>7
  <2>2. PICK ls \in Int : ls = Len(s)
    BY <1>2
  <2>3. PICK la \in Int : la = Len(all)
    BY <1>2
  <2>4. lu = ls - n /\ d = la - ls /\ lu \in Nat /\ ls <= la
    BY <1>2, <1>3, <1>6, <1>7, <2>1, <2>2, <2>3
  <2>5. lu <= ls /\ lu <= la /\ la - lu = e /\ la = e + lu
    BY <1>7, <1>8, <2>4
  <2> QED BY <2>1, <2>2, <2>3, <2>4, <2>5
<1>10. ASSUME NEW i \in 1 .. Len(u) PROVE u[i] = all[e + i]
  <2>1. n + i \in 1 .. Len(s) /\ d + (n + i) = e + i
    BY <1>2, <1>6, <1>7, <1>8, <1>9
  <2> QED BY <1>4, <1>6, <2>1
<1>11. ASSUME NEW i \in 1 .. e PROVE all[i] < c
  <2>1. CASE i <= d
    BY <1>4, <2>1
  <2>2. CASE i > d
    <3>1. PICK j \in Int : i = d + j
      <4>1. i - d \in Int /\ i = d + (i - d)
        OBVIOUS
      <4> QED BY <4>1
    <3>2. j \in 1 .. n /\ j \in 1 .. Len(s)
      BY <1>2, <1>7, <1>8, <2>2, <3>1
    <3> QED BY <1>4, <1>6, <3>1, <3>2
  <2> QED BY <2>1, <2>2
<1>12. ASSUME NEW i \in 1 .. Len(u) PROVE u[i] >= c
  <2>1. 1 \in 1 .. Len(u) /\ u # <<>>
    BY <1>9
  <2>2. e + 1 \in 1 .. Len(all) /\ e + i \in 1 .. Len(all) /\ e + 1 <= e + i
    BY <1>2, <1>9
  <2>3. all[e + 1] <= all[e + i] /\ all[e + 1] \in Nat /\ all[e + i] \in Nat
    BY <1>2, <2>2 DEF Ordered
  <2>4. all[e + 1] = u[1] /\ all[e + i] = u[i] /\ u[1] >= c
    BY <1>6, <1>10, <2>1
  <2> QED BY <2>3, <2>4
<1>13. Mirrors(u, all, t)
  BY <1>1, <1>9, <1>10, <1>11 DEF Mirrors
<1>14. ASSUME NEW X, s \in Seq(X) PROVE u \in Seq(X)
  <2>1. \A i \in n + 1 .. Len(s) : s[i] \in X
    <3>1. \A i \in n + 1 .. Len(s) : i \in 1 .. Len(s)
      BY <1>2, <1>7
    <3>2. \A i \in 1 .. Len(s) : s[i] \in X
      BY <1>14
    <3> QED BY <3>1, <3>2
  <2>2. n + 1 \in Int /\ Len(s) \in Int
    BY <1>2, <1>7
  <2>3. SubSeq(s, n + 1, Len(s)) \in Seq(X)
    BY <2>1, <2>2, SubSeqProperties
  <2> QED BY <1>6, <2>3
<1> QED BY <1>1, <1>6, <1>9, <1>12, <1>13, <1>14

-----------------------------------------------------------------------------
\* The places of the history all that lie in the window ending at t.
Places(all, t) == {i \in DOMAIN all : all[i] \in (t - window_seconds) .. t}

(* Requests max_requests apart lie in no window together, so a window has no *)
(* more of them.                                                             *)
LEMMA WindowBounded ==
  ASSUME NEW all \in Seq(Nat), Ordered(all), Spaced(all), NEW t \in Nat
  PROVE  Cardinality(Places(all, t)) <= max_requests
<1> DEFINE S == Places(all, t)
<1>1. /\ Len(all) \in Nat /\ \A i \in 1 .. Len(all) : all[i] \in Nat
      /\ max_requests \in Nat /\ max_requests >= 1 /\ window_seconds \in Nat
  BY LimitAssumption
<1>2. \A i \in S : i \in 1 .. Len(all) /\ t - window_seconds <= all[i] /\ all[i] <= t
  BY <1>1 DEF Places
<1>3. CASE S = {}
  BY <1>1, <1>3, FS_EmptySet
<1>4. CASE S # {}
  <2> HIDE DEF S
  <2>1. S \subseteq Nat
    BY <1>1, <1>2
  <2>2. PICK m \in S : \A i \in S : m <= i
    BY <1>4, <2>1, SmallestOf
  <2>3. ASSUME NEW i \in S PROVE i \in m .. m + max_requests - 1
    <3>1. CASE i < m + max_requests
      BY <1>1, <2>1, <2>2, <3>1
    <3>2. CASE i >= m + max_requests
      <4>1. m + max_requests \in 1 .. Len(all) /\ m \in 1 .. Len(all) /\ i \in 1 .. Len(all)
        BY <1>1, <1>2, <2>1, <3>2
      <4>2. all[m + max_requests] > all[m] + window_seconds
        BY <4>1 DEF Spaced
      <4>3. all[m + max_requests] <= all[i]
        BY <3>2, <4>1 DEF Ordered
      <4>4. t - window_seconds <= all[m] /\ all[i] <= t
        BY <1>2
      <4>5. /\ all[m] \in Nat /\ all[i] \in Nat /\ all[m + max_requests] \in Nat
            /\ window_seconds \in Nat
        BY <1>1, <4>1
      <4> QED BY <4>2, <4>3, <4>4, <4>5
    <3> QED BY <1>1, <2>1, <3>1, <3>2
  <2>4. m \in Int /\ m + max_requests - 1 \in Int /\ m <= m + max_requests - 1
    BY <1>1, <2>1
  <2>5. /\ IsFiniteSet(m .. m + max_requests - 1)
        /\ Cardinality(m .. m + max_requests - 1) = max_requests
    <3>1. (m + max_requests - 1) - m + 1 = max_requests /\ ~(m > m + max_requests - 1)
      BY <1>1, <2>1
    <3> QED BY <2>4, <3>1, FS_Interval
  <2>6. S \in SUBSET (m .. m + max_requests - 1)
    BY <2>3
  <2> QED BY <2>5, <2>6, FS_Subset DEF S
<1> QED BY <1>3, <1>4

(* A key with max_requests timestamps left has used its window up.           *)
LEMMA WindowUsed ==
  ASSUME NEW all \in Seq(Nat), NEW t \in Nat, \A i \in 1 .. Len(all) : all[i] <= t,
         NEW u \in Seq(Nat), Mirrors(u, all, t), \A i \in 1 .. Len(u) : u[i] >= t - window_seconds,
         Len(u) >= max_requests
  PROVE  Cardinality(Places(all, t)) >= max_requests
<1>1. /\ Len(all) \in Nat /\ Len(u) \in Nat /\ Len(u) <= Len(all)
      /\ DOMAIN all = 1 .. Len(all) /\ \A i \in 1 .. Len(all) : all[i] \in Nat
  <2>1. Len(u) <= Len(all)
    BY DEF Mirrors
  <2> QED BY <2>1
<1>2. window_seconds \in Nat /\ max_requests \in Nat /\ max_requests >= 1
  BY LimitAssumption
<1>3. PICK d \in Nat : d = Len(all) - Len(u)
  BY <1>1, Rest
<1>4. ASSUME NEW i \in d + 1 .. Len(all) PROVE i \in Places(all, t)
  <2>1. i \in 1 .. Len(all) /\ i - d \in 1 .. Len(u) /\ d + (i - d) = i
    BY <1>1, <1>3
  <2>2. u[i - d] = all[i]
    BY <1>3, <2>1 DEF Mirrors
  <2>3. all[i] >= t - window_seconds /\ all[i] <= t
    BY <2>1, <2>2
  <2> QED BY <1>1, <1>2, <2>1, <2>3 DEF Places
<1>5. IsFiniteSet(1 .. Len(all))
  <2>1. 1 \in Int /\ Len(all) \in Int
    BY <1>1
  <2> QED BY <2>1, FS_Interval
<1>6. Places(all, t) \in SUBSET (1 .. Len(all))
  BY <1>1 DEF Places
<1>7. IsFiniteSet(Places(all, t)) /\ Cardinality(Places(all, t)) \in Nat
  BY <1>5, <1>6, FS_Subset, FS_CardinalityType
<1>8. Cardinality(d + 1 .. Len(all)) = Len(u)
  <2>1. d + 1 \in Int /\ Len(all) \in Int /\ ~(d + 1 > Len(all)) /\ Len(all) - (d + 1) + 1 = Len(u)
    BY <1>1, <1>2, <1>3
  <2> QED BY <2>1, FS_Interval
<1>9. (d + 1 .. Len(all)) \in SUBSET Places(all, t)
  BY <1>4
<1>10. Cardinality(d + 1 .. Len(all)) <= Cardinality(Places(all, t))
  BY <1>7, <1>9, FS_Subset
<1> QED BY <1>1, <1>7, <1>8, <1>10, <1>2, <1>3

(* A request that comes when fewer than max_requests are left continues the  *)
(* history and what stands for it.                                           *)
LEMMA AppendFits ==
  ASSUME NEW all \in Seq(Nat), NEW t \in Nat, \A i \in 1 .. Len(all) : all[i] <= t,
         Ordered(all), Spaced(all),
         NEW u \in Seq(Nat), Mirrors(u, all, t), Len(u) < max_requests,
         NEW longer, longer = Append(all, t), NEW log, log = Append(u, t)
  PROVE  /\ Ordered(longer) /\ Spaced(longer) /\ \A i \in 1 .. Len(longer) : longer[i] <= t
         /\ Mirrors(log, longer, t) /\ Len(log) <= max_requests
<1>1. /\ Len(all) \in Nat /\ Len(u) \in Nat /\ \A i \in 1 .. Len(all) : all[i] \in Nat
      /\ max_requests \in Nat /\ max_requests >= 1 /\ window_seconds \in Nat
      /\ Len(u) <= Len(all)
  BY LimitAssumption DEF Mirrors
<1>2. PICK n \in Nat : n = Len(all)
  BY <1>1
<1>3. PICK m \in Nat : m = Len(u)
  BY <1>1
<1>4. PICK c \in Int : c = t - window_seconds
  BY <1>1
<1>5. /\ longer \in Seq(Nat) /\ Len(longer) = n + 1 /\ longer[n + 1] = t
      /\ \A i \in 1 .. n : longer[i] = all[i]
  BY <1>2
<1>6. /\ log \in Seq(Nat) /\ Len(log) = m + 1 /\ log[m + 1] = t
      /\ \A i \in 1 .. m : log[i] = u[i]
  BY <1>3
<1>7. /\ m <= n /\ m < max_requests
      /\ \A i \in 1 .. n : all[i] \in Nat /\ all[i] <= t
  BY <1>1, <1>2, <1>3
<1>8. PICK d \in Nat : d = n - m
  BY <1>7, Rest
<1>9. /\ \A i \in 1 .. m : u[i] = all[d + i]
      /\ \A i \in 1 .. d : all[i] < c
  BY <1>2, <1>3, <1>4, <1>8 DEF Mirrors
<1>10. ASSUME NEW i \in 1 .. n + 1 PROVE i \in 1 .. n \/ i = n + 1
  OBVIOUS
<1>11. \A i \in 1 .. n + 1 : longer[i] \in Nat /\ longer[i] <= t
  BY <1>5, <1>7, <1>10
<1>12. ASSUME NEW i \in 1 .. n + 1, NEW j \in 1 .. n + 1, i <= j PROVE longer[i] <= longer[j]
  <2>1. CASE j = n + 1
    BY <1>5, <1>11, <2>1
  <2>2. CASE j \in 1 .. n
    <3>1. i \in 1 .. n
      BY <1>12, <2>2
    <3> QED BY <1>2, <1>5, <1>12, <2>2, <3>1 DEF Ordered
  <2> QED BY <1>10, <2>1, <2>2
<1>13. ASSUME NEW i \in 1 .. n + 1, NEW j \in 1 .. n + 1, j = i + max_requests
       PROVE  longer[j] > longer[i] + window_seconds
  <2>1. i \in 1 .. n
    BY <1>1, <1>13
  <2>2. CASE j = n + 1
    <3>1. i \in 1 .. d
      BY <1>1, <1>7, <1>8, <1>13, <2>2
    <3>2. longer[i] < t - window_seconds /\ longer[j] = t /\ longer[i] \in Nat
      BY <1>4, <1>5, <1>7, <1>9, <2>1, <2>2, <3>1
    <3>3. PICK x \in Nat : x = longer[i]
      BY <3>2
    <3>4. PICK w \in Nat : w = window_seconds
      BY <1>1
    <3>5. x < t - w
      BY <3>2, <3>3, <3>4
    <3>6. t > x + w
      BY <3>5
    <3> QED BY <3>2, <3>3, <3>4, <3>6
  <2>3. CASE j \in 1 .. n
    BY <1>2, <1>5, <1>13, <2>1, <2>3 DEF Spaced
  <2> QED BY <1>10, <2>2, <2>3
<1>14. ASSUME NEW i \in 1 .. m + 1 PROVE log[i] = longer[d + i]
  <2>1. CASE i = m + 1
    <3>1. d + (m + 1) = n + 1
      BY <1>8
    <3> QED BY <1>5, <1>6, <2>1, <3>1
  <2>2. CASE i # m + 1
    <3>1. i \in 1 .. m /\ d + i \in 1 .. n
      BY <1>7, <1>8, <2>2
    <3> QED BY <1>5, <1>6, <1>9, <3>1
  <2> QED BY <2>1, <2>2
<1>15. (n + 1) - (m + 1) = d /\ m + 1 <= n + 1 /\ m + 1 <= max_requests
  BY <1>1, <1>7, <1>8
<1>16. ASSUME NEW i \in 1 .. d PROVE longer[i] < c
  <2>1. i \in 1 .. n
    BY <1>7, <1>8
  <2> QED BY <1>5, <1>9, <2>1
<1>17. Ordered(longer) /\ Spaced(longer)
  BY <1>5, <1>12, <1>13 DEF Ordered, Spaced
<1>18. Mirrors(log, longer, t)
  BY <1>4, <1>5, <1>6, <1>14, <1>15, <1>16 DEF Mirrors
<1> QED BY <1>5, <1>6, <1>11, <1>15, <1>17, <1>18

-----------------------------------------------------------------------------
(* What check_rate_limit decides by: the timestamps left once the aged ones  *)
(* are dropped, or the number of the other keys.                             *)
LEMMA Decision ==
  ASSUME NEW k \in Keys, check_rate_limit(k)
  PROVE  \E u :
           /\ u = DropAged(_request_log[k], now - window_seconds)
           /\ \/ /\ Refuse(k, u)
                 /\ u # <<>> => Len(u) >= max_requests
                 /\ u = <<>> => Cardinality(Tracked \ {k}) >= _MAX_TRACKED_KEYS
              \/ /\ Allow(k, u)
                 /\ u # <<>> => ~(Len(u) >= max_requests)
                 /\ u = <<>> => ~(Cardinality(Tracked \ {k}) >= _MAX_TRACKED_KEYS)
<1> DEFINE u == DropAged(_request_log[k], now - window_seconds)
           full == Cardinality(Tracked \ {k}) >= _MAX_TRACKED_KEYS
           used == Len(u) >= max_requests
<1>1. IF IF u # <<>> THEN used ELSE full THEN Refuse(k, u) ELSE Allow(k, u)
  BY DEF check_rate_limit
<1>2. \E v : v = u
  OBVIOUS
<1> HIDE DEF full, used
<1>3. \/ Refuse(k, u) /\ (u # <<>> => used) /\ (u = <<>> => full)
      \/ Allow(k, u) /\ (u # <<>> => ~used) /\ (u = <<>> => ~full)
  <2> HIDE DEF u
  <2>1. CASE u = <<>> /\ full
    BY <1>1, <2>1, Zenon
  <2>2. CASE u = <<>> /\ ~full
    BY <1>1, <2>2, Zenon
  <2>3. CASE u # <<>> /\ used
    BY <1>1, <2>3, Zenon
  <2>4. CASE u # <<>> /\ ~used
    BY <1>1, <2>4, Zenon
  <2> QED BY <2>1, <2>2, <2>3, <2>4, Zenon
<1> QED BY <1>3, Zenon DEF full, used

(* What is left then stands for the same history.                            *)
LEMMA LeftFits ==
  ASSUME LimiterIndInv, NEW k \in Keys, NEW u, u = DropAged(_request_log[k], now - window_seconds)
  PROVE  /\ u \in Seq(0 .. MaxClock) /\ u \in Seq(Nat) /\ Mirrors(u, allowed[k], now)
         /\ Len(u) <= max_requests
         /\ \A i \in 1 .. Len(u) : u[i] >= now - window_seconds
<1>1. now \in Nat /\ _request_log[k] \in Seq(0 .. MaxClock) /\ allowed[k] \in Seq(0 .. MaxClock)
  BY CapacityAssumption DEF LimiterIndInv, LimiterTypeOK
<1>2. 0 .. MaxClock \subseteq Nat
  BY CapacityAssumption
<1>3. _request_log[k] \in Seq(Nat) /\ allowed[k] \in Seq(Nat)
  BY <1>1, <1>2, SeqMonotonic
<1>4. /\ Mirrors(_request_log[k], allowed[k], now) /\ Ordered(allowed[k])
      /\ Len(_request_log[k]) <= max_requests
  BY DEF LimiterIndInv, HistoryOf
<1>5. /\ u \in Seq(Nat) /\ Len(u) <= Len(_request_log[k]) /\ Mirrors(u, allowed[k], now)
      /\ \A i \in 1 .. Len(u) : u[i] >= now - window_seconds
      /\ \A X : _request_log[k] \in Seq(X) => u \in Seq(X)
  BY <1>1, <1>3, <1>4, DropAgedMirrors
<1>6. Len(u) \in Nat /\ Len(_request_log[k]) \in Nat /\ max_requests \in Nat
  BY <1>3, <1>5, LimitAssumption
<1>7. Len(u) <= max_requests
  BY <1>4, <1>5, <1>6
<1> QED BY <1>1, <1>5, <1>7

(* Only a key with an entry has timestamps left.                             *)
LEMMA LeftKeyTracked ==
  ASSUME LimiterIndInv, NEW k \in Keys, NEW u, u = DropAged(_request_log[k], now - window_seconds),
         u # <<>>
  PROVE  k \in Tracked
<1>1. _request_log[k] \in Seq(Nat) /\ now - window_seconds \in Int
  <2>1. 0 .. MaxClock \subseteq Nat
    BY CapacityAssumption
  <2> QED BY <2>1, SeqMonotonic, LimitAssumption, CapacityAssumption DEF LimiterIndInv, LimiterTypeOK
<1>2. PICK n \in 0 .. Len(_request_log[k]) :
        Len(u) = Len(_request_log[k]) - n /\ u \in Seq(Nat)
  BY <1>1, DropAgedDrops
<1>3. _request_log[k] # <<>>
  BY <1>1, <1>2
<1> QED BY <1>3 DEF Tracked

(* However a key's entry comes and goes, it stands for the key's history.    *)
LEMMA StepHistory == LimiterIndInv /\ [LimiterNext]_limiterVars => \A k \in Keys : HistoryOf(k)'
<1> SUFFICES ASSUME LimiterIndInv, [LimiterNext]_limiterVars, NEW j \in Keys PROVE HistoryOf(j)'
  OBVIOUS
<1>1. /\ HistoryOf(j) /\ now \in Nat /\ 0 .. MaxClock \subseteq Nat
      /\ _request_log \in [Keys -> Seq(0 .. MaxClock)] /\ allowed \in [Keys -> Seq(0 .. MaxClock)]
  BY CapacityAssumption DEF LimiterIndInv, LimiterTypeOK
<1>2. allowed[j] \in Seq(Nat)
  BY <1>1, SeqMonotonic
<1>3. CASE Tick
  <2>1. PICK t \in Nat : t = now'
    BY <1>1, <1>3 DEF Tick
  <2>2. /\ t = now + 1 /\ window_seconds \in Nat
        /\ Len(allowed[j]) \in Nat /\ Len(_request_log[j]) \in Nat
    BY <1>1, <1>3, <2>1, LimitAssumption DEF Tick
  <2>3. \A i \in 1 .. Len(allowed[j]) : allowed[j][i] \in Nat
    BY <1>2
  <2>4. \A i \in 1 .. Len(allowed[j]) : allowed[j][i] <= t
    BY <1>1, <2>2, <2>3 DEF HistoryOf
  <2>5. Mirrors(_request_log[j], allowed[j], t)
    <3>1. \A i \in 1 .. Len(allowed[j]) - Len(_request_log[j]) :
            i \in 1 .. Len(allowed[j])
      BY <2>2
    <3>2. \A i \in 1 .. Len(allowed[j]) - Len(_request_log[j]) :
            allowed[j][i] < now - window_seconds
      BY <1>1 DEF HistoryOf, Mirrors
    <3>3. \A i \in 1 .. Len(allowed[j]) - Len(_request_log[j]) : allowed[j][i] < t - window_seconds
      BY <1>1, <2>2, <2>3, <3>1, <3>2
    <3> QED BY <1>1, <3>3 DEF HistoryOf, Mirrors
  <2>6. _request_log' = _request_log /\ allowed' = allowed
    BY <1>3 DEF Tick
  <2> QED BY <1>1, <2>1, <2>4, <2>5, <2>6 DEF HistoryOf
<1>4. ASSUME NEW k \in Keys, check_rate_limit(k) PROVE HistoryOf(j)'
  <2>1. PICK u :
          /\ u = DropAged(_request_log[k], now - window_seconds)
          /\ \/ Refuse(k, u)
             \/ Allow(k, u) /\ (u # <<>> => ~(Len(u) >= max_requests))
    BY <1>4, Decision, Zenon
  <2>2. /\ u \in Seq(Nat) /\ Mirrors(u, allowed[k], now) /\ Len(u) <= max_requests
    BY <2>1, LeftFits
  <2>3. CASE j # k
    <3>1. _request_log'[j] = _request_log[j] /\ allowed'[j] = allowed[j] /\ now' = now
      BY <1>1, <2>1, <2>3 DEF Refuse, Allow
    <3> QED BY <1>1, <3>1 DEF HistoryOf
  <2>4. CASE j = k /\ Refuse(k, u)
    <3>1. _request_log'[j] = u /\ allowed'[j] = allowed[j] /\ now' = now
      BY <1>1, <2>4 DEF Refuse
    <3> QED BY <1>1, <2>2, <2>4, <3>1 DEF HistoryOf
  <2>5. CASE j = k /\ Allow(k, u) /\ (u # <<>> => ~(Len(u) >= max_requests))
    <3>1. Len(u) < max_requests
      <4>1. CASE u = <<>>
        BY <4>1, LimitAssumption
      <4>2. CASE u # <<>>
        <5>1. Len(u) \in Nat /\ max_requests \in Nat
          BY <2>2, LimitAssumption
        <5> QED BY <2>5, <4>2, <5>1
      <4> QED BY <4>1, <4>2
    <3>2. PICK longer : longer = Append(allowed[j], now)
      OBVIOUS
    <3>3. PICK log : log = Append(u, now)
      OBVIOUS
    <3>4. _request_log'[j] = log /\ allowed'[j] = longer /\ now' = now
      BY <1>1, <2>5, <3>2, <3>3 DEF Allow
    <3>5. /\ Ordered(longer) /\ Spaced(longer) /\ \A i \in 1 .. Len(longer) : longer[i] <= now
          /\ Mirrors(log, longer, now) /\ Len(log) <= max_requests
      <4>1. /\ Ordered(allowed[j]) /\ Spaced(allowed[j])
            /\ \A i \in 1 .. Len(allowed[j]) : allowed[j][i] <= now
        BY <1>1 DEF HistoryOf
      <4> QED BY <1>1, <1>2, <2>2, <2>5, <3>1, <3>2, <3>3, <4>1, AppendFits
    <3> QED BY <3>4, <3>5 DEF HistoryOf
  <2> QED BY <2>1, <2>3, <2>4, <2>5
<1>5. CASE UNCHANGED limiterVars
  BY <1>1, <1>5 DEF limiterVars, HistoryOf
<1> QED BY <1>3, <1>4, <1>5 DEF LimiterNext

(* The table stays within _MAX_TRACKED_KEYS: a key that was not in it gets   *)
(* an entry only if there is a place for one.                                *)
LEMMA StepTypes == LimiterIndInv /\ [LimiterNext]_limiterVars => LimiterTypeOK' /\ IsFiniteSet(Tracked)'
<1> SUFFICES ASSUME LimiterIndInv, [LimiterNext]_limiterVars PROVE LimiterTypeOK' /\ IsFiniteSet(Tracked)'
  OBVIOUS
<1>1. /\ LimiterTypeOK /\ IsFiniteSet(Tracked) /\ Cardinality(Tracked) \in Nat
      /\ MaxClock \in Nat /\ _MAX_TRACKED_KEYS \in Nat
  BY CapacityAssumption, FS_CardinalityType DEF LimiterIndInv
<1>2. CASE Tick
  <2>1. Tracked' = Tracked
    BY <1>2 DEF Tick, Tracked
  <2>2. now' \in 0 .. MaxClock
    BY <1>1, <1>2 DEF LimiterTypeOK, Tick
  <2> QED BY <1>1, <1>2, <2>1, <2>2 DEF LimiterTypeOK, Tick
<1>3. ASSUME NEW k \in Keys, check_rate_limit(k) PROVE LimiterTypeOK' /\ IsFiniteSet(Tracked)'
  <2>1. PICK u :
          /\ u = DropAged(_request_log[k], now - window_seconds)
          /\ \/ Refuse(k, u)
             \/ /\ Allow(k, u)
                /\ u = <<>> => ~(Cardinality(Tracked \ {k}) >= _MAX_TRACKED_KEYS)
    BY <1>3, Decision, Zenon
  <2>2. u \in Seq(0 .. MaxClock) /\ now \in 0 .. MaxClock
    BY <1>1, <2>1, LeftFits DEF LimiterTypeOK
  <2>3. u # <<>> => k \in Tracked
    BY <2>1, LeftKeyTracked
  <2>4. /\ IsFiniteSet(Tracked \ {k}) /\ Cardinality(Tracked \ {k}) <= Cardinality(Tracked)
        /\ Cardinality(Tracked \ {k}) \in Nat
    <3>1. (Tracked \ {k}) \in SUBSET Tracked
      OBVIOUS
    <3>2. IsFiniteSet(Tracked \ {k}) /\ Cardinality(Tracked \ {k}) <= Cardinality(Tracked)
      BY <1>1, <3>1, FS_Subset
    <3> QED BY <3>2, FS_CardinalityType
  <2>5. CASE Refuse(k, u)
    <3>1. Tracked' \in {Tracked, Tracked \ {k}}
      <4>1. CASE u = <<>>
        BY <1>1, <2>5, <4>1 DEF LimiterTypeOK, Refuse, Tracked
      <4>2. CASE u # <<>>
        BY <1>1, <2>3, <2>5, <4>2 DEF LimiterTypeOK, Refuse, Tracked
      <4> QED BY <4>1, <4>2
    <3>2. IsFiniteSet(Tracked') /\ Cardinality(Tracked') <= _MAX_TRACKED_KEYS
      <4>1. CASE Tracked' = Tracked
        BY <1>1, <4>1 DEF LimiterTypeOK
      <4>2. CASE Tracked' = Tracked \ {k}
        <5>1. Cardinality(Tracked \ {k}) <= _MAX_TRACKED_KEYS
          BY <1>1, <2>4 DEF LimiterTypeOK
        <5> QED BY <2>4, <4>2, <5>1
      <4> QED BY <3>1, <4>1, <4>2
    <3>3. _request_log' \in [Keys -> Seq(0 .. MaxClock)]
      BY <1>1, <2>2, <2>5 DEF LimiterTypeOK, Refuse
    <3> QED BY <1>1, <2>5, <3>2, <3>3 DEF LimiterTypeOK, Refuse
  <2>6. CASE Allow(k, u) /\ (u = <<>> => ~(Cardinality(Tracked \ {k}) >= _MAX_TRACKED_KEYS))
    <3>1. Append(u, now) # <<>>
      BY <2>2
    <3>2. Tracked' = Tracked \cup {k}
      BY <1>1, <2>6, <3>1 DEF LimiterTypeOK, Allow, Tracked
    <3>3. IsFiniteSet(Tracked') /\ Cardinality(Tracked') <= _MAX_TRACKED_KEYS
      <4>1. CASE k \in Tracked
        <5>1. Tracked' = Tracked
          BY <3>2, <4>1
        <5> QED BY <1>1, <5>1 DEF LimiterTypeOK
      <4>2. CASE k \notin Tracked
        <5>1. Tracked \ {k} = Tracked /\ u = <<>>
          BY <2>3, <4>2
        <5>2. /\ IsFiniteSet(Tracked \cup {k})
              /\ Cardinality(Tracked \cup {k}) = Cardinality(Tracked) + 1
          BY <1>1, <4>2, FS_AddElement
        <5>3. ~(Cardinality(Tracked) >= _MAX_TRACKED_KEYS)
          BY <2>6, <5>1
        <5>4. Cardinality(Tracked \cup {k}) <= _MAX_TRACKED_KEYS
          BY <1>1, <5>2, <5>3
        <5> QED BY <3>2, <5>2, <5>4
      <4> QED BY <4>1, <4>2
    <3>4. /\ _request_log' \in [Keys -> Seq(0 .. MaxClock)]
          /\ allowed' \in [Keys -> Seq(0 .. MaxClock)]
      <4>1. Append(u, now) \in Seq(0 .. MaxClock)
        BY <2>2
      <4>2. Append(allowed[k], now) \in Seq(0 .. MaxClock)
        BY <1>1, <2>2 DEF LimiterTypeOK
      <4> QED BY <1>1, <2>6, <4>1, <4>2 DEF LimiterTypeOK, Allow
    <3> QED BY <1>1, <2>6, <3>3, <3>4 DEF LimiterTypeOK, Allow
  <2> QED BY <2>1, <2>5, <2>6
<1>4. CASE UNCHANGED limiterVars
  <2>1. Tracked' = Tracked
    BY <1>4 DEF limiterVars, Tracked
  <2> QED BY <1>1, <1>4, <2>1 DEF limiterVars, LimiterTypeOK
<1> QED BY <1>2, <1>3, <1>4 DEF LimiterNext

(* Who is refused has used the window up, or meets a full table.             *)
LEMMA StepRefusals == LimiterIndInv /\ [LimiterNext]_limiterVars => RefusalsFit'
<1> SUFFICES ASSUME LimiterIndInv, [LimiterNext]_limiterVars PROVE RefusalsFit'
  OBVIOUS
<1>1. LimiterTypeOK /\ RefusalsFit /\ MaxClock \in Nat
  BY CapacityAssumption DEF LimiterIndInv
<1>2. CASE Tick
  BY <1>2 DEF Tick, RefusalsFit
<1>3. ASSUME NEW k \in Keys, check_rate_limit(k) PROVE RefusalsFit'
  <2>1. PICK u :
          /\ u = DropAged(_request_log[k], now - window_seconds)
          /\ \/ /\ Refuse(k, u)
                /\ u # <<>> => Len(u) >= max_requests
                /\ u = <<>> => Cardinality(Tracked \ {k}) >= _MAX_TRACKED_KEYS
             \/ /\ Allow(k, u)
                /\ u # <<>> => ~(Len(u) >= max_requests)
                /\ u = <<>> => ~(Cardinality(Tracked \ {k}) >= _MAX_TRACKED_KEYS)
    BY <1>3, Decision, Zenon
  <2>2. /\ u \in Seq(Nat) /\ Mirrors(u, allowed[k], now)
        /\ \A i \in 1 .. Len(u) : u[i] >= now - window_seconds
    BY <2>1, LeftFits
  <2>3. CASE Allow(k, u)
    BY <2>3 DEF Allow, RefusalsFit
  <2>4. CASE /\ Refuse(k, u)
             /\ u # <<>> => Len(u) >= max_requests
             /\ u = <<>> => Cardinality(Tracked \ {k}) >= _MAX_TRACKED_KEYS
    <3>1. refused' = {k} /\ _request_log'[k] = u /\ allowed' = allowed /\ now' = now
      BY <1>1, <2>4 DEF LimiterTypeOK, Refuse
    <3>2. CASE u = <<>>
      <4>1. Tracked' = Tracked \ {k}
        BY <1>1, <2>4, <3>2 DEF LimiterTypeOK, Refuse, Tracked
      <4> QED BY <2>4, <3>1, <3>2, <4>1 DEF RefusalsFit
    <3>3. CASE u # <<>>
      <4>1. \A i \in 1 .. Len(allowed[k]) : allowed[k][i] <= now
        BY DEF LimiterIndInv, HistoryOf
      <4>2. now \in Nat /\ allowed[k] \in Seq(Nat)
        <5>1. 0 .. MaxClock \subseteq Nat
          BY <1>1
        <5> QED BY <1>1, <5>1, SeqMonotonic DEF LimiterTypeOK
      <4>3. Cardinality(Places(allowed[k], now)) >= max_requests
        BY <2>2, <2>4, <3>3, <4>1, <4>2, WindowUsed
      <4>4. InWindow(k, now)' >= max_requests
        BY <3>1, <4>3 DEF InWindow, Places
      <4> QED BY <3>1, <4>4 DEF RefusalsFit
    <3> QED BY <3>2, <3>3
  <2> QED BY <2>1, <2>3, <2>4
<1>4. CASE UNCHANGED limiterVars
  BY <1>1, <1>4 DEF limiterVars, RefusalsFit, InWindow, Tracked
<1> QED BY <1>2, <1>3, <1>4 DEF LimiterNext

-----------------------------------------------------------------------------
(* The invariant the results below rest on holds of every run of the         *)
(* limiter.                                                                  *)
THEOREM LimiterInvariance == LimiterSpec => []LimiterIndInv
<1>1. LimiterInit => LimiterIndInv
  <2> SUFFICES ASSUME LimiterInit PROVE LimiterIndInv
    OBVIOUS
  <2>1. Tracked = {} /\ MaxClock \in Nat /\ _MAX_TRACKED_KEYS \in Nat /\ max_requests \in Nat
    BY CapacityAssumption, LimitAssumption DEF LimiterInit, Tracked
  <2>2. IsFiniteSet(Tracked) /\ Cardinality(Tracked) <= _MAX_TRACKED_KEYS
    BY <2>1, FS_EmptySet
  <2>3. LimiterTypeOK
    BY <2>1, <2>2 DEF LimiterInit, LimiterTypeOK
  <2>4. \A k \in Keys : HistoryOf(k)
    BY <2>1 DEF LimiterInit, HistoryOf, Ordered, Spaced, Mirrors
  <2>5. RefusalsFit
    BY DEF LimiterInit, RefusalsFit
  <2> QED BY <2>2, <2>3, <2>4, <2>5 DEF LimiterIndInv
<1>2. LimiterIndInv /\ [LimiterNext]_limiterVars => LimiterIndInv'
  BY StepTypes, StepHistory, StepRefusals DEF LimiterIndInv
<1> QED BY <1>1, <1>2, PTL DEF LimiterSpec

(* Every variable keeps its type, and the table never has more entries than  *)
(* _MAX_TRACKED_KEYS.                                                        *)
THEOREM LimiterTypeCorrect == LimiterSpec => []LimiterTypeOK
<1>1. LimiterIndInv => LimiterTypeOK
  BY DEF LimiterIndInv
<1> QED BY <1>1, LimiterInvariance, PTL

(* No key gets more than max_requests into any window of window_seconds, and *)
(* none is refused that has not used its window up or met a full table.      *)
THEOREM WindowsAlwaysExact == LimiterSpec => []WindowExact
<1>1. LimiterIndInv => WindowExact
  <2> SUFFICES ASSUME LimiterIndInv PROVE WindowExact
    OBVIOUS
  <2>1. ASSUME NEW k \in Keys, NEW t \in 0 .. now PROVE InWindow(k, t) <= max_requests
    <3>1. Ordered(allowed[k]) /\ Spaced(allowed[k]) /\ t \in Nat
      BY <2>1 DEF LimiterIndInv, HistoryOf
    <3>2. allowed[k] \in Seq(Nat)
      <4>1. 0 .. MaxClock \subseteq Nat
        BY CapacityAssumption
      <4> QED BY <4>1, SeqMonotonic DEF LimiterIndInv, LimiterTypeOK
    <3> QED BY <3>1, <3>2, WindowBounded DEF InWindow, Places
  <2> QED BY <2>1 DEF WindowExact, LimiterIndInv, RefusalsFit
<1> QED BY <1>1, LimiterInvariance, PTL
=============================================================================
