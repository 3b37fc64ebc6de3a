------------------------- MODULE EntryLifecycle_proofs -------------------------
(***************************************************************************)
(* Proofs about EntryLifecycle, for any entries, accounts, forms and number *)
(* of edits.  TypeInv, an inductive type invariant, comes first; the other *)
(* theorems use it and strengthen what they prove as far as they need.     *)
(***************************************************************************)
EXTENDS EntryLifecycle, TLAPS

States ==
  {"free", "added", "loading", "refreshing", "preparing", "loaded",
   "unloading", "failed", "retry", "stuck", "removing", "gone"}

\* An entry that exists has an account.
KnownAccounts == \A e \in Entries : state[e] # "free" => account[e] \in Accounts

\* From the start of its setup until it is removed or has failed, an entry has
\* a coordinator.
HasCoordinator ==
  \A e \in Entries :
    state[e] \in {"loading", "refreshing", "preparing", "loaded", "unloading", "stuck"}
      => coord[e] \in Coordinators

TypeInv == TypeOK /\ KnownAccounts /\ HasCoordinator

\* A coordinator that is being built is one.
LEMMA BuiltIsCoordinator ==
  ASSUME TypeInv, NEW e \in Entries, state[e] # "free"
  PROVE  Built(e) \in Coordinators
<1>1. account[e] \in Accounts
  BY DEF TypeInv, KnownAccounts
<1>2. options[e] \in Forms \union {Defaults}
  BY DEF TypeInv, TypeOK
<1>. QED
  BY <1>1, <1>2 DEF Built, Coordinators

\* A setup begins: of an entry that is known.
LEMMA BeginSetupTyped ==
  ASSUME TypeInv, NEW e \in Entries, state[e] # "free", BeginSetup(e)
  PROVE  /\ state' \in [Entries -> States]
         /\ coord' \in [Entries -> Coordinators \union {NoCoordinator}]
         /\ unheard' \subseteq Entries /\ reload' \subseteq Entries
         /\ \A f \in Entries : state'[f] # "free" => state[f] # "free"
         /\ HasCoordinator'
<1>1. Built(e) \in Coordinators
  BY BuiltIsCoordinator
<1>. QED
  BY <1>1 DEF TypeInv, TypeOK, HasCoordinator, BeginSetup, Enter, States

\* The initial states are well typed.
LEMMA TypeInit == Init => TypeInv
<1>. SUFFICES ASSUME Init PROVE TypeInv
  OBVIOUS
<1>1. PICK known \in SUBSET Entries :
        /\ account \in [Entries -> Accounts \union {NoAccount}]
        /\ \A e \in Entries : (e \in known) <=> (account[e] # NoAccount)
        /\ state = [e \in Entries |-> IF e \in known THEN "added" ELSE "free"]
  BY DEF Init
<1>2. TypeOK
  BY <1>1, ConstantsAssumption DEF Init, TypeOK, AllServices
<1>3. KnownAccounts
  BY <1>1 DEF KnownAccounts
<1>4. HasCoordinator
  BY <1>1 DEF HasCoordinator
<1>. QED
  BY <1>2, <1>3, <1>4 DEF TypeInv

\* Every step keeps the types.
LEMMA TypeStep == TypeInv /\ [Next]_vars => TypeInv'
<1>. SUFFICES ASSUME TypeInv, [Next]_vars PROVE TypeInv'
  OBVIOUS
<1>. USE DEF TypeInv
<1>1. CASE Restart
  BY <1>1 DEF TypeOK, KnownAccounts, HasCoordinator, Restart, Existing, config, history
<1>2. ASSUME NEW e \in Entries, Setup(e) PROVE TypeInv'
  BY <1>2, BeginSetupTyped
     DEF Setup, TypeOK, KnownAccounts, States, config, hass, stores
<1>3. ASSUME NEW e \in Entries, SignInFails(e) \/ InitFails(e) \/ RefreshFails(e) PROVE TypeInv'
  BY <1>3 DEF SignInFails, InitFails, RefreshFails, Fail, Enter, TypeOK, KnownAccounts,
              HasCoordinator, config, hass, pending, stores, history
<1>4. ASSUME NEW e \in Entries, SignedIn(e) PROVE TypeInv'
  <2>1. PICK a \in Accounts : /\ coord' = [coord EXCEPT ![e].session = a]
                              /\ disk' = [disk EXCEPT ![e] = a]
    BY <1>4 DEF SignedIn
  <2>2. coord[e] \in Coordinators
    BY <1>4 DEF SignedIn, HasCoordinator
  <2>3. [coord[e] EXCEPT !.session = a] \in Coordinators
    BY <2>2 DEF Coordinators
  <2>4. coord' = [coord EXCEPT ![e] = [coord[e] EXCEPT !.session = a]]
    BY <2>1
  <2>. QED
    BY <1>4, <2>1, <2>2, <2>3, <2>4 DEF SignedIn, Enter, TypeOK, KnownAccounts, HasCoordinator,
              config, hass, pending, history
<1>5. ASSUME NEW e \in Entries, Refreshed(e) \/ PrepareFails(e) \/ Prepared(e) PROVE TypeInv'
  BY <1>5 DEF Refreshed, PrepareFails, Prepared, Enter, TypeOK, KnownAccounts, HasCoordinator,
              config, pending, stores, history
<1>6. ASSUME NEW e \in Entries, Unload(e) \/ UnloadFails(e) \/ ServeRemoval(e) PROVE TypeInv'
  BY <1>6 DEF Unload, UnloadFails, ServeRemoval, Enter, TypeOK, KnownAccounts, HasCoordinator,
              config, hass, pending, stores, history
<1>7. ASSUME NEW e \in Entries, Unloaded(e) PROVE TypeInv'
  <2>1. state[e] # "free" /\ coord[e] \in Coordinators
    BY <1>7 DEF Unloaded, HasCoordinator
  <2>2. coord[e].session \in Accounts \union {NoAccount}
    BY <2>1 DEF Coordinators
  <2>3. orphan' \in [Entries -> Accounts \union {NoAccount}]
    BY <1>7, <2>2 DEF Unloaded, TypeOK
  <2>4. CASE e \in doomed
    BY <1>7, <2>3, <2>4 DEF Unloaded, Enter, TypeOK, KnownAccounts, HasCoordinator, config
  <2>5. CASE e \notin doomed
    BY <1>7, <2>1, <2>3, <2>5, BeginSetupTyped DEF Unloaded, TypeOK, KnownAccounts, States, config
  <2>. QED
    BY <2>4, <2>5
<1>8. ASSUME NEW e \in Entries, ServeReload(e) PROVE TypeInv'
  <2>1. CASE state[e] \in {"failed", "retry"} /\ BeginSetup(e)
    BY <1>8, <2>1, BeginSetupTyped
       DEF ServeReload, TypeOK, KnownAccounts, States, config, hass, stores
  <2>2. CASE reload' = reload \ {e} /\ UNCHANGED <<state, coord, unheard>>
    BY <1>8, <2>2 DEF ServeReload, TypeOK, KnownAccounts, HasCoordinator, config, hass, stores
  <2>. QED
    BY <1>8, <2>1, <2>2 DEF ServeReload
<1>9. ASSUME NEW e \in Entries, Removed(e) \/ OrphanStores(e) PROVE TypeInv'
  BY <1>9 DEF Removed, OrphanStores, ClearPersistedSession, Enter, TypeOK, KnownAccounts,
              HasCoordinator, config, hass, pending, history
<1>10. ASSUME edits < MaxEdits, edits' = edits + 1, Users PROVE TypeInv'
  <2>. /\ edits' \in 0 .. MaxEdits
       /\ edits \in 0 .. MaxEdits
    BY <1>10, ConstantsAssumption DEF TypeOK
  <2>1. CASE \E a \in Accounts : ChangePassword(a) \/ Credentials(a)
    BY <2>1 DEF ChangePassword, Credentials, Existing, TypeOK, KnownAccounts, HasCoordinator,
                config, hass, pending, stores, history
  <2>2. CASE Abandon
    BY <2>2 DEF Abandon, TypeOK, KnownAccounts, HasCoordinator, config, hass, pending, stores, history
  <2>3. ASSUME NEW e \in Entries, CreateEntry(e) PROVE TypeInv'
    BY <2>3 DEF CreateEntry, Enter, Existing, TypeOK, KnownAccounts, HasCoordinator, hass, stores, history
  <2>4. ASSUME NEW e \in Entries, AskReload(e) \/ AskRemoval(e) PROVE TypeInv'
    BY <2>4 DEF AskReload, AskRemoval, TypeOK, KnownAccounts, HasCoordinator, config, hass, stores, history
  <2>5. ASSUME NEW e \in Entries, NEW a \in Accounts, Reconfigure(e, a) PROVE TypeInv'
    BY <2>5 DEF Reconfigure, Updated, TypeOK, KnownAccounts, HasCoordinator, hass, stores
  <2>6. ASSUME NEW e \in Entries, NEW form \in Forms, SaveOptions(e, form) PROVE TypeInv'
    BY <2>6 DEF SaveOptions, Valid, Updated, TypeOK, KnownAccounts, HasCoordinator, hass, stores
  <2>. QED
    BY <1>10, <2>1, <2>2, <2>3, <2>4, <2>5, <2>6 DEF Users
<1>11. CASE UNCHANGED vars
  BY <1>11 DEF vars, config, hass, stores, pending, history, TypeOK, KnownAccounts, HasCoordinator
<1>. QED
  BY <1>1, <1>2, <1>3, <1>4, <1>5, <1>6, <1>7, <1>8, <1>9, <1>10, <1>11
     DEF Next, Manage, Finish

\* In every reachable state each variable has its type, an entry that exists
\* has an account, and one that is set up a coordinator.
THEOREM TypeCorrect == Spec => []TypeInv
  BY TypeInit, TypeStep, PTL DEF Spec

-----------------------------------------------------------------------------
(* The settings of a loaded entry                                          *)

\* SettingsApplied from the start of a setup on, not only once it has ended.
SettingsInv ==
  \A e \in Entries \ (reload \union unheard) :
    state[e] \in {"loading", "refreshing", "preparing", "loaded"}
      => coord[e].account = account[e] /\ coord[e].options = options[e]

\* A coordinator that is built reads the settings of its entry.
LEMMA BuiltReadsSettings ==
  ASSUME NEW e \in Entries
  PROVE  Built(e).account = account[e] /\ Built(e).options = options[e]
  BY DEF Built

\* A setup begins with the settings the entry has.
LEMMA BeginSetupSettings ==
  ASSUME TypeInv, SettingsInv, NEW e \in Entries, BeginSetup(e),
         UNCHANGED <<account, options>>
  PROVE  SettingsInv'
  BY BuiltReadsSettings DEF TypeInv, TypeOK, SettingsInv, BeginSetup, Enter

\* A change of settings is seen by the listener, or remembered as unheard.
LEMMA UpdatedSettings ==
  ASSUME TypeInv, SettingsInv, NEW e \in Entries, Updated(e), UNCHANGED <<state, coord>>,
         \A f \in Entries \ {e} : account'[f] = account[f] /\ options'[f] = options[f]
  PROVE  SettingsInv'
  BY DEF TypeInv, TypeOK, SettingsInv, Updated

\* Every step keeps the settings of a coordinator in line with its entry.
LEMMA SettingsStep == TypeInv /\ SettingsInv /\ [Next]_vars => SettingsInv'
<1>. SUFFICES ASSUME TypeInv, SettingsInv, [Next]_vars PROVE SettingsInv'
  OBVIOUS
<1>. USE DEF TypeInv
<1>1. CASE Restart
  BY <1>1 DEF Restart, SettingsInv, TypeOK, Existing
<1>2. ASSUME NEW e \in Entries, Setup(e) PROVE SettingsInv'
  BY <1>2, BeginSetupSettings DEF Setup, config
<1>3. ASSUME NEW e \in Entries, SignInFails(e) \/ InitFails(e) \/ RefreshFails(e) PROVE SettingsInv'
  BY <1>3 DEF SignInFails, InitFails, RefreshFails, Fail, Enter, SettingsInv, TypeOK,
              config, pending, history
<1>4. ASSUME NEW e \in Entries, SignedIn(e) PROVE SettingsInv'
  <2>1. PICK a \in Accounts : coord' = [coord EXCEPT ![e].session = a]
    BY <1>4 DEF SignedIn
  <2>2. coord[e] \in Coordinators
    BY <1>4 DEF SignedIn, HasCoordinator
  <2>3. coord'[e].account = coord[e].account /\ coord'[e].options = coord[e].options
    BY <2>1, <2>2 DEF TypeOK, Coordinators
  <2>4. \A f \in Entries \ {e} : coord'[f] = coord[f]
    BY <2>1 DEF TypeOK
  <2>. QED
    BY <1>4, <2>3, <2>4 DEF SignedIn, Enter, SettingsInv, TypeOK, config, pending, history
<1>5. ASSUME NEW e \in Entries, Refreshed(e) \/ PrepareFails(e) \/ Prepared(e) PROVE SettingsInv'
  BY <1>5 DEF Refreshed, PrepareFails, Prepared, Enter, SettingsInv, TypeOK, config, pending, history
<1>6. ASSUME NEW e \in Entries, Unload(e) \/ UnloadFails(e) \/ ServeRemoval(e) PROVE SettingsInv'
  BY <1>6 DEF Unload, UnloadFails, ServeRemoval, Enter, SettingsInv, TypeOK, config, pending, history
<1>7. ASSUME NEW e \in Entries, Unloaded(e) PROVE SettingsInv'
  <2>1. CASE e \in doomed
    BY <1>7, <2>1 DEF Unloaded, Enter, SettingsInv, TypeOK, config
  <2>2. CASE e \notin doomed
    BY <1>7, <2>2, BeginSetupSettings DEF Unloaded, config
  <2>. QED
    BY <2>1, <2>2
<1>8. ASSUME NEW e \in Entries, ServeReload(e) PROVE SettingsInv'
  <2>1. CASE BeginSetup(e)
    BY <1>8, <2>1, BeginSetupSettings DEF ServeReload, config
  <2>2. CASE state[e] = "stuck" /\ reload' = reload \ {e} /\ UNCHANGED <<state, coord, unheard>>
    BY <1>8, <2>2 DEF ServeReload, SettingsInv, TypeOK, config
  <2>. QED
    BY <1>8, <2>1, <2>2 DEF ServeReload
<1>9. ASSUME NEW e \in Entries, Removed(e) \/ OrphanStores(e) PROVE SettingsInv'
  BY <1>9 DEF Removed, OrphanStores, Enter, SettingsInv, TypeOK, config, pending, history
<1>10. CASE Users
  <2>1. CASE \E a \in Accounts : ChangePassword(a) \/ Credentials(a)
    BY <2>1 DEF ChangePassword, Credentials, SettingsInv, config, pending, history
  <2>2. CASE Abandon
    BY <2>2 DEF Abandon, SettingsInv, config, pending, history
  <2>3. ASSUME NEW e \in Entries, CreateEntry(e) PROVE SettingsInv'
    BY <2>3 DEF CreateEntry, Enter, SettingsInv, TypeOK, history
  <2>4. ASSUME NEW e \in Entries, AskReload(e) \/ AskRemoval(e) PROVE SettingsInv'
    BY <2>4 DEF AskReload, AskRemoval, SettingsInv, TypeOK, config, history
  <2>5. ASSUME NEW e \in Entries, NEW a \in Accounts, Reconfigure(e, a) PROVE SettingsInv'
    BY <2>5, UpdatedSettings DEF Reconfigure, TypeOK
  <2>6. ASSUME NEW e \in Entries, NEW form \in Forms, SaveOptions(e, form) PROVE SettingsInv'
    BY <2>6, UpdatedSettings DEF SaveOptions, TypeOK
  <2>. QED
    BY <1>10, <2>1, <2>2, <2>3, <2>4, <2>5, <2>6 DEF Users
<1>11. CASE UNCHANGED vars
  BY <1>11 DEF vars, config, pending, history, SettingsInv
<1>. QED
  BY <1>1, <1>2, <1>3, <1>4, <1>5, <1>6, <1>7, <1>8, <1>9, <1>10, <1>11
     DEF Next, Manage, Finish

\* A loaded entry runs with the settings it has, unless a reload waits or they
\* were saved while nothing listened: for any entries, forms and acts.
THEOREM LoadedIsCurrent == Spec => []SettingsApplied
<1>1. Init => SettingsInv
  BY DEF Init, SettingsInv
<1>2. SettingsInv => SettingsApplied
  BY DEF SettingsInv, SettingsApplied
<1>. QED
  BY <1>1, <1>2, SettingsStep, TypeCorrect, PTL DEF Spec

-----------------------------------------------------------------------------
(* Sessions                                                                *)

\* OwnSession, and what may become a session: the account a coordinator was
\* built for, and the one that a discarded coordinator still has.
SessionInv ==
  /\ OwnSession
  /\ \A e \in Entries \ moved :
       /\ orphan[e] \in {NoAccount, account[e]}
       /\ coord[e] # NoCoordinator => coord[e].account = account[e]
       /\ state[e] = "free" =>
            disk[e] = NoAccount /\ orphan[e] = NoAccount /\ coord[e] = NoCoordinator

\* A new coordinator has no session.
LEMMA BuiltHasNoSession ==
  ASSUME NEW e \in Entries
  PROVE  Built(e).session = NoAccount /\ Built(e).account = account[e]
  BY DEF Built

\* A setup begins with a coordinator of the entry's own account.
LEMMA BeginSetupSession ==
  ASSUME TypeInv, SessionInv, NEW e \in Entries, state[e] # "free", BeginSetup(e),
         UNCHANGED <<account, moved, disk>>,
         \A f \in Entries \ moved : orphan'[f] \in {NoAccount, account[f]},
         \A f \in Entries \ {e} : orphan'[f] = orphan[f]
  PROVE  SessionInv'
  BY BuiltHasNoSession DEF TypeInv, TypeOK, SessionInv, OwnSession, BeginSetup, Enter

\* Every step keeps the sessions with their accounts.
LEMMA SessionStep == TypeInv /\ SessionInv /\ [Next]_vars => SessionInv'
<1>. SUFFICES ASSUME TypeInv, SessionInv, [Next]_vars PROVE SessionInv'
  OBVIOUS
<1>. USE DEF TypeInv
<1>1. CASE Restart
  BY <1>1 DEF Restart, SessionInv, OwnSession, TypeOK, Existing, config, history
<1>2. ASSUME NEW e \in Entries, Setup(e) PROVE SessionInv'
  <2>1. /\ state[e] # "free" /\ BeginSetup(e)
        /\ UNCHANGED <<account, moved, disk, orphan>>
    BY <1>2 DEF Setup, config, stores
  <2>. QED
    BY <2>1, BeginSetupSession DEF SessionInv
<1>3. ASSUME NEW e \in Entries, SignInFails(e) \/ InitFails(e) \/ RefreshFails(e) PROVE SessionInv'
  BY <1>3 DEF SignInFails, InitFails, RefreshFails, Fail, Enter, SessionInv, OwnSession, TypeOK,
              config, stores, history
<1>4. ASSUME NEW e \in Entries, SignedIn(e) PROVE SessionInv'
  <2>1. PICK a \in Accounts :
          /\ a \in Restorable(e) \/ (a = coord[e].account /\ coord[e].right)
          /\ coord' = [coord EXCEPT ![e].session = a]
          /\ disk' = [disk EXCEPT ![e] = a]
    BY <1>4 DEF SignedIn
  <2>2. coord[e] \in Coordinators
    BY <1>4 DEF SignedIn, HasCoordinator
  <2>3. /\ coord'[e].account = coord[e].account /\ coord'[e].session = a
        /\ \A f \in Entries \ {e} : coord'[f] = coord[f]
    BY <2>1, <2>2 DEF TypeOK, Coordinators
  <2>4. e \notin moved /\ coord[e] # NoCoordinator => a = account[e]
    BY <2>1 DEF Restorable, SessionInv, OwnSession
  <2>5. CASE coord[e] # NoCoordinator
    BY <1>4, <2>1, <2>3, <2>4, <2>5
       DEF SignedIn, Enter, SessionInv, OwnSession, TypeOK, config, history
  <2>6. CASE coord[e] = NoCoordinator
    BY <2>2, <2>6, NoCoordinatorIsNone
  <2>. QED
    BY <2>5, <2>6
<1>5. ASSUME NEW e \in Entries, Refreshed(e) \/ PrepareFails(e) \/ Prepared(e) PROVE SessionInv'
  BY <1>5 DEF Refreshed, PrepareFails, Prepared, Enter, SessionInv, OwnSession, TypeOK,
              config, stores, history
<1>6. ASSUME NEW e \in Entries, Unload(e) \/ UnloadFails(e) \/ ServeRemoval(e) PROVE SessionInv'
  BY <1>6 DEF Unload, UnloadFails, ServeRemoval, Enter, SessionInv, OwnSession, TypeOK,
              config, stores, history
<1>7. ASSUME NEW e \in Entries, Unloaded(e) PROVE SessionInv'
  <2>1. /\ state[e] = "unloading" /\ coord[e] \in Coordinators
        /\ UNCHANGED <<account, moved, disk>>
    BY <1>7 DEF Unloaded, HasCoordinator, config
  <2>2. PICK o \in {NoAccount, coord[e].session} : orphan' = [orphan EXCEPT ![e] = o]
    BY <1>7 DEF Unloaded
  <2>3. e \notin moved => o \in {NoAccount, account[e]}
    BY <2>1, <2>2, NoCoordinatorIsNone DEF SessionInv, OwnSession
  <2>4. /\ \A f \in Entries \ moved : orphan'[f] \in {NoAccount, account[f]}
        /\ \A f \in Entries \ {e} : orphan'[f] = orphan[f]
    BY <2>2, <2>3 DEF SessionInv, TypeOK
  <2>5. CASE e \in doomed
    BY <1>7, <2>1, <2>4, <2>5 DEF Unloaded, Enter, SessionInv, OwnSession, TypeOK
  <2>6. CASE e \notin doomed
    BY <1>7, <2>1, <2>4, <2>6, BeginSetupSession DEF Unloaded
  <2>. QED
    BY <2>5, <2>6
<1>8. ASSUME NEW e \in Entries, ServeReload(e) PROVE SessionInv'
  <2>1. UNCHANGED <<account, moved, disk, orphan>>
    BY <1>8 DEF ServeReload, config, stores
  <2>2. CASE state[e] \in {"failed", "retry"} /\ BeginSetup(e)
    BY <2>1, <2>2, BeginSetupSession DEF SessionInv
  <2>3. CASE UNCHANGED <<state, coord, unheard>>
    BY <2>1, <2>3 DEF SessionInv, OwnSession
  <2>. QED
    BY <1>8, <2>2, <2>3 DEF ServeReload
<1>9. ASSUME NEW e \in Entries, Removed(e) \/ OrphanStores(e) PROVE SessionInv'
  BY <1>9 DEF Removed, OrphanStores, ClearPersistedSession, Enter, SessionInv, OwnSession, TypeOK,
              config, history
<1>10. CASE Users
  <2>1. CASE \E a \in Accounts : ChangePassword(a) \/ Credentials(a)
    BY <2>1 DEF ChangePassword, Credentials, SessionInv, OwnSession, config, stores, history
  <2>2. CASE Abandon
    BY <2>2 DEF Abandon, SessionInv, OwnSession, config, stores, history
  <2>3. ASSUME NEW e \in Entries, CreateEntry(e) PROVE SessionInv'
    BY <2>3 DEF CreateEntry, Enter, SessionInv, OwnSession, TypeOK, stores, history
  <2>4. ASSUME NEW e \in Entries, AskReload(e) \/ AskRemoval(e) PROVE SessionInv'
    BY <2>4 DEF AskReload, AskRemoval, SessionInv, OwnSession, config, stores, history
  <2>5. ASSUME NEW e \in Entries, NEW a \in Accounts, Reconfigure(e, a) PROVE SessionInv'
    BY <2>5 DEF Reconfigure, Existing, SessionInv, OwnSession, TypeOK, stores
  <2>6. ASSUME NEW e \in Entries, NEW form \in Forms, SaveOptions(e, form) PROVE SessionInv'
    BY <2>6 DEF SaveOptions, SessionInv, OwnSession, stores
  <2>. QED
    BY <1>10, <2>1, <2>2, <2>3, <2>4, <2>5, <2>6 DEF Users
<1>11. CASE UNCHANGED vars
  BY <1>11 DEF vars, config, stores, history, SessionInv, OwnSession
<1>. QED
  BY <1>1, <1>2, <1>3, <1>4, <1>5, <1>6, <1>7, <1>8, <1>9, <1>10, <1>11
     DEF Next, Manage, Finish

\* Through any setups, reloads, removals and restarts of any number of entries
\* none uses or stores the session of another account.
THEOREM SessionsStayOwn == Spec => []OwnSession
<1>1. Init => SessionInv
  BY DEF Init, SessionInv, OwnSession
<1>2. SessionInv => OwnSession
  BY DEF SessionInv
<1>. QED
  BY <1>1, <1>2, SessionStep, TypeCorrect, PTL DEF Spec

-----------------------------------------------------------------------------
(* Accounts                                                                *)

\* A step that creates no entry and moves none to an account keeps the
\* accounts apart, unless it takes a removal back.
LEMMA AccountsApart ==
  ASSUME UniqueAccounts, UNCHANGED account,
         \A f \in Entries : state'[f] \notin {"free", "gone"} => state[f] \notin {"free", "gone"},
         \A f \in Entries : f \in doomed /\ state'[f] \notin {"free", "gone"} => f \in doomed'
  PROVE  UniqueAccounts'
  BY DEF UniqueAccounts, Existing

\* Every step keeps the accounts apart.
LEMMA AccountsStep == TypeInv /\ UniqueAccounts /\ [Next]_vars => UniqueAccounts'
<1>. SUFFICES ASSUME TypeInv, UniqueAccounts, [Next]_vars PROVE UniqueAccounts'
  OBVIOUS
<1>. USE DEF TypeInv
<1>1. CASE Restart
  BY <1>1 DEF Restart, Replaced, Existing, UniqueAccounts, TypeOK, config
<1>2. ASSUME NEW e \in Entries, Manage(e) \/ Finish(e) \/ OrphanStores(e) PROVE UniqueAccounts'
  <2>1. UNCHANGED account /\ doomed \ {e} \subseteq doomed'
    BY <1>2 DEF Manage, Finish, Setup, Unload, ServeReload, ServeRemoval, SignInFails, InitFails,
                SignedIn, RefreshFails, Refreshed, PrepareFails, Prepared, Unloaded, UnloadFails,
                Removed, OrphanStores, Fail, config, pending
  <2>2. /\ \A f \in Entries \ {e} : state'[f] = state[f]
        /\ e \in doomed' \/ e \notin doomed \/ state'[e] = "gone"
        /\ state'[e] \notin {"free", "gone"} => state[e] \notin {"free", "gone"}
    BY <1>2 DEF Manage, Finish, Setup, Unload, ServeReload, ServeRemoval, SignInFails, InitFails,
                SignedIn, RefreshFails, Refreshed, PrepareFails, Prepared, Unloaded, UnloadFails,
                Removed, OrphanStores, Fail, BeginSetup, Enter, TypeOK, pending
  <2>. QED
    BY <2>1, <2>2, AccountsApart
<1>3. CASE Users
  <2>1. CASE \E a \in Accounts : ChangePassword(a) \/ Credentials(a)
    BY <2>1, AccountsApart DEF ChangePassword, Credentials, config, pending
  <2>2. CASE Abandon
    BY <2>2, AccountsApart DEF Abandon, config, pending
  <2>3. ASSUME NEW e \in Entries, CreateEntry(e) PROVE UniqueAccounts'
    BY <2>3 DEF CreateEntry, Enter, Existing, UniqueAccounts, TypeOK
  <2>4. ASSUME NEW e \in Entries, AskReload(e) \/ AskRemoval(e) PROVE UniqueAccounts'
    BY <2>4, AccountsApart DEF AskReload, AskRemoval, config
  <2>5. ASSUME NEW e \in Entries, NEW a \in Accounts, Reconfigure(e, a) PROVE UniqueAccounts'
    BY <2>5 DEF Reconfigure, Existing, UniqueAccounts, TypeOK
  <2>6. ASSUME NEW e \in Entries, NEW form \in Forms, SaveOptions(e, form) PROVE UniqueAccounts'
    BY <2>6, AccountsApart DEF SaveOptions
  <2>. QED
    BY <1>3, <2>1, <2>2, <2>3, <2>4, <2>5, <2>6 DEF Users
<1>4. CASE UNCHANGED vars
  BY <1>4, AccountsApart DEF vars, config, pending
<1>. QED
  BY <1>1, <1>2, <1>3, <1>4 DEF Next

\* Flows, reconfigures, replacements and restarts in any order configure no
\* account twice.
THEOREM AccountsUnique == Spec => []UniqueAccounts
<1>1. Init => UniqueAccounts
  BY DEF Init, UniqueAccounts, Existing
<1>. QED
  BY <1>1, AccountsStep, TypeCorrect, PTL DEF Spec

-----------------------------------------------------------------------------
(* Timers                                                                  *)

\* TimersOwned, and that a timer is never armed while a coordinator is built.
TimerInv ==
  /\ TimersOwned
  /\ \A e \in timer : state[e] \in {"preparing", "loaded", "unloading", "stuck", "removing", "gone"}

\* Every step keeps the timers with their coordinators.
LEMMA TimersStep == TypeInv /\ TimerInv /\ [Next]_vars => TimerInv'
<1>. SUFFICES ASSUME TypeInv, TimerInv, [Next]_vars PROVE TimerInv'
  OBVIOUS
<1>. USE DEF TypeInv
<1>1. CASE Restart
  BY <1>1 DEF Restart, TimerInv, TimersOwned
<1>2. ASSUME NEW e \in Entries, Setup(e) \/ ServeReload(e) PROVE TimerInv'
  BY <1>2 DEF Setup, ServeReload, BeginSetup, Enter, TimerInv, TimersOwned, TypeOK, hass
<1>3. ASSUME NEW e \in Entries, SignInFails(e) \/ InitFails(e) \/ RefreshFails(e) PROVE TimerInv'
  BY <1>3 DEF SignInFails, InitFails, RefreshFails, Fail, Enter, TimerInv, TimersOwned, TypeOK, hass
<1>4. ASSUME NEW e \in Entries, SignedIn(e) PROVE TimerInv'
  BY <1>4 DEF SignedIn, Enter, TimerInv, TimersOwned, TypeOK, hass
<1>5. ASSUME NEW e \in Entries, Refreshed(e) PROVE TimerInv'
  BY <1>5 DEF Refreshed, Enter, TimerInv, TimersOwned, TypeOK
<1>6. ASSUME NEW e \in Entries, PrepareFails(e) \/ Prepared(e) PROVE TimerInv'
  BY <1>6 DEF PrepareFails, Prepared, Enter, TimerInv, TimersOwned, TypeOK
<1>7. ASSUME NEW e \in Entries, Unload(e) \/ UnloadFails(e) \/ ServeRemoval(e) \/ Removed(e) PROVE TimerInv'
  BY <1>7 DEF Unload, UnloadFails, ServeRemoval, Removed, Enter, TimerInv, TimersOwned, TypeOK, hass
<1>8. ASSUME NEW e \in Entries, Unloaded(e) PROVE TimerInv'
  BY <1>8 DEF Unloaded, BeginSetup, Enter, TimerInv, TimersOwned, TypeOK
<1>9. ASSUME NEW e \in Entries, CreateEntry(e) PROVE TimerInv'
  BY <1>9 DEF CreateEntry, Enter, TimerInv, TimersOwned, TypeOK, hass
<1>10. CASE UNCHANGED <<timer, held, coord, state>>
  BY <1>10 DEF TimerInv, TimersOwned
<1>11. (\E e \in Entries : OrphanStores(e)) \/ UNCHANGED vars => UNCHANGED <<timer, held, coord, state>>
  BY DEF OrphanStores, vars, hass
<1>12. Users => (\E e \in Entries : CreateEntry(e)) \/ UNCHANGED <<timer, held, coord, state>>
  BY DEF Users, ChangePassword, Credentials, Abandon, AskReload, AskRemoval, Reconfigure, SaveOptions, hass
<1>. QED
  BY <1>1, <1>2, <1>3, <1>4, <1>5, <1>6, <1>7, <1>8, <1>9, <1>10, <1>11, <1>12
     DEF Next, Manage, Finish

\* No nightly timer outlives its coordinator or its option.
THEOREM TimersHaveOwners == Spec => []TimersOwned
<1>1. Init => TimerInv
  BY DEF Init, TimerInv, TimersOwned
<1>2. TimerInv => TimersOwned
  BY DEF TimerInv
<1>. QED
  BY <1>1, <1>2, TimersStep, TypeCorrect, PTL DEF Spec

-----------------------------------------------------------------------------
(* Services                                                                *)

\* Whenever a service is missing, some entry is on a way that registers the
\* services again before it is loaded, or is not set up for good.
ServicesInv ==
  \/ services = AllServices
  \/ \A e \in Entries : state[e] = "free"
  \/ \E e \in Entries : state[e] \notin {"free", "preparing", "loaded", "unloading"}

\* A step of an entry that ends outside the states with services.
LEMMA EntryLeaves ==
  ASSUME TypeInv, NEW e \in Entries, NEW s \in States, Enter(e, s),
         s \notin {"free", "preparing", "loaded", "unloading"}
  PROVE  ServicesInv'
  BY DEF TypeInv, TypeOK, Enter, ServicesInv

\* A step of an entry that had its services before and after.
LEMMA EntryStays ==
  ASSUME TypeInv, ServicesInv, NEW e \in Entries, NEW s \in States, Enter(e, s),
         state[e] \in {"preparing", "loaded"}, UNCHANGED services
  PROVE  ServicesInv'
  BY DEF TypeInv, TypeOK, Enter, ServicesInv

\* Every step keeps it so.
LEMMA ServicesStep == TypeInv /\ ServicesInv /\ [Next]_vars => ServicesInv'
<1>. SUFFICES ASSUME TypeInv, ServicesInv, [Next]_vars PROVE ServicesInv'
  OBVIOUS
<1>1. CASE Restart
  BY <1>1 DEF Restart, ServicesInv, Existing, TypeInv, TypeOK
<1>2. ASSUME NEW e \in Entries,
             \/ Setup(e) \/ SignInFails(e) \/ InitFails(e) \/ SignedIn(e) \/ RefreshFails(e)
             \/ PrepareFails(e) \/ Unloaded(e) \/ UnloadFails(e) \/ ServeRemoval(e) \/ Removed(e)
      PROVE  ServicesInv'
  <2>1. \E s \in States : Enter(e, s) /\ s \notin {"free", "preparing", "loaded", "unloading"}
    BY <1>2 DEF Setup, SignInFails, InitFails, SignedIn, RefreshFails, PrepareFails, Unloaded,
                UnloadFails, ServeRemoval, Removed, Fail, BeginSetup, States
  <2>. QED
    BY <2>1, EntryLeaves
<1>3. ASSUME NEW e \in Entries, Refreshed(e) PROVE ServicesInv'
  BY <1>3 DEF Refreshed, ServicesInv
<1>4. ASSUME NEW e \in Entries, Prepared(e) \/ Unload(e) PROVE ServicesInv'
  <2>1. /\ state[e] \in {"preparing", "loaded"} /\ UNCHANGED services
        /\ \E s \in States : Enter(e, s)
    BY <1>4 DEF Prepared, Unload, States, hass
  <2>. QED
    BY <2>1, EntryStays
<1>5. ASSUME NEW e \in Entries, ServeReload(e) PROVE ServicesInv'
  <2>1. CASE BeginSetup(e)
    BY <2>1, EntryLeaves DEF BeginSetup, States
  <2>2. CASE UNCHANGED <<state, coord, unheard>>
    BY <1>5, <2>2 DEF ServeReload, ServicesInv, hass
  <2>. QED
    BY <1>5, <2>1, <2>2 DEF ServeReload
<1>6. ASSUME NEW e \in Entries, CreateEntry(e) PROVE ServicesInv'
  BY <1>6, EntryLeaves DEF CreateEntry, States
<1>7. CASE UNCHANGED <<services, state>>
  BY <1>7 DEF ServicesInv
<1>8. (\E e \in Entries : OrphanStores(e)) \/ UNCHANGED vars => UNCHANGED <<services, state>>
  BY DEF OrphanStores, vars, hass
<1>9. Users => (\E e \in Entries : CreateEntry(e)) \/ UNCHANGED <<services, state>>
  BY DEF Users, ChangePassword, Credentials, Abandon, AskReload, AskRemoval, Reconfigure, SaveOptions, hass
<1>. QED
  BY <1>1, <1>2, <1>3, <1>4, <1>5, <1>6, <1>7, <1>8, <1>9 DEF Next, Manage, Finish

\* However many entries share the services, and in whatever order they are
\* reloaded: once all are loaded every service is registered.
THEOREM ServicesComeBack == Spec => []ServicesWhileAllLoaded
<1>1. Init => ServicesInv
  BY DEF Init, ServicesInv
<1>2. ServicesInv => ServicesWhileAllLoaded
  BY DEF ServicesInv, ServicesWhileAllLoaded, Existing
<1>. QED
  BY <1>1, <1>2, ServicesStep, TypeCorrect, PTL DEF Spec

-----------------------------------------------------------------------------
(* Removal                                                                 *)

\* Every step leaves the store of a removed entry empty.
LEMMA RemovalStep == TypeInv /\ RemovedLeavesNoSession /\ [Next]_vars => RemovedLeavesNoSession'
<1>. SUFFICES ASSUME TypeInv, RemovedLeavesNoSession, [Next]_vars PROVE RemovedLeavesNoSession'
  OBVIOUS
<1>. USE DEF TypeInv
<1>1. CASE Restart
  BY <1>1 DEF Restart, RemovedLeavesNoSession, Existing, TypeOK
<1>2. ASSUME NEW e \in Entries, Removed(e) PROVE RemovedLeavesNoSession'
  BY <1>2 DEF Removed, ClearPersistedSession, Enter, RemovedLeavesNoSession, TypeOK
<1>3. ASSUME NEW e \in Entries, OrphanStores(e) PROVE RemovedLeavesNoSession'
  BY <1>3 DEF OrphanStores, RemovedLeavesNoSession, TypeOK
<1>4. ASSUME NEW e \in Entries, SignedIn(e) PROVE RemovedLeavesNoSession'
  BY <1>4 DEF SignedIn, Enter, RemovedLeavesNoSession, TypeOK
<1>5. ASSUME UNCHANGED <<disk, late>>, NEW e \in Entries, NEW s \in States \ {"gone"},
             Enter(e, s) \/ UNCHANGED state
      PROVE  RemovedLeavesNoSession'
  BY <1>5 DEF Enter, RemovedLeavesNoSession, TypeOK
<1>6. ASSUME NEW e \in Entries, Manage(e) \/ Finish(e), ~Removed(e), ~SignedIn(e)
      PROVE  /\ UNCHANGED <<disk, late>>
             /\ \E s \in States \ {"gone"} : Enter(e, s) \/ UNCHANGED state
  BY <1>6 DEF Manage, Finish, Setup, Unload, ServeReload, ServeRemoval, SignInFails, InitFails,
              RefreshFails, Refreshed, PrepareFails, Prepared, Unloaded, UnloadFails, Fail,
              BeginSetup, stores, States
<1>7. Users => /\ UNCHANGED <<disk, late>>
               /\ (\E e \in Entries : Enter(e, "added")) \/ UNCHANGED state
  BY DEF Users, ChangePassword, Credentials, Abandon, CreateEntry, AskReload, AskRemoval,
         Reconfigure, SaveOptions, stores
<1>8. CASE Users
  BY <1>5, <1>7, <1>8 DEF RemovedLeavesNoSession, States
<1>9. CASE UNCHANGED vars
  BY <1>9 DEF vars, stores, RemovedLeavesNoSession
<1>. QED
  BY <1>1, <1>2, <1>3, <1>4, <1>5, <1>6, <1>8, <1>9 DEF Next, Manage, Finish

\* Once an entry is removed its session is gone for good, but for the two
\* ways RemovedLeavesNoSession names.
THEOREM RemovalIsFinal == Spec => []RemovedLeavesNoSession
<1>1. Init => RemovedLeavesNoSession
  BY DEF Init, RemovedLeavesNoSession
<1>. QED
  BY <1>1, RemovalStep, TypeCorrect, PTL DEF Spec
===============================================================================
