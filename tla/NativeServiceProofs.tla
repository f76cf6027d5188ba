------------------------ MODULE NativeServiceProofs ------------------------
(***************************************************************************)
(* Proofs about the admission to the native service: what its runs check   *)
(* on two grants and two connections holds for any number of accounts,     *)
(* sessions, grants, connections and endpoints and for any limit.          *)
(*                                                                         *)
(* The argument has two halves.  Registered: a grant that has been issued  *)
(* keeps the session it was issued to, and each registry points at the     *)
(* grants that point back at it.  Attended: a connection an engine knows   *)
(* is in a phase of its own coroutine and that coroutine holds the grant,  *)
(* so the end of one connection can only touch the engine of its own.      *)
(***************************************************************************)
EXTENDS NativeService, TLAPS

\* The registries of grants and engines, each entry pointing back.
Registered ==
    /\ \A g \in grants : session_of[g] # None /\ by_uid[uid(g)] = g
    /\ \A g \in grants \cap engine : engines[uid(g)] = g
    /\ \A u \in Users :
           /\ by_uid[u] # None => by_uid[u] \in grants /\ uid(by_uid[u]) = u
           /\ engines[u] # None => engines[u] \in grants \cap engine /\ uid(engines[u]) = u

\* Only a grant that was issued has an engine, so a new one starts without.
EnginesIssued == \A g \in engine : session_of[g] # None

\* With public policy no grant survives the removal of its session.
SessionsKept == public_policy => \A g \in grants : session[session_of[g]] # "removed"

\* The connections of an engine, their coroutines and their phases.
Attended ==
    \A g \in Grants :
        /\ bootstrap[g] # None =>
               /\ g \in grants /\ service[bootstrap[g]] = "game" /\ held[bootstrap[g]] = g
               /\ phase[bootstrap[g]] \in {"BOOTSTRAP", "PROFILE", "HANDOFF"}
        /\ game[g] # None =>
               /\ g \in grants /\ service[game[g]] = "game" /\ held[game[g]] = g
               /\ phase[game[g]] = "LOBBY"
        /\ g \in p2p => game[g] # None

\* The SDK slots and the coroutines that took them.
SlotsHeld ==
    /\ \A l \in Links :
           /\ service[l] = "idle" => held[l] = None
           /\ service[l] = "sdk" /\ held[l] # None => held[l] \in sdk_connected
    /\ \A g \in sdk_connected : \E l \in Links : service[l] = "sdk" /\ held[l] = g
    /\ \A l, m \in Links :
           l # m /\ service[l] = "sdk" /\ service[m] = "sdk" /\ held[l] # None => held[l] # held[m]

IInv == TypeOK /\ Registered /\ EnginesIssued /\ SessionsKept /\ Attended /\ SlotsHeld

-----------------------------------------------------------------------------
\* The values a step may choose are of their sets, so every variable stays of
\* its type.
LEMMA TypeStep ==
    ASSUME TypeOK, Next
    PROVE  TypeOK'
<1> USE AdmissionAssumption DEF TypeOK, auth_vars, registry_vars, grant_vars, engine_vars, link_vars,
                                Deadlines, Phases, Sessions
<1>1. CASE Account
  <2>1. ASSUME NEW s \in Sessions, Login(s) \/ SelectRegion(s) \/ ExpireSession(s) PROVE TypeOK'
    BY <2>1 DEF Login, SelectRegion, ExpireSession
  <2>2. ASSUME NEW s \in Sessions, NEW logout \in BOOLEAN, RemoveSession(s, logout) PROVE TypeOK'
    BY <2>2 DEF RemoveSession, Release, Detach, Index
  <2> HIDE DEF TypeOK, Sessions
  <2> QED BY <1>1, <2>1, <2>2 DEF Account
<1>2. CASE Admission
  <2>1. CASE Prune
    BY <2>1 DEF Prune, Release, Detach, Index
  <2>2. ASSUME NEW g \in Grants, NEW s \in Sessions, Issue(s, g) PROVE TypeOK'
    BY <2>2 DEF Issue, Vacated, Detach, Index
  <2>3. ASSUME NEW g \in Grants, SetReady(g) PROVE TypeOK'
    BY <2>3 DEF SetReady
  <2>4. ASSUME NEW g \in Grants, CancelGame(g) PROVE TypeOK'
    BY <2>4 DEF CancelGame, Release, Detach, Index
  <2>5. ASSUME NEW g \in Grants, NEW d \in Deadlines, Lapse(g, d) PROVE TypeOK'
    <3>1. overdue[g] \cup {d} \in SUBSET Deadlines
      OBVIOUS
    <3>2. overdue' \in [Grants -> SUBSET Deadlines]
      <4> HIDE DEF Deadlines
      <4> QED BY <2>5, <3>1 DEF Lapse
    <3>3. UNCHANGED <<auth_vars, registry_vars, session_of, ready, sdk_admitted, pending_handoff,
                      sdk_connected, udp_peer, engine, engine_vars, peers, link_vars>>
      BY <2>5 DEF Lapse
    <3> QED BY <3>2, <3>3
  <2> HIDE DEF TypeOK, Deadlines, Sessions
  <2> QED BY <1>2, <2>1, <2>2, <2>3, <2>4, <2>5 DEF Admission
<1>3. CASE Connection
  <2> SUFFICES ASSUME NEW l \in Links,
                      \/ \E g \in Grants, kind \in {"sdk", "game"} : Accept(l, g, kind)
                      \/ ClaimSdk(l) \/ AdmitSdk(l) \/ Bootstrap(l) \/ ProfileReady(l)
                      \/ SelectRole(l) \/ TakeHandoff(l) \/ ChannelReturn(l)
                      \/ CloseSdk(l) \/ CloseGame(l)
               PROVE  TypeOK'
    BY <1>3 DEF Connection
  <2>1. CASE \E g \in Grants, kind \in {"sdk", "game"} : Accept(l, g, kind)
    BY <2>1 DEF Accept
  <2>2. CASE ClaimSdk(l) \/ AdmitSdk(l) \/ CloseSdk(l)
    <3>1. CASE ClaimSdk(l)
      BY <3>1 DEF ClaimSdk, Valid
    <3>2. CASE AdmitSdk(l)
      BY <3>2 DEF AdmitSdk, Valid
    <3>3. CASE CloseSdk(l)
      BY <3>3 DEF CloseSdk
    <3> QED BY <2>2, <3>1, <3>2, <3>3
  <2>3. CASE Bootstrap(l)
    <3>1. engine' \subseteq Grants /\ engines' \in [Users -> Grants \cup {None}]
      BY ZenonT(60), <2>3 DEF Bootstrap, Resolves, Valid
    <3>2. bootstrap' \in [Grants -> Links \cup {None}]
      BY <2>3 DEF Bootstrap, Resolves, Valid
    <3>3. phase' \in [Links -> Phases]
      BY <2>3 DEF Bootstrap, Resolves, Valid
    <3>4. held' \in [Links -> Grants \cup {None}]
      BY <2>3 DEF Bootstrap, Resolves, Valid
    <3> QED BY <2>3, <3>1, <3>2, <3>3, <3>4 DEF Bootstrap
  <2>4. CASE ProfileReady(l)
    BY <2>4 DEF ProfileReady, Serves, Valid
  <2>8. CASE SelectRole(l)
    <3>1. overdue' \in [Grants -> SUBSET Deadlines]
      <4> HIDE DEF Deadlines
      <4> QED BY <2>8 DEF SelectRole, Serves, Valid
    <3> QED BY <2>8, <3>1 DEF SelectRole, Serves, Valid
  <2>5. CASE TakeHandoff(l)
    BY <2>5 DEF TakeHandoff, Resolves, Valid
  <2>6. CASE ChannelReturn(l)
    BY <2>6 DEF ChannelReturn, Disconnect, Serves, Valid
  <2>7. CASE CloseGame(l)
    <3>1. CASE held[l] = None
      BY <2>7, <3>1 DEF CloseGame
    <3>2. CASE Release({held[l]}) /\ peers' = Forgotten({held[l]})
      <4>1. by_uid' \in [Users -> Grants \cup {None}] /\ engines' \in [Users -> Grants \cup {None}]
        BY <3>2 DEF Release, Detach, Index
      <4>2. bootstrap' \in [Grants -> Links \cup {None}] /\ game' \in [Grants -> Links \cup {None}]
        BY <3>2 DEF Release, Detach
      <4>3. phase' \in [Links -> Phases] /\ p2p' \subseteq Grants /\ grants' \subseteq Grants
        BY <3>2 DEF Release, Detach
      <4>4. peers' \in [Peers -> Grants \cup {None}]
        BY <3>2 DEF Forgotten
      <4> QED BY <2>7, <4>1, <4>2, <4>3, <4>4 DEF CloseGame
    <3>3. CASE Disconnect(l, held[l]) /\ UNCHANGED <<registry_vars, peers>>
      BY <2>7, <3>3 DEF CloseGame, Disconnect
    <3> QED BY <2>7, <3>1, <3>2, <3>3 DEF CloseGame
  <2> QED BY <2>1, <2>2, <2>3, <2>4, <2>5, <2>6, <2>7, <2>8
<1>4. CASE Endpoint
  <2> SUFFICES ASSUME NEW g \in Grants,
                      (\E p \in Peers : BindUdp(g, p)) \/ UnbindUdp(g) \/ LapseLease(g)
               PROVE  TypeOK'
    BY <1>4 DEF Endpoint
  <2>1. ASSUME NEW p \in Peers, BindUdp(g, p) PROVE TypeOK'
    BY <2>1 DEF BindUdp
  <2>2. CASE UnbindUdp(g) \/ LapseLease(g)
    <3>1. p2p' \subseteq Grants /\ peers' \in [Peers -> Grants \cup {None}]
      BY <2>2 DEF UnbindUdp, LapseLease, Forgotten
    <3> QED BY SMTT(30), <2>2, <3>1 DEF UnbindUdp, LapseLease
  <2> QED BY <2>1, <2>2
<1> QED BY <1>1, <1>2, <1>3, <1>4 DEF Next

-----------------------------------------------------------------------------
\* A release takes the grants out of each registry together: what is left
\* still points back.
LEMMA ReleaseRegistries ==
    ASSUME TypeOK, Registered, NEW R, Release(R), UNCHANGED <<session_of, engine>>
    PROVE  Registered'
<1> DEFINE gone == R \cap grants
<1>1. /\ grants' = grants \ gone
      /\ by_uid' = [u \in Users |-> IF by_uid[u] \in gone THEN None ELSE by_uid[u]]
      /\ engines' = [u \in Users |-> IF engines[u] \in gone THEN None ELSE engines[u]]
  BY DEF Release, Index, Detach
<1>2. /\ None \notin Grants
      /\ by_uid \in [Users -> Grants \cup {None}] /\ engines \in [Users -> Grants \cup {None}]
      /\ \A g \in grants : uid(g) \in Users
  BY AdmissionAssumption DEF TypeOK, Registered, Sessions, uid
<1>3. \A g : uid(g)' = uid(g)
  BY DEF uid
<1> HIDE DEF gone
<1>4. \A g \in grants' : session_of'[g] # None /\ by_uid'[uid(g)] = g
  BY <1>1, <1>2 DEF Registered
<1>5. \A g \in grants' \cap engine' : engines'[uid(g)] = g
  BY <1>1, <1>2 DEF Registered
<1>6. \A u \in Users : by_uid'[u] # None => by_uid'[u] \in grants' /\ uid(by_uid'[u]) = u
  BY <1>1, <1>2 DEF Registered
<1>7. \A u \in Users : engines'[u] # None => engines'[u] \in grants' \cap engine' /\ uid(engines'[u]) = u
  BY <1>1, <1>2 DEF Registered
<1> QED BY <1>3, <1>4, <1>5, <1>6, <1>7 DEF Registered

\* How a step may change the registries: it releases grants, issues one or
\* opens an engine.
RegistrySteps ==
    \/ UNCHANGED <<registry_vars, session_of, engine>>
    \/ (\E R : Release(R)) /\ UNCHANGED <<session_of, engine>>
    \/ \E s \in Sessions, g \in Grants : Issue(s, g)
    \/ \E l \in Links : Bootstrap(l)

LEMMA RegistryStep ==
    ASSUME Next
    PROVE  RegistrySteps
<1> USE DEF auth_vars, registry_vars, grant_vars
<1>1. CASE Account
  <2>1. ASSUME NEW s \in Sessions, Login(s) \/ SelectRegion(s) \/ ExpireSession(s) PROVE RegistrySteps
    BY <2>1 DEF Login, SelectRegion, ExpireSession, RegistrySteps
  <2>2. ASSUME NEW s \in Sessions, NEW logout \in BOOLEAN, RemoveSession(s, logout) PROVE RegistrySteps
    <3> DEFINE R == Revoked(s) \cup (IF logout THEN Invalid \cup {g \in grants : session_of[g] = s} ELSE {})
    <3>1. Release(R) /\ UNCHANGED <<session_of, engine>>
      BY <2>2 DEF RemoveSession
    <3> QED BY <3>1 DEF RegistrySteps
  <2> QED BY <1>1, <2>1, <2>2 DEF Account
<1>2. CASE Admission
  BY <1>2 DEF Admission, Prune, SetReady, CancelGame, Lapse, RegistrySteps
<1>3. CASE Connection
  <2> SUFFICES ASSUME NEW l \in Links,
                      \/ \E g \in Grants, kind \in {"sdk", "game"} : Accept(l, g, kind)
                      \/ ClaimSdk(l) \/ AdmitSdk(l) \/ Bootstrap(l) \/ ProfileReady(l)
                      \/ SelectRole(l) \/ TakeHandoff(l) \/ ChannelReturn(l)
                      \/ CloseSdk(l) \/ CloseGame(l)
               PROVE  RegistrySteps
    BY <1>3 DEF Connection
  <2>1. CASE CloseGame(l)
    BY <2>1 DEF CloseGame, RegistrySteps
  <2>2. CASE Bootstrap(l)
    BY <2>2 DEF RegistrySteps
  <2> QED
    BY <2>1, <2>2 DEF Accept, ClaimSdk, AdmitSdk, ProfileReady, SelectRole, TakeHandoff, ChannelReturn, CloseSdk, RegistrySteps
<1>4. CASE Endpoint
  BY <1>4 DEF Endpoint, BindUdp, UnbindUdp, LapseLease, RegistrySteps
<1> QED BY <1>1, <1>2, <1>3, <1>4 DEF Next

\* Whoever issues a grant, opens an engine or ends a grant keeps the
\* registries of accounts, grants and engines in agreement.
LEMMA RegisteredStep ==
    ASSUME TypeOK, Registered, EnginesIssued, Next
    PROVE  Registered' /\ EnginesIssued'
<1>1. CASE UNCHANGED <<registry_vars, session_of, engine>>
  BY <1>1 DEF Registered, EnginesIssued, registry_vars, uid
<1>2. ASSUME NEW R, Release(R), UNCHANGED <<session_of, engine>>
      PROVE  Registered' /\ EnginesIssued'
  BY <1>2, ReleaseRegistries DEF EnginesIssued
<1>3. ASSUME NEW s \in Sessions, NEW g \in Grants, Issue(s, g)
      PROVE  Registered' /\ EnginesIssued'
  <2> DEFINE stale == Invalid
  <2>1. /\ session_of[g] = None
        /\ by_uid[s[1]] \in stale \cup {None}
        /\ session_of' = [session_of EXCEPT ![g] = s]
        /\ grants' = (grants \ stale) \cup {g}
        /\ by_uid' = [[u \in Users |-> IF by_uid[u] \in stale THEN None ELSE by_uid[u]] EXCEPT ![s[1]] = g]
        /\ engines' = [u \in Users |-> IF engines[u] \in stale THEN None ELSE engines[u]]
        /\ UNCHANGED engine
    BY <1>3 DEF Issue, Vacated, Index, Detach
  <2>2. s # None /\ s[1] \in Users /\ g \notin grants /\ g \notin engine
    BY <2>1, AdmissionAssumption DEF Registered, EnginesIssued, Sessions
  <2>3. /\ None \notin Grants
        /\ by_uid \in [Users -> Grants \cup {None}] /\ engines \in [Users -> Grants \cup {None}]
        /\ session_of \in [Grants -> Sessions \cup {None}]
        /\ grants \subseteq Grants /\ engine \subseteq Grants
        /\ \A h \in grants : uid(h) \in Users
    BY AdmissionAssumption DEF TypeOK, Registered, Sessions, uid
  <2> HIDE DEF stale
  <2>4. (\A h : h # g => uid(h)' = uid(h) /\ session_of'[h] = session_of[h]) /\ uid(g)' = s[1] /\ session_of'[g] = s
    <3>1. session_of' = [h \in Grants |-> IF h = g THEN s ELSE session_of[h]]
      BY <2>1, <2>3
    <3> QED BY <2>1, <2>3 DEF uid
  <2>5. \A h \in grants' : session_of'[h] # None /\ by_uid'[uid(h)'] = h
    <3>1. \A h \in grants \ stale : uid(h) # s[1]
      BY <2>1, <2>3 DEF Registered
    <3> QED BY <2>1, <2>2, <2>3, <2>4, <3>1 DEF Registered
  <2>6. \A h \in grants' \cap engine' : engines'[uid(h)'] = h
    BY <2>1, <2>2, <2>3, <2>4 DEF Registered
  <2>7. \A u \in Users : \A h : by_uid'[u] = h /\ h # None => h \in grants' /\ uid(h)' = u
    BY <2>1, <2>2, <2>3, <2>4 DEF Registered
  <2>8. \A u \in Users : \A h : engines'[u] = h /\ h # None => h \in grants' \cap engine' /\ uid(h)' = u
    BY <2>1, <2>2, <2>3, <2>4 DEF Registered
  <2>9. \A h \in engine' : session_of'[h] # None
    BY <2>1, <2>2, <2>4 DEF EnginesIssued
  <2> QED BY <2>5, <2>6, <2>7, <2>8, <2>9 DEF Registered, EnginesIssued, uid
<1>4. ASSUME NEW l \in Links, Bootstrap(l)
      PROVE  Registered' /\ EnginesIssued'
  <2> DEFINE g == outer[l]
  <2>1. /\ g \in grants
        /\ g \in engine \/ engines[uid(g)] = None
        /\ engine' = engine \cup {g}
        /\ engines' = [engines EXCEPT ![uid(g)] = g]
        /\ UNCHANGED <<grants, by_uid, session_of>>
    BY <1>4 DEF Bootstrap, Resolves, Valid, grant_vars
  <2>2. g \in grants /\ uid(g) \in Users /\ engines \in [Users -> Grants \cup {None}] /\ None \notin Grants /\ grants \subseteq Grants
    BY <2>1, AdmissionAssumption DEF TypeOK, Registered, Sessions, uid
  <2>3. \A h : uid(h)' = uid(h)
    BY <2>1 DEF uid
  <2> HIDE DEF g
  <2>4. \A h \in grants' \cap engine' : engines'[uid(h)] = h
    BY <2>1, <2>2 DEF Registered
  <2>5. \A u \in Users : engines'[u] # None => engines'[u] \in grants' \cap engine' /\ uid(engines'[u]) = u
    BY <2>1, <2>2 DEF Registered
  <2> QED BY <2>1, <2>2, <2>3, <2>4, <2>5 DEF Registered, EnginesIssued, uid
<1> QED BY <1>1, <1>2, <1>3, <1>4, RegistryStep DEF RegistrySteps

-----------------------------------------------------------------------------
\* With public policy the removal of a session releases its grants in the
\* same step, and a grant is only issued for a live session.
LEMMA SessionsStep ==
    ASSUME TypeOK, Registered, SessionsKept, Next
    PROVE  SessionsKept'
<1> USE DEF auth_vars, registry_vars, grant_vars
<1>1. CASE UNCHANGED <<public_policy, session, session_of>> /\ grants' \subseteq grants
  BY <1>1 DEF SessionsKept
<1>2. CASE Account
  <2>1. ASSUME NEW s \in Sessions, Login(s) \/ SelectRegion(s) \/ ExpireSession(s) PROVE SessionsKept'
    <3>1. /\ UNCHANGED <<public_policy, session_of, grants>>
          /\ UNCHANGED session \/ session' = [session EXCEPT ![s] = "live"]
                \/ session' = [session EXCEPT ![s] = "expired"]
      BY <2>1 DEF Login, SelectRegion, ExpireSession
    <3>2. \A g \in grants : session_of[g] \in Sessions
      BY DEF TypeOK, Registered
    <3> QED BY <3>1, <3>2 DEF SessionsKept, TypeOK
  <2>2. ASSUME NEW s \in Sessions, NEW logout \in BOOLEAN, RemoveSession(s, logout) PROVE SessionsKept'
    <3>1. /\ session' = [session EXCEPT ![s] = "removed"]
          /\ UNCHANGED <<public_policy, session_of>>
          /\ grants' \subseteq grants
          /\ public_policy => \A g \in grants' : session_of[g] # s
      BY <2>2 DEF RemoveSession, Release, Revoked
    <3>2. \A g \in grants : session_of[g] \in Sessions
      BY DEF TypeOK, Registered
    <3> QED BY <3>1, <3>2 DEF SessionsKept, TypeOK
  <2> QED BY <1>2, <2>1, <2>2 DEF Account
<1>3. CASE Admission
  <2>1. ASSUME NEW g \in Grants, NEW s \in Sessions, Issue(s, g) PROVE SessionsKept'
    <3>1. /\ session[s] = "live"
          /\ session_of[g] = None
          /\ session_of' = [session_of EXCEPT ![g] = s]
          /\ grants' \subseteq grants \cup {g}
          /\ UNCHANGED <<public_policy, session>>
      BY <2>1 DEF Issue
    <3> QED BY <3>1 DEF SessionsKept, TypeOK, Registered
  <2>2. CASE Prune \/ \E g \in Grants : SetReady(g) \/ CancelGame(g) \/ \E d \in Deadlines : Lapse(g, d)
    BY <1>1, <2>2 DEF Prune, SetReady, CancelGame, Lapse, Release
  <2> QED BY <1>3, <2>1, <2>2 DEF Admission
<1>4. CASE Connection
  BY <1>1, <1>4 DEF Connection, Accept, ClaimSdk, AdmitSdk, Bootstrap, ProfileReady, SelectRole, TakeHandoff,
                    ChannelReturn, CloseSdk, CloseGame, Release
<1>5. CASE Endpoint
  BY <1>1, <1>5 DEF Endpoint, BindUdp, UnbindUdp, LapseLease
<1> QED BY <1>2, <1>3, <1>4, <1>5 DEF Next

-----------------------------------------------------------------------------
\* What the coroutines hold, as they are, of the connections as they will be.
NextAttended ==
    \A g \in Grants :
        /\ bootstrap'[g] # None =>
               /\ g \in grants' /\ service[bootstrap'[g]] = "game" /\ held[bootstrap'[g]] = g
               /\ phase'[bootstrap'[g]] \in {"BOOTSTRAP", "PROFILE", "HANDOFF"}
        /\ game'[g] # None =>
               /\ g \in grants' /\ service[game'[g]] = "game" /\ held[game'[g]] = g
               /\ phase'[game'[g]] = "LOBBY"
        /\ g \in p2p' => game'[g] # None

\* A released grant loses its connections, and no other engine has them.
LEMMA ReleaseAttended ==
    ASSUME TypeOK, Attended, NEW R, Release(R)
    PROVE  NextAttended
<1> DEFINE gone == R \cap grants
<1>1. /\ grants' = grants \ gone
      /\ bootstrap' = [g \in Grants |-> IF g \in gone THEN None ELSE bootstrap[g]]
      /\ game' = [g \in Grants |-> IF g \in gone THEN None ELSE game[g]]
      /\ p2p' = p2p \ gone
      /\ phase' = [l \in Links |-> IF \E g \in gone : l \in {bootstrap[g], game[g]}
                                   THEN "CLOSED" ELSE phase[l]]
  BY DEF Release, Detach
<1>2. gone \subseteq Grants
  BY DEF TypeOK
<1> HIDE DEF gone
<1> SUFFICES ASSUME NEW g \in Grants, g \notin gone
             PROVE  /\ bootstrap[g] # None =>
                         /\ g \in grants /\ service[bootstrap[g]] = "game" /\ held[bootstrap[g]] = g
                         /\ phase'[bootstrap[g]] \in {"BOOTSTRAP", "PROFILE", "HANDOFF"}
                    /\ game[g] # None =>
                         /\ g \in grants /\ service[game[g]] = "game" /\ held[game[g]] = g
                         /\ phase'[game[g]] = "LOBBY"
                    /\ g \in p2p => game[g] # None
  BY <1>1, <1>2 DEF NextAttended
<1>3. ASSUME NEW l \in Links, l \in {bootstrap[g], game[g]}
      PROVE  phase'[l] = phase[l]
  <2>1. l # None /\ held[l] = g
    BY <1>3, AdmissionAssumption DEF Attended
  <2>2. \A h \in gone : l \notin {bootstrap[h], game[h]}
    BY <2>1, <1>2 DEF Attended
  <2> QED BY <1>1, <2>2
<1>4. bootstrap[g] \in Links \cup {None} /\ game[g] \in Links \cup {None}
  BY DEF TypeOK
<1> QED BY <1>3, <1>4 DEF Attended

\* The connection that a step puts in place was in nobody's hands, and the
\* one it takes away was its own engine's: the others are left alone.
LEMMA AttendedStep ==
    ASSUME TypeOK, Registered, EnginesIssued, Attended, SlotsHeld, Next
    PROVE  Attended'
<1> USE DEF auth_vars, registry_vars, grant_vars, engine_vars, link_vars
<1>1. CASE UNCHANGED <<grants, bootstrap, game, p2p, phase, service, held>>
  BY <1>1 DEF Attended
<1>2. ASSUME NEW R, Release(R), UNCHANGED <<service, held>> PROVE Attended'
  BY <1>2, ReleaseAttended DEF NextAttended, Attended
<1>3. CASE Account
  BY <1>1, <1>2, <1>3 DEF Account, Login, SelectRegion, ExpireSession, RemoveSession
<1>4. CASE Admission
  <2>1. ASSUME NEW g \in Grants, NEW s \in Sessions, Issue(s, g) PROVE Attended'
    <3> DEFINE gone == Invalid
    <3>1. /\ grants' = (grants \ gone) \cup {g}
          /\ bootstrap' = [h \in Grants |-> IF h \in gone THEN None ELSE bootstrap[h]]
          /\ game' = [h \in Grants |-> IF h \in gone THEN None ELSE game[h]]
          /\ p2p' = p2p \ gone
          /\ phase' = [l \in Links |-> IF \E h \in gone : l \in {bootstrap[h], game[h]}
                                       THEN "CLOSED" ELSE phase[l]]
          /\ UNCHANGED <<service, held>>
      BY <2>1 DEF Issue, Vacated, Detach
    <3>2. gone \subseteq Grants
      BY DEF TypeOK, Invalid
    <3> HIDE DEF gone
    <3>3. ASSUME NEW h \in Grants, h \notin gone, NEW l \in Links, l \in {bootstrap[h], game[h]}
          PROVE  phase'[l] = phase[l]
      <4>1. l # None /\ held[l] = h
        BY <3>3, AdmissionAssumption DEF Attended
      <4>2. \A i \in gone : l \notin {bootstrap[i], game[i]}
        BY <4>1, <3>2, <3>3 DEF Attended
      <4> QED BY <3>1, <4>2
    <3>4. bootstrap \in [Grants -> Links \cup {None}] /\ game \in [Grants -> Links \cup {None}]
      BY DEF TypeOK
    <3> QED BY <3>1, <3>2, <3>3, <3>4 DEF Attended
  <2>2. CASE Prune \/ \E g \in Grants : SetReady(g) \/ CancelGame(g) \/ \E d \in Deadlines : Lapse(g, d)
    BY <1>1, <1>2, <2>2 DEF Prune, SetReady, CancelGame, Lapse
  <2> QED BY <1>4, <2>1, <2>2 DEF Admission
<1>5. ASSUME NEW l \in Links, NEW g \in Grants, NEW kind \in {"sdk", "game"}, Accept(l, g, kind)
      PROVE  Attended'
  BY <1>5, AdmissionAssumption DEF Accept, TypeOK, Attended
<1>6. ASSUME NEW l \in Links, ClaimSdk(l) \/ AdmitSdk(l) \/ CloseSdk(l)
      PROVE  Attended'
  BY <1>6, AdmissionAssumption DEF ClaimSdk, AdmitSdk, CloseSdk, TypeOK, Attended
<1>7. ASSUME NEW l \in Links, Bootstrap(l) PROVE Attended'
  <2>1. outer[l] \in Grants /\ outer[l] \in grants /\ l # None
    BY <1>7, AdmissionAssumption DEF Bootstrap, Resolves, Valid, TypeOK
  <2> QED BY <1>7, <2>1, AdmissionAssumption DEF Bootstrap, Resolves, TypeOK, Attended
<1>8. ASSUME NEW l \in Links, TakeHandoff(l) PROVE Attended'
  <2>1. outer[l] \in Grants /\ outer[l] \in grants /\ l # None
    BY <1>8, AdmissionAssumption DEF TakeHandoff, Resolves, Valid, TypeOK
  <2> QED BY <1>8, <2>1, AdmissionAssumption DEF TakeHandoff, Resolves, TypeOK, Attended
<1>9. ASSUME NEW l \in Links, ProfileReady(l) \/ SelectRole(l) PROVE Attended'
  BY <1>9, AdmissionAssumption DEF ProfileReady, SelectRole, TypeOK, Attended
<1>10. ASSUME NEW l \in Links, NEW g \in Grants, held[l] = g, Disconnect(l, g), UNCHANGED grants
       PROVE  NextAttended /\ bootstrap'[g] # l /\ game'[g] # l
  BY <1>10, AdmissionAssumption DEF Disconnect, TypeOK, Attended, NextAttended
<1>11. ASSUME NEW l \in Links, ChannelReturn(l) PROVE Attended'
  <2>1. held[l] \in Grants /\ Disconnect(l, held[l]) /\ UNCHANGED <<grants, service, held>>
    BY <1>11 DEF ChannelReturn, Serves, TypeOK
  <2> QED BY <1>10, <2>1 DEF NextAttended, Attended
<1>12. ASSUME NEW l \in Links, CloseGame(l) PROVE Attended'
  <2>1. /\ service' = [service EXCEPT ![l] = "idle"]
        /\ held' = [held EXCEPT ![l] = None]
    BY <1>12 DEF CloseGame
  <2>2. NextAttended /\ \A g \in Grants : bootstrap'[g] # l /\ game'[g] # l
    <3>1. CASE held[l] = None
      <4>1. UNCHANGED <<grants, bootstrap, game, p2p, phase>>
        BY <1>12, <3>1 DEF CloseGame
      <4> QED BY <3>1, <4>1, AdmissionAssumption DEF NextAttended, Attended
    <3>2. CASE held[l] # None /\ Release({held[l]})
      <4>1. NextAttended
        BY <3>2, ReleaseAttended
      <4>2. held[l] \notin grants'
        BY <3>2 DEF Release
      <4> QED BY <4>1, <4>2, AdmissionAssumption DEF NextAttended
    <3>3. CASE held[l] # None /\ Disconnect(l, held[l]) /\ UNCHANGED grants
      <4>1. held[l] \in Grants
        BY <3>3 DEF TypeOK
      <4>2. NextAttended /\ bootstrap'[held[l]] # l /\ game'[held[l]] # l
        BY <1>10, <3>3, <4>1
      <4> QED BY <4>2, AdmissionAssumption DEF NextAttended
    <3> QED BY <1>12, <3>1, <3>2, <3>3 DEF CloseGame
  <2>3. service \in [Links -> {"idle", "sdk", "game"}] /\ held \in [Links -> Grants \cup {None}]
    BY DEF TypeOK
  <2> QED BY <2>1, <2>2, <2>3 DEF NextAttended, Attended
<1>13. CASE Connection
  BY <1>5, <1>6, <1>7, <1>8, <1>9, <1>11, <1>12, <1>13 DEF Connection
<1>14. CASE Endpoint
  BY <1>14 DEF Endpoint, BindUdp, UnbindUdp, LapseLease, Attended, TypeOK
<1> QED BY <1>3, <1>4, <1>13, <1>14 DEF Next

-----------------------------------------------------------------------------
\* One coroutine at a time takes the SDK slot of a grant, and gives it back.
LEMMA SlotsStep ==
    ASSUME TypeOK, SlotsHeld, Next
    PROVE  SlotsHeld'
<1> USE DEF auth_vars, registry_vars, grant_vars, engine_vars, link_vars
<1>1. CASE UNCHANGED <<service, held, sdk_connected>>
  BY <1>1 DEF SlotsHeld
<1>2. CASE Account \/ Admission \/ Endpoint
  BY <1>1, <1>2 DEF Account, Login, SelectRegion, ExpireSession, RemoveSession, Admission, Prune, Issue,
                    SetReady, CancelGame, Lapse, Endpoint, BindUdp, UnbindUdp, LapseLease
<1>3. CASE Connection
  <2> SUFFICES ASSUME NEW l \in Links,
                      \/ \E g \in Grants, kind \in {"sdk", "game"} : Accept(l, g, kind)
                      \/ ClaimSdk(l) \/ AdmitSdk(l) \/ Bootstrap(l) \/ ProfileReady(l)
                      \/ SelectRole(l) \/ TakeHandoff(l) \/ ChannelReturn(l)
                      \/ CloseSdk(l) \/ CloseGame(l)
               PROVE  SlotsHeld'
    BY <1>3 DEF Connection
  <2>1. ASSUME NEW g \in Grants, NEW kind \in {"sdk", "game"}, Accept(l, g, kind) PROVE SlotsHeld'
    BY <2>1 DEF Accept, TypeOK, SlotsHeld
  <2>2. CASE ClaimSdk(l)
    <3>1. /\ service[l] = "sdk" /\ outer[l] \in Grants /\ outer[l] \notin sdk_connected
          /\ held' = [held EXCEPT ![l] = outer[l]]
          /\ sdk_connected' = sdk_connected \cup {outer[l]}
          /\ UNCHANGED service
          /\ held[l] = None
      BY <2>2 DEF ClaimSdk, Claimable, Valid, TypeOK
    <3>2. held \in [Links -> Grants \cup {None}]
      BY DEF TypeOK
    <3>3. \A m \in Links : service'[m] = "idle" => held'[m] = None
      BY <3>1, <3>2 DEF SlotsHeld
    <3>4. \A m \in Links : service'[m] = "sdk" /\ held'[m] # None => held'[m] \in sdk_connected'
      BY <3>1, <3>2 DEF SlotsHeld
    <3>5. \A g \in sdk_connected' : \E m \in Links : service'[m] = "sdk" /\ held'[m] = g
      <4> TAKE g \in sdk_connected'
      <4>1. CASE g = outer[l]
        BY <3>1, <3>2, <4>1
      <4>2. CASE g # outer[l]
        <5>1. PICK m \in Links : service[m] = "sdk" /\ held[m] = g
          BY <3>1, <4>2 DEF SlotsHeld
        <5>2. m # l
          BY <3>1, <5>1, AdmissionAssumption DEF TypeOK
        <5> QED BY <3>1, <3>2, <5>1, <5>2
      <4> QED BY <4>1, <4>2
    <3>6. \A m, n \in Links :
             m # n /\ service'[m] = "sdk" /\ service'[n] = "sdk" /\ held'[m] # None => held'[m] # held'[n]
      BY <3>1, <3>2 DEF SlotsHeld
    <3> QED BY <3>3, <3>4, <3>5, <3>6 DEF SlotsHeld
  <2>3. CASE Bootstrap(l) \/ TakeHandoff(l)
    BY <2>3 DEF Bootstrap, TakeHandoff, Resolves, TypeOK, SlotsHeld
  <2>4. CASE AdmitSdk(l) \/ ProfileReady(l) \/ SelectRole(l) \/ ChannelReturn(l)
    BY <1>1, <2>4 DEF AdmitSdk, ProfileReady, SelectRole, ChannelReturn
  <2>5. CASE CloseSdk(l)
    BY <2>5, AdmissionAssumption DEF CloseSdk, TypeOK, SlotsHeld
  <2>6. CASE CloseGame(l)
    BY <2>6 DEF CloseGame, TypeOK, SlotsHeld
  <2> QED BY <2>1, <2>2, <2>3, <2>4, <2>5, <2>6
<1> QED BY <1>2, <1>3 DEF Next

\* The invariant the others rest on: registries that agree, connections that
\* their coroutines attend, slots that one coroutine holds.
THEOREM AdmissionInvariant == Spec => []IInv
<1>1. Init => IInv
  BY AdmissionAssumption DEF Init, IInv, TypeOK, Registered, EnginesIssued, SessionsKept, Attended, SlotsHeld, Phases
<1>2. IInv /\ [Next]_vars => IInv'
  <2>1. IInv /\ Next => IInv'
    BY TypeStep, RegisteredStep, SessionsStep, AttendedStep, SlotsStep DEF IInv
  <2>2. IInv /\ UNCHANGED vars => IInv'
    BY DEF vars, auth_vars, registry_vars, grant_vars, engine_vars, link_vars, IInv, TypeOK, Registered, uid,
           EnginesIssued, SessionsKept, Attended, SlotsHeld
  <2> QED BY <2>1, <2>2
<1> QED BY <1>1, <1>2, PTL DEF Spec

\* by_uid lists exactly the registered grants and the hub exactly their
\* engines, each under its account (NativeAdmission.issue and release,
\* RoomHub.register): an account is never locked out by a grant that has
\* gone, and a removed session leaves no grant behind.
THEOREM RegistriesAlwaysAgree == Spec => []RegistriesAgree
<1>1. IInv => RegistriesAgree
  <2> SUFFICES ASSUME IInv, NEW u \in Users
               PROVE  /\ {g \in grants : uid(g) = u} = {by_uid[u]} \ {None}
                      /\ {g \in grants \cap engine : uid(g) = u} = {engines[u]} \ {None}
    BY DEF IInv, RegistriesAgree, SessionsKept
  <2>1. /\ \A g \in grants : uid(g) = u => by_uid[u] = g /\ g # None
        /\ \A g \in grants \cap engine : uid(g) = u => engines[u] = g /\ g # None
        /\ by_uid[u] # None => by_uid[u] \in grants /\ uid(by_uid[u]) = u
        /\ engines[u] # None => engines[u] \in grants \cap engine /\ uid(engines[u]) = u
    BY AdmissionAssumption DEF IInv, TypeOK, Registered
  <2> QED BY <2>1
<1> QED BY <1>1, AdmissionInvariant, PTL

\* Every connection an engine depends on is served by the coroutine that will
\* notice its end, and every taken SDK slot by the one that will free it.
THEOREM ConnectionsAlwaysServed == Spec => []ConnectionsServed
<1>1. IInv => ConnectionsServed
  BY AdmissionAssumption DEF IInv, ConnectionsServed, TypeOK, Attended, SlotsHeld
<1> QED BY <1>1, AdmissionInvariant, PTL

\* Issuing a grant takes nothing from a valid one, and the end of a
\* connection that handed over or was disconnected leaves every game alone,
\* whatever has happened since.
THEOREM NobodyEverDisplaced == Spec => NobodyDisplaced
<1>1. IInv =>
         /\ \A s \in Sessions, g \in Grants : Issue(s, g) => \A h \in grants : Valid(h) => h \in grants'
         /\ \A l \in Links :
                CloseGame(l) /\ phase[l] \in {"CONNECTED", "HANDOFF", "CLOSED"} => UNCHANGED game
  <2> SUFFICES ASSUME IInv
               PROVE  /\ \A s \in Sessions, g \in Grants : Issue(s, g) => \A h \in grants : Valid(h) => h \in grants'
                      /\ \A l \in Links :
                             CloseGame(l) /\ phase[l] \in {"CONNECTED", "HANDOFF", "CLOSED"} => UNCHANGED game
    OBVIOUS
  <2>1. ASSUME NEW s \in Sessions, NEW g \in Grants, Issue(s, g), NEW h \in grants, Valid(h)
        PROVE  h \in grants'
    BY <2>1 DEF Issue, Vacated, Invalid
  <2>2. ASSUME NEW l \in Links, CloseGame(l), phase[l] \in {"CONNECTED", "HANDOFF", "CLOSED"}
        PROVE  UNCHANGED game
    <3>1. CASE held[l] = None
      BY <2>2, <3>1 DEF CloseGame, engine_vars
    <3>2. CASE held[l] # None
      <4>1. held[l] \in Grants /\ l # None
        BY <3>2, AdmissionAssumption DEF IInv, TypeOK
      <4>2. game[held[l]] # l /\ ~Current(l, held[l])
        BY <2>2, <4>1 DEF IInv, Attended, Current
      <4>3. Disconnect(l, held[l])
        BY <2>2, <3>2, <4>2 DEF CloseGame
      <4> QED BY <4>1, <4>2, <4>3 DEF Disconnect, IInv, TypeOK
    <3> QED BY <3>1, <3>2
  <2> QED BY <2>1, <2>2
<1> QED BY <1>1, AdmissionInvariant, PTL DEF Spec, NobodyDisplaced

-----------------------------------------------------------------------------
\* Who is online can change in one of two ways: a new game connection for an
\* account that has none, or the end of some.

\* If every account keeps its connection or loses it, accounts depart.
LEMMA Departing ==
    ASSUME \A u \in Users : OnlineNow'[u] \in {None, OnlineNow[u]}
    PROVE  PresenceOf!Next
<1> DEFINE S == {u \in Users : OnlineNow[u] # None /\ OnlineNow'[u] = None}
<1>1. OnlineNow' = [u \in Users |-> IF u \in S THEN None ELSE OnlineNow[u]]
  BY DEF OnlineNow
<1>2. PresenceOf!Depart(S)
  BY <1>1 DEF PresenceOf!Depart
<1> QED BY <1>2 DEF PresenceOf!Next

\* A release takes the connections of its grants' accounts and no other.
LEMMA ReleaseDeparts ==
    ASSUME IInv, NEW R, Release(R)
    PROVE  PresenceOf!Next
<1> SUFFICES ASSUME NEW u \in Users
             PROVE  OnlineNow'[u] \in {None, OnlineNow[u]}
  BY Departing
<1>1. /\ by_uid'[u] = IF by_uid[u] \in R \cap grants THEN None ELSE by_uid[u]
      /\ \A g \in Grants : game'[g] = IF g \in R \cap grants THEN None ELSE game[g]
  BY DEF Release, Index, Detach
<1>2. by_uid[u] \in Grants \cup {None}
  BY DEF IInv, TypeOK
<1> QED BY <1>1, <1>2 DEF OnlineNow

\* The end of one connection takes its own account's, if that was the one.
LEMMA DisconnectDeparts ==
    ASSUME IInv, NEW l \in Links, NEW g \in Grants, Disconnect(l, g), UNCHANGED by_uid
    PROVE  PresenceOf!Next
<1> SUFFICES ASSUME NEW u \in Users
             PROVE  OnlineNow'[u] \in {None, OnlineNow[u]}
  BY Departing
<1>1. by_uid[u] \in Grants \cup {None} /\ game \in [Grants -> Links \cup {None}]
  BY DEF IInv, TypeOK
<1> QED BY <1>1 DEF Disconnect, OnlineNow

\* A grant enters with a game connection that was in nobody's hands, for the
\* account that by_uid lists it under.
LEMMA HandoffEnters ==
    ASSUME IInv, NEW l \in Links, TakeHandoff(l)
    PROVE  PresenceOf!Next
<1> DEFINE g == outer[l]
<1>1. /\ g \in grants /\ held[l] = None /\ game[g] = None
      /\ game' = [game EXCEPT ![g] = l]
      /\ UNCHANGED <<by_uid, session_of>>
  BY DEF TakeHandoff, Resolves, Valid, MayTake, registry_vars
<1>2. g \in Grants /\ by_uid[uid(g)] = g /\ uid(g) \in Users /\ None \notin Grants
  BY <1>1, AdmissionAssumption DEF IInv, TypeOK, Registered, Sessions, uid
<1>3. /\ game \in [Grants -> Links \cup {None}]
      /\ \A v \in Users : by_uid[v] # None => by_uid[v] \in Grants /\ uid(by_uid[v]) = v
  BY DEF IInv, TypeOK, Registered
<1> HIDE DEF g
<1>4. OnlineNow[uid(g)] = None
  BY <1>1, <1>2 DEF OnlineNow
<1>5. ASSUME NEW v \in Users PROVE OnlineNow[v] # l
  <2>1. \A h \in Grants : game[h] # l
    BY <1>1, AdmissionAssumption DEF IInv, Attended
  <2> QED BY <2>1, <1>3, AdmissionAssumption DEF OnlineNow
<1>6. OnlineNow' = [OnlineNow EXCEPT ![uid(g)] = l]
  <2>1. OnlineNow' = [v \in Users |-> IF by_uid[v] = None THEN None ELSE game'[by_uid[v]]]
    BY <1>1 DEF OnlineNow
  <2>2. \A v \in Users : (IF by_uid[v] = None THEN None ELSE game'[by_uid[v]])
                           = IF v = uid(g) THEN l ELSE OnlineNow[v]
    BY <1>1, <1>2, <1>3 DEF OnlineNow
  <2>3. OnlineNow = [v \in Users |-> OnlineNow[v]]
    BY DEF OnlineNow
  <2> QED BY <2>1, <2>2, <2>3
<1> QED BY <1>2, <1>4, <1>5, <1>6 DEF PresenceOf!Next, PresenceOf!Enter

\* A new grant of an account brings no connection along.
LEMMA IssueDeparts ==
    ASSUME IInv, NEW s \in Sessions, NEW g \in Grants, Issue(s, g)
    PROVE  PresenceOf!Next
<1> SUFFICES ASSUME NEW u \in Users
             PROVE  OnlineNow'[u] \in {None, OnlineNow[u]}
  BY Departing
<1>1. /\ session_of[g] = None
      /\ by_uid' = [Index(Invalid) EXCEPT ![s[1]] = g]
      /\ \A h \in Grants : game'[h] = IF h \in Invalid THEN None ELSE game[h]
  BY DEF Issue, Vacated, Detach
<1>2. game[g] = None
  BY <1>1 DEF IInv, Registered, Attended
<1>3. by_uid[u] \in Grants \cup {None} /\ g # None
  BY AdmissionAssumption DEF IInv, TypeOK
<1>4. by_uid'[u] \in {g, None, by_uid[u]}
  BY <1>1 DEF Index
<1> QED BY <1>1, <1>2, <1>3, <1>4 DEF OnlineNow

\* Admission implements what it promises the rooms: an account is online
\* through one game connection at a time, and its place is taken only when
\* that connection has gone (NativeAdmission.issue, Engine.take_handoff,
\* release and disconnect), the fact RoomHub's Enter and Disconnect rest on.
THEOREM PresenceImplemented == Spec => OnePresence
<1>1. Init => PresenceOf!Init
  BY DEF Init, PresenceOf!Init, OnlineNow
<1>2. IInv /\ [Next]_vars => [PresenceOf!Next]_OnlineNow
  <2> SUFFICES ASSUME IInv, Next
               PROVE  PresenceOf!Next \/ UNCHANGED OnlineNow
    BY DEF vars, registry_vars, engine_vars, OnlineNow
  <2> USE DEF auth_vars, registry_vars, grant_vars, engine_vars, link_vars
  <2>1. CASE UNCHANGED <<by_uid, game>>
    BY <2>1 DEF OnlineNow
  <2>2. CASE Account
    BY <2>1, <2>2, ReleaseDeparts DEF Account, Login, SelectRegion, ExpireSession, RemoveSession
  <2>3. CASE Admission
    BY <2>1, <2>3, ReleaseDeparts, IssueDeparts DEF Admission, Prune, SetReady, CancelGame, Lapse
  <2>4. ASSUME NEW l \in Links, ChannelReturn(l) \/ CloseGame(l)
        PROVE  PresenceOf!Next \/ UNCHANGED OnlineNow
    <3>1. CASE ChannelReturn(l)
      BY <3>1, DisconnectDeparts DEF ChannelReturn, Serves, IInv, TypeOK
    <3>2. CASE CloseGame(l)
      BY <2>1, <3>2, ReleaseDeparts, DisconnectDeparts DEF CloseGame, IInv, TypeOK
    <3> QED BY <2>4, <3>1, <3>2
  <2>5. CASE Connection
    BY <2>1, <2>4, <2>5, HandoffEnters DEF Connection, Accept, ClaimSdk, AdmitSdk, Bootstrap, ProfileReady,
                                           SelectRole, CloseSdk
  <2>6. CASE Endpoint
    BY <2>1, <2>6 DEF Endpoint, BindUdp, UnbindUdp, LapseLease
  <2> QED BY <2>2, <2>3, <2>4, <2>5, <2>6 DEF Next
<1> QED BY <1>1, <1>2, AdmissionInvariant, PTL DEF Spec, OnePresence, PresenceOf!Spec
=============================================================================
