----------------------- MODULE SessionLifecycleProofs -----------------------
(***************************************************************************)
(* The safety properties of SessionLifecycle, for any number of sessions,   *)
(* requests, hosts and guests, any limit, and whatever may happen.          *)
(***************************************************************************)
EXTENDS SessionLifecycle, FiniteSetTheorems, TLAPS

-----------------------------------------------------------------------------
(* What the handlers share. *)

\* A request, the clock and the sweeper touch records only; nothing appears in the store but
\* under a number just drawn, and nothing at all in a store that closed.
LEMMA StoreSteps ==
  ASSUME TypeOK,
         \/ \E r \in Requests : CreateChecks(r) \/ \E s \in Sessions : CreateInserts(r, s)
         \/ \E s \in Sessions : Expire(s)
         \/ Sweep
  PROVE  /\ record' \subseteq used' /\ used \subseteq used' /\ used' \subseteq Sessions
         /\ expired' \subseteq used'
         /\ record' \subseteq record \cup (used' \ used)
         /\ mclosed' = mclosed /\ (mclosed => record' \subseteq record)
         /\ request' \in [Requests -> {"idle", "minting", "created", "refused"}]
         /\ UNCHANGED <<bridgeVars, hostVars, guestVars, downVars>>
<1>1. ASSUME NEW r \in Requests, CreateChecks(r)
      PROVE  /\ record' \subseteq record /\ UNCHANGED <<used, expired, mclosed>>
             /\ request' \in [Requests -> {"idle", "minting", "created", "refused"}]
             /\ UNCHANGED <<bridgeVars, hostVars, guestVars, downVars>>
  BY <1>1 DEF CreateChecks, TypeOK
<1>2. ASSUME NEW r \in Requests, NEW s \in Sessions, CreateInserts(r, s)
      PROVE  /\ used' = used \cup {s} /\ s \notin used /\ UNCHANGED <<expired, mclosed>>
             /\ record' \subseteq record \/ (~mclosed /\ record' \subseteq record \cup {s})
             /\ request' \in [Requests -> {"idle", "minting", "created", "refused"}]
             /\ UNCHANGED <<bridgeVars, hostVars, guestVars, downVars>>
  BY <1>2 DEF CreateInserts, TypeOK
<1>3. ASSUME NEW s \in Sessions, Expire(s)
      PROVE  /\ expired' \subseteq used /\ UNCHANGED <<record, used, mclosed, request>>
             /\ UNCHANGED <<bridgeVars, hostVars, guestVars, downVars>>
  BY <1>3 DEF Expire, TypeOK
<1>4. ASSUME Sweep
      PROVE  /\ record' \subseteq record /\ UNCHANGED <<used, expired, mclosed, request>>
             /\ UNCHANGED <<bridgeVars, hostVars, guestVars, downVars>>
  BY <1>4 DEF Sweep
<1>5. CASE \E r \in Requests : CreateChecks(r)
  BY <1>1, <1>5 DEF TypeOK
<1>6. CASE \E r \in Requests, s \in Sessions : CreateInserts(r, s)
  BY <1>2, <1>6 DEF TypeOK
<1>7. CASE \E s \in Sessions : Expire(s)
  BY <1>3, <1>7 DEF TypeOK
<1>8. CASE Sweep
  BY <1>4, <1>8 DEF TypeOK
<1>. QED BY <1>5, <1>6, <1>7, <1>8

\* A guest touches itself, and drops a record that expired.
LEMMA GuestSteps ==
  ASSUME TypeOK, Visits, NEW g \in Guests, GuestNext(g)
  PROVE  /\ record' \subseteq record /\ UNCHANGED <<used, expired, mclosed, request>>
         /\ UNCHANGED <<bridgeVars, hostVars, downVars>>
         /\ guest' \in [Guests -> {"idle", "looking", "checking", "acking", "acked",
                                   "attaching", "attached", "refused", "done"}]
         /\ target' \in [Guests -> Sessions \cup {None}]
         /\ joined' \in [Guests -> Hosts \cup {None}]
         /\ \A d \in Guests \ {g} :
              guest'[d] = guest[d] /\ target'[d] = target[d] /\ joined'[d] = joined[d]
         /\ guest'[g] = "looking" => target'[g] \in Sessions
         /\ guest'[g] \in {"checking", "acking", "acked", "attaching", "attached"} =>
              joined'[g] \in Hosts
         /\ guest'[g] = "attached" => joined'[g] = joined[g] /\ bridge[joined[g]] = "hosted"
<1>1. ASSUME NEW s \in Sessions, GuestAuthenticates(g, s)
      PROVE  /\ record' \subseteq record
             /\ UNCHANGED <<used, expired, mclosed, request, bridgeVars, hostVars, downVars, joined>>
             /\ \/ guest' = [guest EXCEPT ![g] = "looking"] /\ target' = [target EXCEPT ![g] = s]
                \/ guest' = [guest EXCEPT ![g] = "done"] /\ target' = [target EXCEPT ![g] = None]
  BY <1>1 DEF GuestAuthenticates, Looked
<1>2. CASE \E s \in Sessions : GuestAuthenticates(g, s)
  BY <1>1, <1>2 DEF TypeOK
<1>3. CASE GuestFindsBridge(g)
  <2>1. registry[target[g]] \in Hosts \cup {None}
    BY <1>3 DEF GuestFindsBridge, Visits, TypeOK
  <2>. QED BY <1>3, <2>1 DEF GuestFindsBridge, TypeOK, records
<1>4. CASE SshChecksEncryption(g) \/ GuestAcked(g) \/ GuestAckFails(g)
  BY <1>4 DEF SshChecksEncryption, GuestAcked, GuestAckFails, Visits, TypeOK, records
<1>5. CASE GuestAttaches(g)
  BY <1>5 DEF GuestAttaches, Visits, TypeOK, records
<1>6. CASE GuestLeaves(g)
  BY <1>6 DEF GuestLeaves, Visits, TypeOK, records
<1>. QED BY <1>2, <1>3, <1>4, <1>5, <1>6 DEF GuestNext

-----------------------------------------------------------------------------
(* The invariant, one group of actions after the other. *)

LEMMA StoreKeeps ==
  ASSUME IInv,
         \/ \E r \in Requests : CreateChecks(r) \/ \E s \in Sessions : CreateInserts(r, s)
         \/ \E s \in Sessions : Expire(s)
         \/ Sweep
  PROVE  IInv'
<1>1. /\ record' \subseteq used' /\ used \subseteq used' /\ used' \subseteq Sessions
      /\ expired' \subseteq used'
      /\ record' \subseteq record \cup (used' \ used)
      /\ mclosed' = mclosed /\ (mclosed => record' \subseteq record)
      /\ request' \in [Requests -> {"idle", "minting", "created", "refused"}]
      /\ UNCHANGED <<bridgeVars, hostVars, guestVars, downVars>>
  BY StoreSteps DEF IInv
<1>2. UNCHANGED <<registry, bridge, encrypted, stopped, host, hostOf, guest, target, joined,
                  shutdown, closing, evicting>>
  BY <1>1 DEF bridgeVars, hostVars, guestVars, downVars
<1>3. TypeOK'
  BY <1>1, <1>2 DEF IInv, TypeOK
<1>4. Tunnels'
  BY <1>1, <1>2 DEF IInv, Tunnels
<1>5. Visits'
  BY <1>2 DEF IInv, Visits
<1>6. RegistryMatches'
  BY <1>2 DEF IInv, RegistryMatches
<1>7. NobodyLeftOnClosed'
  BY <1>2 DEF IInv, NobodyLeftOnClosed
<1>8. FinishedSessionIsGone'
  BY <1>1, <1>2 DEF IInv, FinishedSessionIsGone, Tunnels
<1>. QED BY <1>3, <1>4, <1>5, <1>6, <1>7, <1>8 DEF IInv

LEMMA GuestKeeps ==
  ASSUME IInv, NEW g \in Guests, GuestNext(g)
  PROVE  IInv'
<1>1. /\ record' \subseteq record /\ UNCHANGED <<used, expired, mclosed, request>>
      /\ UNCHANGED <<bridgeVars, hostVars, downVars>>
      /\ guest' \in [Guests -> {"idle", "looking", "checking", "acking", "acked",
                                "attaching", "attached", "refused", "done"}]
      /\ target' \in [Guests -> Sessions \cup {None}]
      /\ joined' \in [Guests -> Hosts \cup {None}]
      /\ \A d \in Guests \ {g} :
           guest'[d] = guest[d] /\ target'[d] = target[d] /\ joined'[d] = joined[d]
      /\ guest'[g] = "looking" => target'[g] \in Sessions
      /\ guest'[g] \in {"checking", "acking", "acked", "attaching", "attached"} =>
           joined'[g] \in Hosts
      /\ guest'[g] = "attached" => joined'[g] = joined[g] /\ bridge[joined[g]] = "hosted"
  BY GuestSteps DEF IInv
<1>2. UNCHANGED <<registry, bridge, encrypted, stopped, host, hostOf, shutdown, closing, evicting>>
  BY <1>1 DEF bridgeVars, hostVars, downVars
<1>3. TypeOK'
  BY <1>1, <1>2 DEF IInv, TypeOK
<1>4. Tunnels'
  BY <1>1, <1>2 DEF IInv, Tunnels
<1>5. Visits'
  BY <1>1 DEF IInv, Visits
<1>6. RegistryMatches'
  BY <1>2 DEF IInv, RegistryMatches
<1>7. NobodyLeftOnClosed'
  BY <1>1, <1>2 DEF IInv, NobodyLeftOnClosed
<1>8. FinishedSessionIsGone'
  BY <1>1, <1>2 DEF IInv, FinishedSessionIsGone
<1>. QED BY <1>3, <1>4, <1>5, <1>6, <1>7, <1>8 DEF IInv

\* Closing a bridge, by its tunnel or by CloseAll.
LEMMA CloseStops ==
  ASSUME IInv, NEW h \in Hosts, Close(h), UNCHANGED guestVars
  PROVE  /\ bridge' \in [Hosts -> {"none", "open", "hosted", "closed"}]
         /\ bridge'[h] = "closed" /\ \A x \in Hosts \ {h} : bridge'[x] = bridge[x]
         /\ stopped' \subseteq Guests
         /\ NobodyLeftOnClosed'
<1>1. bridge' = [bridge EXCEPT ![h] = "closed"] /\ stopped' = stopped \cup Attached(h)
  BY DEF Close
<1>2. /\ bridge' \in [Hosts -> {"none", "open", "hosted", "closed"}]
      /\ bridge'[h] = "closed" /\ \A x \in Hosts \ {h} : bridge'[x] = bridge[x]
  BY <1>1 DEF IInv, TypeOK
<1>3. stopped' \subseteq Guests
  BY <1>1 DEF IInv, TypeOK, Attached
<1>4. ASSUME NEW g \in Guests, guest'[g] = "attached", bridge'[joined'[g]] = "closed"
      PROVE  g \in stopped'
  <2>1. guest[g] = "attached" /\ joined'[g] = joined[g] /\ joined[g] \in Hosts
    BY <1>4 DEF guestVars, IInv, Visits
  <2>2. CASE joined[g] = h
    BY <1>1, <2>1, <2>2 DEF Attached
  <2>3. CASE joined[g] # h
    BY <1>1, <1>2, <1>4, <2>1, <2>3 DEF IInv, NobodyLeftOnClosed
  <2>. QED BY <2>2, <2>3
<1>. QED BY <1>2, <1>3, <1>4 DEF NobodyLeftOnClosed

\* Taking a bridge off the registry.
LEMMA RemoveUnlists ==
  ASSUME IInv, NEW h \in Hosts, hostOf[h] \in Sessions, Remove(h)
  PROVE  /\ registry' \in [Sessions -> Hosts \cup {None}]
         /\ \A s \in Sessions : registry'[s] = IF registry[s] = h THEN None ELSE registry[s]
<1>1. registry' = [registry EXCEPT ![hostOf[h]] = IF @ = h THEN None ELSE @]
  BY DEF Remove
<1>2. h # None
  BY LifecycleAssumption
<1>3. \A s \in Sessions : registry[s] = h => s = hostOf[h]
  BY <1>2 DEF IInv, Tunnels
<1>. QED BY <1>1, <1>3 DEF IInv, TypeOK

\* A tunnel that authenticates: it has no bridge yet.
LEMMA HostAuthenticatesKeeps ==
  ASSUME IInv, NEW h \in Hosts, NEW s \in Sessions, HostAuthenticates(h, s)
  PROVE  IInv'
<1>1. /\ host[h] = "idle" /\ s \in used /\ record' \subseteq record
      /\ \/ host' = [host EXCEPT ![h] = "opening"] /\ hostOf' = [hostOf EXCEPT ![h] = s]
         \/ host' = [host EXCEPT ![h] = "done"] /\ hostOf' = [hostOf EXCEPT ![h] = None]
      /\ UNCHANGED <<used, expired, mclosed, request, registry, bridge, encrypted, stopped,
                     guest, target, joined, shutdown, closing, evicting>>
  BY DEF HostAuthenticates, Looked, bridgeVars, guestVars, downVars
<1>2. bridge[h] = "none"
  BY <1>1 DEF IInv, Tunnels
<1>3. /\ host' \in [Hosts -> {"idle", "opening", "acking", "attaching", "serving", "closing",
                              "removing", "deleting", "done"}]
      /\ hostOf' \in [Hosts -> Sessions \cup {None}]
      /\ \A x \in Hosts \ {h} : host'[x] = host[x] /\ hostOf'[x] = hostOf[x]
      /\ (host'[h] = "opening" /\ hostOf'[h] = s) \/ (host'[h] = "done" /\ hostOf'[h] = None)
  BY <1>1 DEF IInv, TypeOK
<1>4. TypeOK'
  BY <1>1, <1>3 DEF IInv, TypeOK
<1>5. \A t \in Sessions : registry[t] # None => registry[t] \in Hosts \ {h}
  BY <1>2 DEF IInv, TypeOK, Tunnels
<1>6. Tunnels'
  <2>1. \A x \in Hosts :
          /\ host'[x] \notin {"idle", "done"} \/ bridge'[x] # "none" => hostOf'[x] \in used'
          /\ host'[x] \in {"idle", "opening"} => bridge'[x] = "none"
          /\ host'[x] \in {"acking", "attaching", "serving", "closing"} => bridge'[x] # "none"
          /\ host'[x] \in {"removing", "deleting"} => bridge'[x] = "closed"
    BY <1>1, <1>2, <1>3 DEF IInv, Tunnels
  <2>2. \A t \in Sessions : registry'[t] # None =>
          hostOf'[registry'[t]] = t /\ bridge'[registry'[t]] # "none"
    BY <1>1, <1>3, <1>5 DEF IInv, Tunnels
  <2>. QED BY <1>1, <2>1, <2>2 DEF IInv, Tunnels
<1>7. Visits' /\ NobodyLeftOnClosed'
  BY <1>1 DEF IInv, Visits, NobodyLeftOnClosed
<1>8. RegistryMatches'
  <2>1. \A x \in Hosts : bridge'[x] \in {"open", "hosted"} =>
          registry'[hostOf'[x]] = x /\ host'[x] \in {"acking", "attaching", "serving", "closing"}
    BY <1>1, <1>2, <1>3 DEF IInv, RegistryMatches
  <2>2. \A t \in Sessions : registry'[t] # None =>
          \/ bridge'[registry'[t]] # "closed" \/ host'[registry'[t]] = "removing"
          \/ evicting' = registry'[t]
    BY <1>1, <1>3, <1>5 DEF IInv, RegistryMatches
  <2>. QED BY <2>1, <2>2 DEF RegistryMatches
<1>9. FinishedSessionIsGone'
  BY <1>1, <1>2, <1>3 DEF IInv, FinishedSessionIsGone
<1>. QED BY <1>4, <1>6, <1>7, <1>8, <1>9 DEF IInv

LEMMA HostOpensKeeps ==
  ASSUME IInv, NEW h \in Hosts, HostOpens(h)
  PROVE  IInv'
<1>. DEFINE s == hostOf[h]
<1>1. /\ host[h] = "opening"
      /\ UNCHANGED <<record, used, expired, mclosed, request, encrypted, stopped, hostOf,
                     guest, target, joined, shutdown, closing, evicting>>
  BY DEF HostOpens, records, guestVars, downVars
<1>2. bridge[h] = "none" /\ s \in used /\ s \in Sessions /\ h # None
  BY <1>1, LifecycleAssumption DEF IInv, Tunnels, TypeOK
<1>3. \A t \in Sessions : registry[t] # None => registry[t] \in Hosts \ {h}
  BY <1>2 DEF IInv, TypeOK, Tunnels
<1>4. \A x \in Hosts : bridge[x] \in {"open", "hosted"} => hostOf[x] \in Sessions
  BY DEF IInv, Tunnels, TypeOK
<1>5. CASE registry[s] = None
  <2>1. /\ registry' = [registry EXCEPT ![s] = h] /\ bridge' = [bridge EXCEPT ![h] = "open"]
        /\ host' = [host EXCEPT ![h] = "acking"]
    BY <1>5 DEF HostOpens
  <2>2. TypeOK'
    BY <1>1, <1>2, <2>1 DEF IInv, TypeOK
  <2>3. /\ registry'[s] = h /\ \A t \in Sessions \ {s} : registry'[t] = registry[t]
        /\ bridge'[h] = "open" /\ host'[h] = "acking"
        /\ \A x \in Hosts \ {h} : bridge'[x] = bridge[x] /\ host'[x] = host[x]
    BY <1>2, <2>1 DEF IInv, TypeOK
  <2>4. Tunnels'
    <3>1. \A x \in Hosts :
            /\ host'[x] \notin {"idle", "done"} \/ bridge'[x] # "none" => hostOf'[x] \in used'
            /\ host'[x] \in {"idle", "opening"} => bridge'[x] = "none"
            /\ host'[x] \in {"acking", "attaching", "serving", "closing"} => bridge'[x] # "none"
            /\ host'[x] \in {"removing", "deleting"} => bridge'[x] = "closed"
      BY <1>1, <1>2, <2>3 DEF IInv, Tunnels
    <3>2. \A t \in Sessions : registry'[t] # None =>
            hostOf'[registry'[t]] = t /\ bridge'[registry'[t]] # "none"
      BY <1>1, <1>3, <2>3 DEF IInv, Tunnels
    <3>3. \A x \in closing' : bridge'[x] # "none"
      BY <1>1, <2>3 DEF IInv, Tunnels, TypeOK
    <3>4. evicting' # None => bridge'[evicting'] = "closed"
      BY <1>1, <1>2, <2>3 DEF IInv, Tunnels, TypeOK
    <3>. QED BY <3>1, <3>2, <3>3, <3>4 DEF Tunnels
  <2>5. RegistryMatches'
    <3>1. \A x \in Hosts : bridge'[x] \in {"open", "hosted"} =>
            registry'[hostOf'[x]] = x /\ host'[x] \in {"acking", "attaching", "serving", "closing"}
      <4>. SUFFICES ASSUME NEW x \in Hosts, bridge'[x] \in {"open", "hosted"}
                    PROVE  registry'[hostOf'[x]] = x
                           /\ host'[x] \in {"acking", "attaching", "serving", "closing"}
        OBVIOUS
      <4>1. CASE x = h
        BY <1>1, <2>3, <4>1
      <4>2. CASE x # h
        <5>1. /\ registry[hostOf[x]] = x /\ hostOf[x] \in Sessions /\ x # None
              /\ host[x] \in {"acking", "attaching", "serving", "closing"}
          BY <1>4, <2>3, <4>2, LifecycleAssumption DEF IInv, RegistryMatches
        <5>. QED BY <1>1, <1>5, <2>3, <4>2, <5>1
      <4>. QED BY <4>1, <4>2
    <3>2. \A t \in Sessions : registry'[t] # None =>
            \/ bridge'[registry'[t]] # "closed" \/ host'[registry'[t]] = "removing"
            \/ evicting' = registry'[t]
      BY <1>1, <1>3, <2>3 DEF IInv, RegistryMatches
    <3>. QED BY <3>1, <3>2 DEF RegistryMatches
  <2>6. Visits' /\ NobodyLeftOnClosed'
    <3>1. \A x \in Hosts : bridge'[x] = "closed" => bridge[x] = "closed"
      BY <2>3
    <3>. QED BY <1>1, <3>1 DEF IInv, Visits, NobodyLeftOnClosed
  <2>7. FinishedSessionIsGone'
    BY <1>1, <2>3 DEF IInv, FinishedSessionIsGone
  <2>. QED BY <2>2, <2>4, <2>5, <2>6, <2>7 DEF IInv
<1>6. CASE registry[s] # None
  <2>1. host' = [host EXCEPT ![h] = "done"] /\ UNCHANGED <<registry, bridge>>
    BY <1>6 DEF HostOpens
  <2>2. TypeOK'
    BY <1>1, <2>1 DEF IInv, TypeOK
  <2>3. host'[h] = "done" /\ \A x \in Hosts \ {h} : host'[x] = host[x]
    BY <2>1 DEF IInv, TypeOK
  <2>4. Tunnels'
    BY <1>1, <1>2, <2>1, <2>3 DEF IInv, Tunnels
  <2>5. RegistryMatches'
    <3>1. \A x \in Hosts : bridge'[x] \in {"open", "hosted"} =>
            registry'[hostOf'[x]] = x /\ host'[x] \in {"acking", "attaching", "serving", "closing"}
      BY <1>1, <1>2, <2>1, <2>3 DEF IInv, RegistryMatches
    <3>2. \A t \in Sessions : registry'[t] # None =>
            \/ bridge'[registry'[t]] # "closed" \/ host'[registry'[t]] = "removing"
            \/ evicting' = registry'[t]
      BY <1>1, <1>3, <2>1, <2>3 DEF IInv, RegistryMatches
    <3>. QED BY <3>1, <3>2 DEF RegistryMatches
  <2>6. Visits' /\ NobodyLeftOnClosed'
    BY <1>1, <2>1 DEF IInv, Visits, NobodyLeftOnClosed
  <2>7. FinishedSessionIsGone'
    BY <1>1, <1>2, <2>1, <2>3 DEF IInv, FinishedSessionIsGone
  <2>. QED BY <2>2, <2>4, <2>5, <2>6, <2>7 DEF IInv
<1>. QED BY <1>5, <1>6

\* A tunnel that goes on while its bridge stays as it is.
LEMMA HostMoves ==
  ASSUME IInv, NEW h \in Hosts, host[h] \in {"acking", "attaching", "serving", "closing"},
         NEW p \in {"acking", "attaching", "serving", "closing", "deleting"},
         p = "deleting" => bridge[h] = "closed",
         host' = [host EXCEPT ![h] = p],
         UNCHANGED <<records, bridgeVars, hostOf, guestVars, downVars>>
  PROVE  IInv'
<1>1. UNCHANGED <<record, used, expired, mclosed, request, registry, bridge, encrypted, stopped,
                  hostOf, guest, target, joined, shutdown, closing, evicting>>
  BY DEF records, bridgeVars, guestVars, downVars
<1>2. host'[h] = p /\ \A x \in Hosts \ {h} : host'[x] = host[x]
  BY DEF IInv, TypeOK
<1>3. TypeOK'
  BY <1>1 DEF IInv, TypeOK
<1>4. Tunnels'
  <2>1. \A x \in Hosts :
          /\ host'[x] \notin {"idle", "done"} \/ bridge'[x] # "none" => hostOf'[x] \in used'
          /\ host'[x] \in {"idle", "opening"} => bridge'[x] = "none"
          /\ host'[x] \in {"acking", "attaching", "serving", "closing"} => bridge'[x] # "none"
          /\ host'[x] \in {"removing", "deleting"} => bridge'[x] = "closed"
    BY <1>1, <1>2 DEF IInv, Tunnels
  <2>. QED BY <1>1, <2>1 DEF IInv, Tunnels
<1>5. Visits' /\ NobodyLeftOnClosed'
  BY <1>1 DEF IInv, Visits, NobodyLeftOnClosed
<1>6. RegistryMatches'
  <2>1. \A s \in Sessions : registry[s] # None => registry[s] \in Hosts
    BY DEF IInv, TypeOK
  <2>. QED BY <1>1, <1>2, <2>1 DEF IInv, RegistryMatches
<1>7. FinishedSessionIsGone'
  BY <1>1, <1>2 DEF IInv, FinishedSessionIsGone
<1>. QED BY <1>3, <1>4, <1>5, <1>6, <1>7 DEF IInv

LEMMA HostAttachesKeeps ==
  ASSUME IInv, NEW h \in Hosts, HostAttaches(h)
  PROVE  IInv'
<1>1. CASE bridge[h] = "closed"
  <2>1. host[h] = "attaching" /\ host' = [host EXCEPT ![h] = "deleting"]
        /\ UNCHANGED <<records, bridgeVars, hostOf, guestVars, downVars>>
    BY <1>1 DEF HostAttaches, bridgeVars
  <2>. QED BY <1>1, <2>1, HostMoves
<1>2. CASE bridge[h] # "closed"
  <2>1. /\ host[h] = "attaching" /\ host' = [host EXCEPT ![h] = "serving"]
        /\ bridge' = [bridge EXCEPT ![h] = "hosted"]
        /\ encrypted' \subseteq encrypted \cup (Encrypting \cap {h})
        /\ UNCHANGED <<record, used, expired, mclosed, request, registry, stopped, hostOf,
                       guest, target, joined, shutdown, closing, evicting>>
    BY <1>2 DEF HostAttaches, records, guestVars, downVars
  <2>2. bridge[h] \in {"open", "hosted"}
    BY <1>2, <2>1 DEF IInv, Tunnels, TypeOK
  <2>3. /\ host'[h] = "serving" /\ bridge'[h] = "hosted"
        /\ \A x \in Hosts \ {h} : host'[x] = host[x] /\ bridge'[x] = bridge[x]
    BY <2>1 DEF IInv, TypeOK
  <2>4. TypeOK'
    BY <2>1 DEF IInv, TypeOK
  <2>5. \A s \in Sessions : registry[s] # None => registry[s] \in Hosts
    BY DEF IInv, TypeOK
  <2>6. Tunnels'
    <3>1. \A x \in Hosts :
            /\ host'[x] \notin {"idle", "done"} \/ bridge'[x] # "none" => hostOf'[x] \in used'
            /\ host'[x] \in {"idle", "opening"} => bridge'[x] = "none"
            /\ host'[x] \in {"acking", "attaching", "serving", "closing"} => bridge'[x] # "none"
            /\ host'[x] \in {"removing", "deleting"} => bridge'[x] = "closed"
      BY <2>1, <2>3 DEF IInv, Tunnels
    <3>2. \A s \in Sessions : registry'[s] # None =>
            hostOf'[registry'[s]] = s /\ bridge'[registry'[s]] # "none"
      BY <2>1, <2>3, <2>5 DEF IInv, Tunnels
    <3>3. \A x \in closing' : bridge'[x] # "none"
      BY <2>1, <2>3 DEF IInv, Tunnels, TypeOK
    <3>4. evicting' # None => bridge'[evicting'] = "closed"
      BY <1>2, <2>1, <2>3 DEF IInv, Tunnels, TypeOK
    <3>. QED BY <3>1, <3>2, <3>3, <3>4 DEF Tunnels
  <2>7. Visits'
    BY <2>1 DEF IInv, Visits
  <2>8. NobodyLeftOnClosed'
    <3>1. \A x \in Hosts : bridge'[x] = "closed" => bridge[x] = "closed"
      BY <2>3
    <3>. QED BY <2>1, <3>1 DEF IInv, Visits, NobodyLeftOnClosed
  <2>9. RegistryMatches'
    <3>1. \A x \in Hosts : bridge'[x] \in {"open", "hosted"} =>
            registry'[hostOf'[x]] = x /\ host'[x] \in {"acking", "attaching", "serving", "closing"}
      BY <2>1, <2>2, <2>3 DEF IInv, RegistryMatches
    <3>2. \A s \in Sessions : registry'[s] # None =>
            \/ bridge'[registry'[s]] # "closed" \/ host'[registry'[s]] = "removing"
            \/ evicting' = registry'[s]
      BY <2>1, <2>3, <2>5 DEF IInv, RegistryMatches
    <3>. QED BY <3>1, <3>2 DEF RegistryMatches
  <2>10. FinishedSessionIsGone'
    BY <2>1, <2>3 DEF IInv, FinishedSessionIsGone
  <2>. QED BY <2>4, <2>6, <2>7, <2>8, <2>9, <2>10 DEF IInv
<1>. QED BY <1>1, <1>2

\* A bridge that is closed has somebody who will remove it: its tunnel, or CloseAll.
LEMMA ClosingKeeps ==
  ASSUME IInv, NEW h \in Hosts, bridge[h] \in {"open", "hosted"}, Close(h),
         \/ /\ host[h] = "closing" /\ host' = [host EXCEPT ![h] = "removing"]
            /\ UNCHANGED <<evicting, closing>>
         \/ /\ evicting = None /\ evicting' = h /\ closing' \subseteq closing
            /\ UNCHANGED host,
         UNCHANGED <<records, registry, encrypted, hostOf, guestVars, shutdown>>
  PROVE  IInv'
<1>1. UNCHANGED <<record, used, expired, mclosed, request, registry, encrypted, hostOf, guest,
                  target, joined, shutdown>>
  BY DEF records, guestVars
<1>2. /\ bridge' \in [Hosts -> {"none", "open", "hosted", "closed"}]
      /\ bridge'[h] = "closed" /\ \A x \in Hosts \ {h} : bridge'[x] = bridge[x]
      /\ stopped' \subseteq Guests /\ NobodyLeftOnClosed'
  BY CloseStops
<1>3. /\ \A x \in Hosts \ {h} : host'[x] = host[x]
      /\ \/ host'[h] = "removing" /\ host[h] = "closing" /\ evicting' = evicting
         \/ host'[h] = host[h] /\ evicting' = h /\ evicting = None
      /\ closing' \subseteq closing
      /\ host' \in [Hosts -> {"idle", "opening", "acking", "attaching", "serving", "closing",
                              "removing", "deleting", "done"}]
  BY DEF IInv, TypeOK
<1>4. /\ host[h] \in {"acking", "attaching", "serving", "closing"}
      /\ \A s \in Sessions : registry[s] # None => registry[s] \in Hosts
  BY DEF IInv, RegistryMatches, TypeOK
<1>5. TypeOK'
  BY <1>1, <1>2, <1>3 DEF IInv, TypeOK
<1>6. Tunnels'
  <2>1. \A x \in Hosts :
          /\ host'[x] \notin {"idle", "done"} \/ bridge'[x] # "none" => hostOf'[x] \in used'
          /\ host'[x] \in {"idle", "opening"} => bridge'[x] = "none"
          /\ host'[x] \in {"acking", "attaching", "serving", "closing"} => bridge'[x] # "none"
          /\ host'[x] \in {"removing", "deleting"} => bridge'[x] = "closed"
    BY <1>1, <1>2, <1>3, <1>4 DEF IInv, Tunnels
  <2>2. \A s \in Sessions : registry'[s] # None =>
          hostOf'[registry'[s]] = s /\ bridge'[registry'[s]] # "none"
    BY <1>1, <1>2, <1>4 DEF IInv, Tunnels
  <2>3. \A x \in closing' : bridge'[x] # "none"
    BY <1>2, <1>3 DEF IInv, Tunnels, TypeOK
  <2>4. evicting' # None => bridge'[evicting'] = "closed"
    BY <1>2, <1>3 DEF IInv, Tunnels, TypeOK
  <2>. QED BY <2>1, <2>2, <2>3, <2>4 DEF Tunnels
<1>7. Visits'
  BY <1>1 DEF IInv, Visits
<1>8. RegistryMatches'
  <2>1. \A x \in Hosts : bridge'[x] \in {"open", "hosted"} =>
          registry'[hostOf'[x]] = x /\ host'[x] \in {"acking", "attaching", "serving", "closing"}
    BY <1>1, <1>2, <1>3 DEF IInv, RegistryMatches
  <2>2. \A s \in Sessions : registry'[s] # None =>
          \/ bridge'[registry'[s]] # "closed" \/ host'[registry'[s]] = "removing"
          \/ evicting' = registry'[s]
    BY <1>1, <1>2, <1>3, <1>4 DEF IInv, RegistryMatches
  <2>. QED BY <2>1, <2>2 DEF RegistryMatches
<1>9. FinishedSessionIsGone'
  BY <1>1, <1>2, <1>3, <1>4 DEF IInv, FinishedSessionIsGone
<1>. QED BY <1>2, <1>5, <1>6, <1>7, <1>8, <1>9 DEF IInv

\* And whoever that is takes it off the registry.
LEMMA RemovingKeeps ==
  ASSUME IInv, NEW h \in Hosts, Remove(h), bridge[h] = "closed",
         \/ host[h] = "removing" /\ host' = [host EXCEPT ![h] = "deleting"] /\ UNCHANGED evicting
         \/ evicting = h /\ evicting' = None /\ UNCHANGED host,
         UNCHANGED <<records, bridge, encrypted, stopped, hostOf, guestVars, shutdown, closing>>
  PROVE  IInv'
<1>1. UNCHANGED <<record, used, expired, mclosed, request, bridge, encrypted, stopped, hostOf,
                  guest, target, joined, shutdown, closing>>
  BY DEF records, guestVars
<1>2. hostOf[h] \in Sessions /\ h # None
  BY LifecycleAssumption DEF IInv, Tunnels, TypeOK
<1>3. /\ registry' \in [Sessions -> Hosts \cup {None}]
      /\ \A s \in Sessions : registry'[s] = IF registry[s] = h THEN None ELSE registry[s]
  BY <1>2, RemoveUnlists
<1>4. /\ \A x \in Hosts \ {h} : host'[x] = host[x]
      /\ \/ host'[h] = "deleting" /\ host[h] = "removing" /\ evicting' = evicting
         \/ host'[h] = host[h] /\ evicting = h /\ evicting' = None
      /\ host' \in [Hosts -> {"idle", "opening", "acking", "attaching", "serving", "closing",
                              "removing", "deleting", "done"}]
  BY DEF IInv, TypeOK
<1>5. \A s \in Sessions : registry'[s] # None =>
        registry'[s] = registry[s] /\ registry[s] \in Hosts \ {h}
  BY <1>3 DEF IInv, TypeOK
<1>6. TypeOK'
  BY <1>1, <1>3, <1>4 DEF IInv, TypeOK
<1>7. Tunnels'
  <2>1. \A x \in Hosts :
          /\ host'[x] \notin {"idle", "done"} \/ bridge'[x] # "none" => hostOf'[x] \in used'
          /\ host'[x] \in {"idle", "opening"} => bridge'[x] = "none"
          /\ host'[x] \in {"acking", "attaching", "serving", "closing"} => bridge'[x] # "none"
          /\ host'[x] \in {"removing", "deleting"} => bridge'[x] = "closed"
    BY <1>1, <1>4 DEF IInv, Tunnels
  <2>2. \A s \in Sessions : registry'[s] # None =>
          hostOf'[registry'[s]] = s /\ bridge'[registry'[s]] # "none"
    BY <1>1, <1>5 DEF IInv, Tunnels
  <2>3. \A x \in closing' : bridge'[x] # "none"
    BY <1>1 DEF IInv, Tunnels
  <2>4. evicting' # None => bridge'[evicting'] = "closed"
    BY <1>1, <1>4 DEF IInv, Tunnels
  <2>. QED BY <2>1, <2>2, <2>3, <2>4 DEF Tunnels
<1>8. Visits' /\ NobodyLeftOnClosed'
  BY <1>1 DEF IInv, Visits, NobodyLeftOnClosed
<1>9. RegistryMatches'
  <2>1. \A x \in Hosts : bridge'[x] \in {"open", "hosted"} =>
          registry'[hostOf'[x]] = x /\ host'[x] \in {"acking", "attaching", "serving", "closing"}
    <3>. SUFFICES ASSUME NEW x \in Hosts, bridge[x] \in {"open", "hosted"}
                  PROVE  registry'[hostOf[x]] = x
                         /\ host'[x] \in {"acking", "attaching", "serving", "closing"}
      BY <1>1
    <3>1. /\ x # h /\ registry[hostOf[x]] = x /\ hostOf[x] \in Sessions
          /\ host[x] \in {"acking", "attaching", "serving", "closing"}
      BY DEF IInv, RegistryMatches, Tunnels, TypeOK
    <3>. QED BY <1>3, <1>4, <3>1
  <2>2. \A s \in Sessions : registry'[s] # None =>
          \/ bridge'[registry'[s]] # "closed" \/ host'[registry'[s]] = "removing"
          \/ evicting' = registry'[s]
    BY <1>1, <1>4, <1>5 DEF IInv, RegistryMatches
  <2>. QED BY <2>1, <2>2 DEF RegistryMatches
<1>10. FinishedSessionIsGone'
  BY <1>1, <1>4 DEF IInv, FinishedSessionIsGone
<1>. QED BY <1>6, <1>7, <1>8, <1>9, <1>10 DEF IInv

LEMMA HostDeletesKeeps ==
  ASSUME IInv, NEW h \in Hosts, HostDeletes(h)
  PROVE  IInv'
<1>1. /\ host[h] = "deleting" /\ host' = [host EXCEPT ![h] = "done"]
      /\ record' = record \ {hostOf[h]}
      /\ UNCHANGED <<used, expired, mclosed, request, registry, bridge, encrypted, stopped,
                     hostOf, guest, target, joined, shutdown, closing, evicting>>
  BY DEF HostDeletes, bridgeVars, guestVars, downVars
<1>2. /\ host'[h] = "done" /\ \A x \in Hosts \ {h} : host'[x] = host[x]
      /\ \A s \in Sessions : registry[s] # None => registry[s] \in Hosts
      /\ bridge[h] = "closed"
  BY <1>1 DEF IInv, TypeOK, Tunnels
<1>3. TypeOK'
  BY <1>1 DEF IInv, TypeOK
<1>4. Tunnels'
  <2>1. \A x \in Hosts :
          /\ host'[x] \notin {"idle", "done"} \/ bridge'[x] # "none" => hostOf'[x] \in used'
          /\ host'[x] \in {"idle", "opening"} => bridge'[x] = "none"
          /\ host'[x] \in {"acking", "attaching", "serving", "closing"} => bridge'[x] # "none"
          /\ host'[x] \in {"removing", "deleting"} => bridge'[x] = "closed"
    BY <1>1, <1>2 DEF IInv, Tunnels
  <2>. QED BY <1>1, <2>1 DEF IInv, Tunnels
<1>5. Visits' /\ NobodyLeftOnClosed'
  BY <1>1 DEF IInv, Visits, NobodyLeftOnClosed
<1>6. RegistryMatches'
  BY <1>1, <1>2 DEF IInv, RegistryMatches
<1>7. FinishedSessionIsGone'
  BY <1>1, <1>2 DEF IInv, FinishedSessionIsGone
<1>. QED BY <1>3, <1>4, <1>5, <1>6, <1>7 DEF IInv

LEMMA HostKeeps ==
  ASSUME IInv, NEW h \in Hosts, HostNext(h)
  PROVE  IInv'
<1>1. ASSUME HostAcked(h) \/ HostAckFails(h) \/ HostLeaves(h) PROVE IInv'
  BY <1>1, HostMoves DEF HostAcked, HostAckFails, HostLeaves
<1>2. ASSUME HostCloses(h) PROVE IInv'
  <2>1. host[h] = "closing"
        /\ UNCHANGED <<records, registry, encrypted, hostOf, guestVars, downVars>>
    BY <1>2 DEF HostCloses
  <2>2. CASE bridge[h] = "closed"
    <3>1. host' = [host EXCEPT ![h] = "deleting"] /\ UNCHANGED bridgeVars
      BY <1>2, <2>2 DEF HostCloses, bridgeVars
    <3>. QED BY <2>1, <2>2, <3>1, HostMoves
  <2>3. CASE bridge[h] # "closed"
    <3>1. bridge[h] \in {"open", "hosted"}
      BY <2>1, <2>3 DEF IInv, Tunnels, TypeOK
    <3>2. host' = [host EXCEPT ![h] = "removing"] /\ Close(h)
      BY <1>2, <2>3 DEF HostCloses
    <3>. QED BY <2>1, <3>1, <3>2, ClosingKeeps DEF downVars
  <2>. QED BY <2>2, <2>3
<1>3. ASSUME HostRemoves(h) PROVE IInv'
  <2>1. bridge[h] = "closed"
    BY <1>3 DEF HostRemoves, IInv, Tunnels
  <2>. QED BY <1>3, <2>1, RemovingKeeps DEF HostRemoves, downVars
<1>. QED BY <1>1, <1>2, <1>3, HostAuthenticatesKeeps, HostOpensKeeps, HostAttachesKeeps,
            HostDeletesKeeps DEF HostNext

LEMMA ShutdownKeeps ==
  ASSUME IInv,
         \/ ShutdownStarts \/ (\E h \in Hosts : ShutdownCloses(h)) \/ ShutdownRemoves
         \/ ShutdownCancels \/ ShutdownClosesManager
  PROVE  IInv'
<1>1. ASSUME NEW D \in SUBSET Hosts, \A h \in D : bridge[h] # "none",
             NEW d \in {"up", "closing", "cancelled", "down"},
             shutdown' = d, closing' = D,
             UNCHANGED <<records, bridgeVars, hostVars, guestVars, evicting>>
      PROVE  IInv'
  <2>1. UNCHANGED <<record, used, expired, mclosed, request, registry, bridge, encrypted, stopped,
                    host, hostOf, guest, target, joined, evicting>>
    BY <1>1 DEF records, bridgeVars, hostVars, guestVars
  <2>2. TypeOK'
    BY <1>1, <2>1 DEF IInv, TypeOK
  <2>3. Tunnels'
    BY <1>1, <2>1 DEF IInv, Tunnels
  <2>. QED BY <2>1, <2>2, <2>3 DEF IInv, Visits, RegistryMatches, NobodyLeftOnClosed,
                                   FinishedSessionIsGone
<1>2. ASSUME ShutdownStarts PROVE IInv'
  <2>. DEFINE D == {registry[s] : s \in Sessions} \ {None}
  <2>1. D \subseteq Hosts /\ \A h \in D : bridge[h] # "none"
    BY DEF IInv, TypeOK, Tunnels
  <2>2. /\ shutdown' = "closing" /\ closing' = D
        /\ UNCHANGED <<records, bridgeVars, hostVars, guestVars, evicting>>
    BY <1>2 DEF ShutdownStarts
  <2>. HIDE DEF D
  <2>. QED BY <1>1, <2>1, <2>2
<1>3. ASSUME NEW h \in Hosts, ShutdownCloses(h) PROVE IInv'
  <2>1. /\ shutdown = "closing" /\ evicting = None /\ h \in closing /\ closing' = closing \ {h}
        /\ UNCHANGED <<records, registry, encrypted, hostVars, guestVars, shutdown>>
    BY <1>3 DEF ShutdownCloses
  <2>2. bridge[h] # "none"
    BY <2>1 DEF IInv, Tunnels
  <2>3. CASE bridge[h] = "closed"
    <3>1. UNCHANGED <<bridgeVars, evicting>>
      BY <1>3, <2>1, <2>3 DEF ShutdownCloses, bridgeVars
    <3>2. closing' \in SUBSET Hosts /\ \A x \in closing' : bridge[x] # "none"
      BY <2>1 DEF IInv, TypeOK, Tunnels
    <3>. QED BY <1>1, <2>1, <3>1, <3>2
  <2>4. CASE bridge[h] # "closed"
    <3>1. bridge[h] \in {"open", "hosted"}
      BY <2>2, <2>4 DEF IInv, TypeOK
    <3>2. Close(h) /\ evicting' = h
      BY <1>3, <2>4 DEF ShutdownCloses
    <3>. QED BY <2>1, <3>1, <3>2, ClosingKeeps DEF hostVars
  <2>. QED BY <2>3, <2>4
<1>4. ASSUME ShutdownRemoves PROVE IInv'
  <2>1. evicting \in Hosts /\ bridge[evicting] = "closed"
    BY <1>4 DEF ShutdownRemoves, IInv, TypeOK, Tunnels
  <2>. QED BY <1>4, <2>1, RemovingKeeps DEF ShutdownRemoves, hostVars
<1>5. ASSUME ShutdownCancels PROVE IInv'
  <2>1. closing \in SUBSET Hosts /\ \A x \in closing : bridge[x] # "none"
    BY DEF IInv, TypeOK, Tunnels
  <2>. QED BY <1>1, <1>5, <2>1 DEF ShutdownCancels
<1>6. ASSUME ShutdownClosesManager PROVE IInv'
  <2>1. /\ shutdown' = "down" /\ mclosed' = TRUE /\ record' = {}
        /\ UNCHANGED <<used, expired, request, registry, bridge, encrypted, stopped, host, hostOf,
                       guest, target, joined, closing, evicting>>
    BY <1>6 DEF ShutdownClosesManager, bridgeVars, hostVars, guestVars
  <2>2. TypeOK'
    BY <2>1 DEF IInv, TypeOK
  <2>. QED BY <2>1, <2>2 DEF IInv, Tunnels, Visits, RegistryMatches, NobodyLeftOnClosed,
                             FinishedSessionIsGone
<1>. QED BY <1>2, <1>3, <1>4, <1>5, <1>6

-----------------------------------------------------------------------------
(* The limit. *)

\* Removing records keeps the store within its limit.
LEMMA FewerHeld ==
  ASSUME Held, MaxSessions \in Nat, record' \subseteq record
  PROVE  Held'
<1>1. IsFiniteSet(record') /\ Cardinality(record') <= Cardinality(record)
      /\ Cardinality(record) \in Nat /\ Cardinality(record') \in Nat
  BY FS_Subset, FS_CardinalityType DEF Held
<1>. QED BY <1>1 DEF Held, CapHolds

\* Create looks again, under the lock it inserts under.
LEMMA InsertingHeld ==
  ASSUME Held, NEW r \in Requests, NEW s \in Sessions, CreateInserts(r, s)
  PROVE  Held'
<1>. DEFINE kept == IF Full(record) /\ ~mclosed THEN record \ expired ELSE record
<1>1. MaxSessions \in Nat
  BY LifecycleAssumption
<1>2. IsFiniteSet(kept) /\ Cardinality(kept) \in Nat
  BY FS_Subset, FS_CardinalityType DEF Held
<1>3. CASE record' = kept
  BY <1>1, <1>3, FewerHeld
<1>4. CASE record' = kept \cup {s} /\ ~Full(kept)
  <2>. HIDE DEF kept
  <2>1. /\ IsFiniteSet(kept \cup {s})
        /\ Cardinality(kept \cup {s}) = IF s \in kept THEN Cardinality(kept) ELSE Cardinality(kept) + 1
    <3>1. IsFiniteSet(kept)
      BY <1>2
    <3>. QED BY <3>1, FS_AddElement, Zenon
  <2>. QED BY <1>1, <1>2, <1>4, <2>1 DEF Held, CapHolds, Full
<1>. QED BY <1>3, <1>4 DEF CreateInserts

-----------------------------------------------------------------------------
(* The theorems. *)

\* The store, the registry, the tunnels and CloseAll agree with each other after every
\* critical section, in any interleaving (manager.go, bridges.go, tunnel.go,
\* server.go:279).
THEOREM Invariance == Spec => []IInv
<1>1. Init => IInv
  <2>. SUFFICES ASSUME Init PROVE IInv
    OBVIOUS
  <2>1. TypeOK
    BY DEF Init, TypeOK
  <2>2. Tunnels
    BY DEF Init, Tunnels
  <2>3. Visits /\ NobodyLeftOnClosed
    BY DEF Init, Visits, NobodyLeftOnClosed
  <2>4. RegistryMatches
    BY DEF Init, RegistryMatches
  <2>5. FinishedSessionIsGone
    BY DEF Init, FinishedSessionIsGone
  <2>. QED BY <2>1, <2>2, <2>3, <2>4, <2>5 DEF IInv
<1>2. IInv /\ [Next]_vars => IInv'
  <2>. SUFFICES ASSUME IInv, [Next]_vars PROVE IInv'
    OBVIOUS
  <2>1. CASE UNCHANGED vars
    BY <2>1 DEF vars, IInv, TypeOK, Tunnels, Visits, RegistryMatches, NobodyLeftOnClosed,
                FinishedSessionIsGone
  <2>. QED BY <2>1, StoreKeeps, HostKeeps, GuestKeeps, ShutdownKeeps DEF Next
<1>. QED BY <1>1, <1>2, PTL DEF Spec

\* Every variable keeps its type, for any sessions, hosts and guests.
THEOREM TypeInvariance == Spec => []TypeOK
<1>1. IInv => TypeOK
  BY DEF IInv
<1>. QED BY <1>1, Invariance, PTL

\* A session has one terminal, and no bridge stays registered that nobody will remove:
\* neither Open beside remove nor CloseAll beside a tunnel's own Close loses one
\* (bridges.go, bridge.go:494).
THEOREM RegistryMatchesHolds == Spec => []RegistryMatches
<1>1. IInv => RegistryMatches
  BY DEF IInv
<1>. QED BY <1>1, Invariance, PTL

\* A bridge that closes stops every guest attached to it, and none attaches later.
THEOREM NobodyLeftOnClosedHolds == Spec => []NobodyLeftOnClosed
<1>1. IInv => NobodyLeftOnClosed
  BY DEF IInv
<1>. QED BY <1>1, Invariance, PTL

\* A host's tunnel that ended leaves no record of its session, and a store that closed holds
\* nothing, whatever Create is in the middle of (manager.go:84, tunnel.go:128).
THEOREM FinishedSessionIsGoneHolds == Spec => []FinishedSessionIsGone
<1>1. IInv => FinishedSessionIsGone
  BY DEF IInv
<1>. QED BY <1>1, Invariance, PTL

\* The limit holds for any number of requests that passed the first check together
\* (manager.go:84).
THEOREM CapHoldsAlways == Spec => []CapHolds
<1>1. Init => Held
  <2>1. IsFiniteSet({}) /\ Cardinality({}) = 0
    BY FS_EmptySet
  <2>. QED BY <2>1, LifecycleAssumption DEF Init, Held, CapHolds
<1>2. IInv /\ Held /\ [Next]_vars => Held'
  <2>. SUFFICES ASSUME IInv, Held, [Next]_vars PROVE Held'
    OBVIOUS
  <2>0. MaxSessions \in Nat
    BY LifecycleAssumption
  <2>1. ASSUME record' \subseteq record PROVE Held'
    BY <2>0, <2>1, FewerHeld
  <2>2. ASSUME NEW r \in Requests, CreateChecks(r) PROVE Held'
    BY <2>1, <2>2 DEF CreateChecks
  <2>3. ASSUME NEW r \in Requests, NEW s \in Sessions, CreateInserts(r, s) PROVE Held'
    BY <2>3, InsertingHeld
  <2>4. ASSUME (\E s \in Sessions : Expire(s)) \/ Sweep PROVE Held'
    BY <2>1, <2>4 DEF Expire, Sweep
  <2>5. ASSUME NEW h \in Hosts, HostNext(h) PROVE Held'
    <3>1. record' \subseteq record
      BY <2>5 DEF HostNext, HostAuthenticates, Looked, HostOpens, HostAcked, HostAckFails,
                  HostAttaches, HostLeaves, HostCloses, HostRemoves, HostDeletes, records
    <3>. QED BY <2>1, <3>1
  <2>6. ASSUME NEW g \in Guests, GuestNext(g) PROVE Held'
    BY <2>1, <2>6, GuestSteps DEF IInv
  <2>7. ASSUME \/ ShutdownStarts \/ (\E h \in Hosts : ShutdownCloses(h)) \/ ShutdownRemoves
               \/ ShutdownCancels \/ ShutdownClosesManager
        PROVE  Held'
    <3>1. record' \subseteq record
      BY <2>7 DEF ShutdownStarts, ShutdownCloses, ShutdownRemoves, ShutdownCancels,
                  ShutdownClosesManager, records
    <3>. QED BY <2>1, <3>1
  <2>8. ASSUME UNCHANGED vars PROVE Held'
    BY <2>1, <2>8 DEF vars
  <2>. QED BY <2>2, <2>3, <2>4, <2>5, <2>6, <2>7, <2>8 DEF Next
<1>3. Held => CapHolds
  BY DEF Held
<1>. QED BY <1>1, <1>2, <1>3, Invariance, PTL DEF Spec
=============================================================================
