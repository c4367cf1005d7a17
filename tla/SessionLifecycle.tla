-------------------------- MODULE SessionLifecycle --------------------------
(***************************************************************************)
(* How sessions, their records and their bridges come and go in the relay:  *)
(*   internal/session/manager.go   the records (Create, Get, Delete, sweep) *)
(*   internal/session/bridges.go   the registry of live bridges             *)
(*   internal/server/tunnel.go     host and guest tunnels                   *)
(*   internal/sshd/sshd.go         guests that join over SSH                *)
(*   internal/server/server.go     teardown                                 *)
(* The record and the bridge of a session are separate objects under        *)
(* separate locks; every step below is one critical section of one of them, *)
(* or one end of a write.  What happens inside a bridge that is being       *)
(* served is module BridgeFanOut.                                           *)
(***************************************************************************)
EXTENDS Naturals, FiniteSets

CONSTANTS
  Sessions,      \* session ids NewID may return
  Requests,      \* POST /api/v1/sessions requests
  Hosts,         \* host tunnels
  Encrypting,    \* those that declare end-to-end encryption
  Guests,        \* guest connections
  SshGuests,     \* those that come over SSH
  MaxSessions,   \* Options.MaxSessions; 0 means no cap
  Events,        \* what may happen around the relay, a subset of AllEvents
  None           \* no session, no bridge

AllEvents == {"expiry", "shutdown", "handshake fails"}

ASSUME LifecycleAssumption ==
  /\ Encrypting \subseteq Hosts
  /\ SshGuests \subseteq Guests
  /\ MaxSessions \in Nat
  /\ Events \subseteq AllEvents
  /\ None \notin Sessions \cup Hosts \cup Guests

VARIABLES
  record,    \* Manager.sessions: the ids it holds
  used,      \* ids NewID has returned; it never returns one twice
  expired,   \* ids whose TTL has passed
  mclosed,   \* Manager.closed
  request,   \* where each Create call is
  registry,  \* Bridges.m: session -> the host tunnel whose bridge it is
  bridge,    \* host tunnel -> its bridge: "none", "open", "hosted", "closed"
  encrypted, \* host tunnels whose bridge carries the encrypted flag
  stopped,   \* guests a closing bridge has stopped
  host,      \* where each host tunnel is
  hostOf,    \* host tunnel -> its session
  guest,     \* where each guest connection is
  target,    \* guest -> the session it authenticated for
  joined,    \* guest -> the host tunnel whose bridge it found
  shutdown,  \* where teardown is
  closing,   \* bridges CloseAll found and has yet to close
  evicting   \* the bridge CloseAll has closed and not yet removed, or None

records == <<record, used, expired, mclosed, request>>
bridgeVars == <<registry, bridge, encrypted, stopped>>
hostVars == <<host, hostOf>>
guestVars == <<guest, target, joined>>
downVars == <<shutdown, closing, evicting>>
vars == <<record, used, expired, mclosed, request, registry, bridge, encrypted, stopped,
          host, hostOf, guest, target, joined, shutdown, closing, evicting>>

Init ==
  /\ record = {} /\ used = {} /\ expired = {} /\ mclosed = FALSE
  /\ request = [r \in Requests |-> "idle"]
  /\ registry = [s \in Sessions |-> None]
  /\ bridge = [h \in Hosts |-> "none"]
  /\ encrypted = {} /\ stopped = {}
  /\ host = [h \in Hosts |-> "idle"]
  /\ hostOf = [h \in Hosts |-> None]
  /\ guest = [g \in Guests |-> "idle"]
  /\ target = [g \in Guests |-> None]
  /\ joined = [g \in Guests |-> None]
  /\ shutdown = "up" /\ closing = {} /\ evicting = None

\* Mutant: tunnels take their context from elsewhere.
NeverCancelled == FALSE

\* baseCtx is cancelled: every Recv and every Send of a tunnel may fail.
Cancelled == shutdown \in {"cancelled", "down"}

-----------------------------------------------------------------------------
(* Manager: the session records. *)

Full(held) == MaxSessions > 0 /\ Cardinality(held) >= MaxSessions

\* Create's first look: expired records are swept when it finds no room.
CreateChecks(r) ==
  /\ request[r] = "idle"
  /\ LET kept == IF Full(record) THEN record \ expired ELSE record
     IN  /\ record' = kept
         /\ request' = [request EXCEPT ![r] =
                          IF mclosed \/ Full(kept) THEN "refused" ELSE "minting"]
  /\ UNCHANGED <<used, expired, mclosed, bridgeVars, hostVars, guestVars, downVars>>

\* Mutant: the limit is not looked at again.
CreateInsertsUnchecked(r, s) ==
  /\ request[r] = "minting"
  /\ s \notin used
  /\ used' = used \cup {s}
  /\ record' = IF mclosed THEN record ELSE record \cup {s}
  /\ request' = [request EXCEPT ![r] = IF mclosed THEN "refused" ELSE "created"]
  /\ UNCHANGED <<expired, mclosed, bridgeVars, hostVars, guestVars, downVars>>

\* The identifiers are drawn without the lock, so everything is checked again.
CreateInserts(r, s) ==
  /\ request[r] = "minting"
  /\ s \notin used
  /\ used' = used \cup {s}
  /\ LET kept == IF Full(record) /\ ~mclosed THEN record \ expired ELSE record
     IN  IF mclosed \/ Full(kept)
         THEN record' = kept /\ request' = [request EXCEPT ![r] = "refused"]
         ELSE record' = kept \cup {s} /\ request' = [request EXCEPT ![r] = "created"]
  /\ UNCHANGED <<expired, mclosed, bridgeVars, hostVars, guestVars, downVars>>

\* The clock passes a record's ExpiresAt.
Expire(s) ==
  /\ "expiry" \in Events
  /\ s \in used \ expired
  /\ expired' = expired \cup {s}
  /\ UNCHANGED <<record, used, mclosed, request, bridgeVars, hostVars, guestVars,
                 downVars>>

Sweep ==
  /\ record \cap expired # {}
  /\ record' = record \ expired
  /\ UNCHANGED <<used, expired, mclosed, request, bridgeVars, hostVars, guestVars,
                 downVars>>

\* Get and Authenticate find a live record; one that expired is dropped.
Found(s) == s \in record \ expired
Looked(s) == record' = IF s \in expired THEN record \ {s} ELSE record

-----------------------------------------------------------------------------
(* A host's tunnel: handleTunnel and serveHostTunnel. *)

HostAuthenticates(h, s) ==
  /\ host[h] = "idle"
  /\ ~Cancelled
  /\ s \in used
  /\ Looked(s)
  /\ host' = [host EXCEPT ![h] = IF Found(s) THEN "opening" ELSE "done"]
  /\ hostOf' = [hostOf EXCEPT ![h] = IF Found(s) THEN s ELSE None]
  /\ UNCHANGED <<used, expired, mclosed, request, bridgeVars, guestVars, downVars>>

\* Mutant: a second host gets a bridge of its own.
HostOpensAlways(h) ==
  /\ host[h] = "opening"
  /\ registry' = [registry EXCEPT ![hostOf[h]] = h]
  /\ bridge' = [bridge EXCEPT ![h] = "open"]
  /\ host' = [host EXCEPT ![h] = "acking"]
  /\ UNCHANGED <<records, encrypted, stopped, hostOf, guestVars, downVars>>

\* Bridges.Open; a session that has a bridge refuses a second host.
HostOpens(h) ==
  /\ host[h] = "opening"
  /\ IF registry[hostOf[h]] = None
     THEN /\ registry' = [registry EXCEPT ![hostOf[h]] = h]
          /\ bridge' = [bridge EXCEPT ![h] = "open"]
          /\ host' = [host EXCEPT ![h] = "acking"]
     ELSE /\ host' = [host EXCEPT ![h] = "done"]
          /\ UNCHANGED <<registry, bridge>>
  /\ UNCHANGED <<records, encrypted, stopped, hostOf, guestVars, downVars>>

HostAcked(h) ==
  /\ host[h] = "acking"
  /\ host' = [host EXCEPT ![h] = "attaching"]
  /\ UNCHANGED <<records, bridgeVars, hostOf, guestVars, downVars>>

\* The acknowledgement fails: the bridge is closed before it had a host.
HostAckFails(h) ==
  /\ host[h] = "acking"
  /\ "handshake fails" \in Events \/ Cancelled
  /\ host' = [host EXCEPT ![h] = "closing"]
  /\ UNCHANGED <<records, bridgeVars, hostOf, guestVars, downVars>>

\* Mutant: every host is served as if it encrypted.
HostAttachesEncrypted(h) ==
  /\ host[h] = "attaching"
  /\ IF bridge[h] = "closed"
     THEN /\ host' = [host EXCEPT ![h] = "deleting"]
          /\ UNCHANGED <<bridge, encrypted>>
     ELSE /\ bridge' = [bridge EXCEPT ![h] = "hosted"]
          /\ encrypted' = encrypted \cup {h}
          /\ host' = [host EXCEPT ![h] = "serving"]
  /\ UNCHANGED <<records, registry, stopped, hostOf, guestVars, downVars>>

\* serveHost attaches unless CloseAll closed the bridge first.
HostAttaches(h) ==
  /\ host[h] = "attaching"
  /\ IF bridge[h] = "closed"
     THEN /\ host' = [host EXCEPT ![h] = "deleting"]
          /\ UNCHANGED <<bridge, encrypted>>
     ELSE /\ bridge' = [bridge EXCEPT ![h] = "hosted"]
          /\ encrypted' = IF h \in Encrypting THEN encrypted \cup {h} ELSE encrypted
          /\ host' = [host EXCEPT ![h] = "serving"]
  /\ UNCHANGED <<records, registry, stopped, hostOf, guestVars, downVars>>

\* The host ends the session, or its connection ends.  A bridge that CloseAll
\* closed does not end it: serveHost is still in Recv.
HostLeaves(h) ==
  /\ host[h] = "serving"
  /\ host' = [host EXCEPT ![h] = "closing"]
  /\ UNCHANGED <<records, bridgeVars, hostOf, guestVars, downVars>>

Attached(h) == {g \in Guests : joined[g] = h /\ guest[g] = "attached"}

\* Mutant: the guests are not collected.
CloseForgetsGuests(h) == bridge' = [bridge EXCEPT ![h] = "closed"] /\ UNCHANGED stopped

\* Bridge.Close, for the caller that comes first.
Close(h) ==
  /\ bridge' = [bridge EXCEPT ![h] = "closed"]
  /\ stopped' = stopped \cup Attached(h)

\* Bridges.remove, with its identity check.
Remove(h) == registry' = [registry EXCEPT ![hostOf[h]] = IF @ = h THEN None ELSE @]

\* Whoever comes second returns at once, and leaves the removal to the first.
HostCloses(h) ==
  /\ host[h] = "closing"
  /\ IF bridge[h] = "closed"
     THEN host' = [host EXCEPT ![h] = "deleting"] /\ UNCHANGED <<bridge, stopped>>
     ELSE host' = [host EXCEPT ![h] = "removing"] /\ Close(h)
  /\ UNCHANGED <<records, registry, encrypted, hostOf, guestVars, downVars>>

HostRemoves(h) ==
  /\ host[h] = "removing"
  /\ Remove(h)
  /\ host' = [host EXCEPT ![h] = "deleting"]
  /\ UNCHANGED <<records, bridge, encrypted, stopped, hostOf, guestVars, downVars>>

\* Mutant: the record is left to its TTL.
HostKeepsRecord(h) ==
  /\ host[h] = "deleting"
  /\ host' = [host EXCEPT ![h] = "done"]
  /\ UNCHANGED <<records, bridgeVars, hostOf, guestVars, downVars>>

\* serveHostTunnel's deferred sessions.Delete.
HostDeletes(h) ==
  /\ host[h] = "deleting"
  /\ record' = record \ {hostOf[h]}
  /\ host' = [host EXCEPT ![h] = "done"]
  /\ UNCHANGED <<used, expired, mclosed, request, bridgeVars, hostOf, guestVars, downVars>>

-----------------------------------------------------------------------------
(* A guest's connection: serveGuestTunnel over WebSocket, handleSession over  *)
(* SSH.                                                                       *)

GuestAuthenticates(g, s) ==
  /\ guest[g] = "idle"
  /\ g \in SshGuests \/ ~Cancelled    \* sshd authenticates with its own context
  /\ s \in used
  /\ Looked(s)
  /\ guest' = [guest EXCEPT ![g] = IF Found(s) THEN "looking" ELSE "done"]
  /\ target' = [target EXCEPT ![g] = IF Found(s) THEN s ELSE None]
  /\ UNCHANGED <<used, expired, mclosed, request, bridgeVars, hostVars, joined, downVars>>

GuestFindsBridge(g) ==
  /\ guest[g] = "looking"
  /\ LET h == registry[target[g]]
     IN  /\ joined' = [joined EXCEPT ![g] = h]
         /\ guest' = [guest EXCEPT ![g] =
                        IF h = None THEN "done"
                        ELSE IF g \in SshGuests THEN "checking" ELSE "acking"]
  /\ UNCHANGED <<records, bridgeVars, hostVars, target, downVars>>

SshChecksEncryption(g) ==
  /\ guest[g] = "checking"
  /\ guest' = [guest EXCEPT ![g] = IF joined[g] \in encrypted THEN "done" ELSE "attaching"]
  /\ UNCHANGED <<records, bridgeVars, hostVars, target, joined, downVars>>

GuestAcked(g) ==
  /\ guest[g] = "acking"
  /\ guest' = [guest EXCEPT ![g] = "acked"]
  /\ UNCHANGED <<records, bridgeVars, hostVars, target, joined, downVars>>

GuestAckFails(g) ==
  /\ guest[g] = "acking"
  /\ "handshake fails" \in Events \/ Cancelled
  /\ guest' = [guest EXCEPT ![g] = "done"]
  /\ UNCHANGED <<records, bridgeVars, hostVars, target, joined, downVars>>

\* Mutant: a bridge without a host takes the guest.
GuestAttachesAlways(g) ==
  /\ guest[g] \in {"acked", "attaching"}
  /\ guest' = [guest EXCEPT ![g] = "attached"]
  /\ UNCHANGED <<records, bridgeVars, hostVars, target, joined, downVars>>

\* ServeGuest registers the guest if the bridge has its host.
GuestAttaches(g) ==
  /\ guest[g] \in {"acked", "attaching"}
  /\ guest' = [guest EXCEPT ![g] =
       IF bridge[joined[g]] = "hosted" THEN "attached"
       ELSE IF @ = "acked" THEN "refused" ELSE "done"]
  /\ UNCHANGED <<records, bridgeVars, hostVars, target, joined, downVars>>

\* The guest detaches, or the bridge that is closing stops it.
GuestLeaves(g) ==
  /\ guest[g] = "attached"
  /\ guest' = [guest EXCEPT ![g] = "done"]
  /\ UNCHANGED <<records, bridgeVars, hostVars, target, joined, downVars>>

-----------------------------------------------------------------------------
(* Server.teardown. *)

\* Bridges.CloseAll copies the registry and closes what it found.
ShutdownStarts ==
  /\ "shutdown" \in Events
  /\ shutdown = "up"
  /\ shutdown' = "closing"
  /\ closing' = {registry[s] : s \in Sessions} \ {None}
  /\ UNCHANGED <<records, bridgeVars, hostVars, guestVars, evicting>>

ShutdownCloses(h) ==
  /\ shutdown = "closing" /\ evicting = None
  /\ h \in closing
  /\ closing' = closing \ {h}
  /\ IF bridge[h] = "closed"
     THEN UNCHANGED <<bridge, stopped, evicting>>
     ELSE Close(h) /\ evicting' = h
  /\ UNCHANGED <<records, registry, encrypted, hostVars, guestVars, shutdown>>

ShutdownRemoves ==
  /\ evicting # None
  /\ Remove(evicting)
  /\ evicting' = None
  /\ UNCHANGED <<records, bridge, encrypted, stopped, hostVars, guestVars, shutdown,
                 closing>>

ShutdownCancels ==
  /\ shutdown = "closing" /\ closing = {} /\ evicting = None
  /\ shutdown' = "cancelled"
  /\ UNCHANGED <<records, bridgeVars, hostVars, guestVars, closing, evicting>>

\* Manager.Close.
ShutdownClosesManager ==
  /\ shutdown = "cancelled"
  /\ shutdown' = "down"
  /\ mclosed' = TRUE
  /\ record' = {}
  /\ UNCHANGED <<used, expired, request, bridgeVars, hostVars, guestVars, closing,
                 evicting>>

-----------------------------------------------------------------------------
HostNext(h) ==
  \/ \E s \in Sessions : HostAuthenticates(h, s)
  \/ HostOpens(h)
  \/ HostAcked(h)
  \/ HostAckFails(h)
  \/ HostAttaches(h)
  \/ HostLeaves(h)
  \/ HostCloses(h)
  \/ HostRemoves(h)
  \/ HostDeletes(h)

GuestNext(g) ==
  \/ \E s \in Sessions : GuestAuthenticates(g, s)
  \/ GuestFindsBridge(g)
  \/ SshChecksEncryption(g)
  \/ GuestAcked(g)
  \/ GuestAckFails(g)
  \/ GuestAttaches(g)
  \/ GuestLeaves(g)

Next ==
  \/ \E r \in Requests : CreateChecks(r) \/ \E s \in Sessions : CreateInserts(r, s)
  \/ \E s \in Sessions : Expire(s)
  \/ Sweep
  \/ \E h \in Hosts : HostNext(h)
  \/ \E g \in Guests : GuestNext(g)
  \/ ShutdownStarts
  \/ \E h \in Hosts : ShutdownCloses(h)
  \/ ShutdownRemoves
  \/ ShutdownCancels
  \/ ShutdownClosesManager

Spec == Init /\ [][Next]_vars

\* A tunnel's own code runs on; a write ends once its context is cancelled, a
\* host's Recv likewise, and a guest leaves once it was stopped.
HostRunsOn(h) ==
  \/ HostOpens(h) \/ HostAttaches(h) \/ HostCloses(h) \/ HostRemoves(h) \/ HostDeletes(h)
  \/ Cancelled /\ (HostAckFails(h) \/ HostLeaves(h))

GuestRunsOn(g) ==
  \/ GuestFindsBridge(g) \/ SshChecksEncryption(g) \/ GuestAttaches(g)
  \/ Cancelled /\ GuestAckFails(g)
  \/ g \in stopped /\ GuestLeaves(g)

ShutdownRunsOn ==
  \/ \E h \in Hosts : ShutdownCloses(h)
  \/ ShutdownRemoves
  \/ ShutdownCancels
  \/ ShutdownClosesManager

FairSpec ==
  /\ Spec
  /\ \A h \in Hosts : WF_vars(HostRunsOn(h))
  /\ \A g \in Guests : WF_vars(GuestRunsOn(g))
  /\ WF_vars(ShutdownRunsOn)

-----------------------------------------------------------------------------
(* Properties. *)

\* Every variable keeps its type.
TypeOK ==
  /\ record \subseteq used /\ used \subseteq Sessions /\ expired \subseteq used
  /\ mclosed \in BOOLEAN
  /\ request \in [Requests -> {"idle", "minting", "created", "refused"}]
  /\ registry \in [Sessions -> Hosts \cup {None}]
  /\ bridge \in [Hosts -> {"none", "open", "hosted", "closed"}]
  /\ encrypted \subseteq Encrypting
  /\ stopped \subseteq Guests
  /\ host \in [Hosts -> {"idle", "opening", "acking", "attaching", "serving", "closing",
                         "removing", "deleting", "done"}]
  /\ hostOf \in [Hosts -> Sessions \cup {None}]
  /\ guest \in [Guests -> {"idle", "looking", "checking", "acking", "acked", "attaching",
                           "attached", "refused", "done"}]
  /\ target \in [Guests -> Sessions \cup {None}]
  /\ joined \in [Guests -> Hosts \cup {None}]
  /\ shutdown \in {"up", "closing", "cancelled", "down"}
  /\ closing \subseteq Hosts
  /\ evicting \in Hosts \cup {None}

\* However many requests pass the first check together, the store never holds
\* more than its limit.
CapHolds == MaxSessions > 0 => Cardinality(record) <= MaxSessions

\* A bridge that can still be joined is the one its session's lookup returns, so
\* a session has one terminal; and a bridge that cannot be joined stays in the
\* registry only while somebody is about to remove it, so no session is left
\* claimed by a host that is gone.  An open bridge has a tunnel that will close it: no
\* host tunnel ends, by any path, with its bridge still open.
RegistryMatches ==
  /\ \A h \in Hosts : bridge[h] \in {"open", "hosted"} =>
       registry[hostOf[h]] = h /\ host[h] \in {"acking", "attaching", "serving", "closing"}
  /\ \A s \in Sessions :
       LET h == registry[s]
       IN  h # None => bridge[h] # "closed" \/ host[h] = "removing" \/ evicting = h

\* Closing a bridge stops every guest on it, and no guest attaches to it
\* afterwards.
NobodyLeftOnClosed ==
  \A g \in Guests :
    guest[g] = "attached" /\ bridge[joined[g]] = "closed" => g \in stopped

\* When a host's tunnel has ended its session is gone; and a request that was drawing
\* credentials while the store closed leaves nothing in it.
FinishedSessionIsGone ==
  /\ \A h \in Hosts : host[h] = "done" /\ bridge[h] # "none" => hostOf[h] \notin record
  /\ mclosed => record = {}

\* Once teardown has begun, every tunnel ends, no bridge stays registered and no
\* record is left: hosts that opened a bridge after CloseAll took its copy are
\* caught by the cancelled context.
ShutdownCompletes ==
  shutdown = "closing" ~>
    /\ \A h \in Hosts : host[h] \in {"idle", "done"}
    /\ \A g \in Guests : guest[g] \in {"idle", "done", "refused"}
    /\ \A s \in Sessions : registry[s] = None
    /\ record = {}

(* What the documentation says and the code does not do. *)

\* docs/protocol.md: an acknowledged guest is attached, and one that comes before
\* the host is refused without an acknowledgement.
AckMeansAttached == \A g \in Guests : guest[g] # "refused"

\* docs/architecture.md: the relay turns SSH guests away from an encrypted session.
SshNeverSeesEncrypted ==
  \A g \in SshGuests : guest[g] = "attached" => joined[g] \notin encrypted

\* tunnel.go: when a host's tunnel drops its session's record there is nothing to
\* join.
DeleteLeavesNothingToJoin ==
  [][\A h \in Hosts : host[h] = "deleting" /\ host'[h] = "done"
        => registry[hostOf[h]] = None]_vars

-----------------------------------------------------------------------------
(* The inductive invariant behind the safety properties. *)

\* How far a host's tunnel is, its bridge and its session go together; a bridge is registered
\* under the session it was opened for, and CloseAll handles bridges that were opened.
Tunnels ==
  /\ \A h \in Hosts :
       /\ host[h] \notin {"idle", "done"} \/ bridge[h] # "none" => hostOf[h] \in used
       /\ host[h] \in {"idle", "opening"} => bridge[h] = "none"
       /\ host[h] \in {"acking", "attaching", "serving", "closing"} => bridge[h] # "none"
       /\ host[h] \in {"removing", "deleting"} => bridge[h] = "closed"
  /\ \A s \in Sessions : registry[s] # None =>
       hostOf[registry[s]] = s /\ bridge[registry[s]] # "none"
  /\ \A h \in closing : bridge[h] # "none"
  /\ evicting # None => bridge[evicting] = "closed"

\* A guest knows its session once it is authenticated, and its bridge once it found one.
Visits ==
  \A g \in Guests :
    /\ guest[g] = "looking" => target[g] \in Sessions
    /\ guest[g] \in {"checking", "acking", "acked", "attaching", "attached"} => joined[g] \in Hosts

IInv ==
  /\ TypeOK /\ Tunnels /\ Visits
  /\ RegistryMatches /\ NobodyLeftOnClosed /\ FinishedSessionIsGone

\* The limit, on a store that holds finitely many records.
Held == IsFiniteSet(record) /\ CapHolds

=============================================================================
