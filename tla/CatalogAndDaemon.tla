-------------------------- MODULE CatalogAndDaemon --------------------------
(***************************************************************************)
(* The commands that outlast themselves: those that change the catalog of   *)
(* an index (Catalog) and those that start and stop its server (Daemon).    *)
(* Each may be killed, and several run at once.  The catalog and the        *)
(* pidfile share nothing, so a behaviour is about one or the other.         *)
(***************************************************************************)
EXTENDS Catalog, Daemon

vars == <<catalogVars, daemonVars>>

Init ==
  \/ CatalogInit /\ NoDaemon
  \/ NoCatalog /\ DaemonInit

Next ==
  \/ CatalogNext /\ UNCHANGED daemonVars
  \/ DaemonNext /\ UNCHANGED catalogVars

Spec == Init /\ [][Next]_vars
=============================================================================
