----------------------------- MODULE LdpLifecycle ---------------------------
(* The life of the server process around LdpServer: App::start of            *)
(* server-core/src/app.rs, called by main of cli/src/serve.rs.  The store    *)
(* lives in the pipeline of the App, in memory and nowhere else; --root-dir  *)
(* is logged and changes nothing.                                            *)
EXTENDS LdpServer

VARIABLE up   \* whether the process runs its accept loop

allVars == <<vars, up>>

NoStore == [x \in {} |-> ContainerEntry]

LifeInit == Init /\ up = TRUE

\* A step of the pipeline.
Run == up /\ Next /\ UNCHANGED up

\* The process ends: a crash, a signal, an error of axum::serve.  What clients
\* have been told of its store, and what they have deleted, ends with it.
Exit ==
  /\ up /\ up' = FALSE
  /\ store' = NoStore
  /\ pc' = [c \in Conn |-> "idle"]
  /\ req' = [c \in Conn |-> None]
  /\ key' = [c \in Conn |-> None]
  /\ reply' = [c \in Conn |-> None]
  /\ approved' = [c \in Conn |-> {}]
  /\ wrote' = [c \in Conn |-> {}]
  /\ removed' = {} /\ accepted' = {}
  /\ UNCHANGED <<slugs, known>>

\* Mutant of Boot: the store is not seeded.
BootUnseeded ==
  /\ ~up /\ up' = TRUE
  /\ UNCHANGED <<store, connVars, histVars>>

\* The process is started again and binds its address.
Boot ==
  /\ ~up /\ up' = TRUE
  /\ store' = FreshStore
  /\ UNCHANGED <<connVars, histVars>>

LifeNext == Run \/ Exit \/ Boot

LifeSpec == LifeInit /\ [][LifeNext]_allVars

-----------------------------------------------------------------------------
\* "The root must always exist" (store.rs:45): in every life of the process the
\* server has an entry for "/", until a client of that life deletes it.
RootUnlessDeleted == up => Root \in DOMAIN store \cup removed
=============================================================================
