----------------------------- MODULE ListenHTTP -----------------------------
(***************************************************************************)
(* ListenHTTP: an inbox between the HTTP server's task, which answers a    *)
(* POST as soon as it is in the inbox, and the engine task, which starts   *)
(* the server, takes one POST per trigger, and on a rebuild stops the      *)
(* server and deletes the inbox.                                           *)
(*                                                                         *)
(* External: the server handles one request at a time, and httpd_stop      *)
(* returns when its task is gone.                                          *)
(***************************************************************************)
EXTENDS Naturals, Sequences

CONSTANTS
  InboxSize,  \* slots of the inbox
  MaxPosts    \* bound of the model: POSTs received

ASSUME HttpAssumption == InboxSize \in Nat \ {0} /\ MaxPosts \in Nat

VARIABLES
  server,     \* whether the server runs
  inbox,      \* whether s->inbox is a queue
  queues,     \* queues created and not deleted
  waiting,    \* the POSTs in the inbox
  started,    \* s->started
  http,       \* where the engine is in on_trigger or on_stop
  request,    \* where the server is in post_handler
  posts,      \* POSTs received so far
  fate        \* what became of each

inboxVars  == <<inbox, queues, waiting>>
serverVars == <<request, posts>>
httpVars   == <<server, inboxVars, started, http, serverVars, fate>>

Post == 1 .. MaxPosts

HttpInit ==
  /\ server = FALSE /\ inbox = FALSE /\ queues = 0 /\ waiting = <<>>
  /\ started = FALSE /\ http = "idle"
  /\ request = "none" /\ posts = 0
  /\ fate = [p \in Post |-> "none"]

----------------------------------------------------------------------------
(* The engine task, in on_trigger.                                         *)

(* The inbox of an attempt that failed is used again.                      *)
OpenInbox ==
  /\ http = "idle" /\ ~started
  /\ inbox' = TRUE /\ queues' = IF inbox THEN queues ELSE queues + 1
  /\ http' = "start"
  /\ UNCHANGED <<server, waiting, started, serverVars, fate>>

(* The port may be taken.                                                  *)
StartServer ==
  /\ http = "start"
  /\ \/ ~server /\ server' = TRUE /\ http' = "mark"
     \/ UNCHANGED server /\ http' = "idle"
  /\ UNCHANGED <<inboxVars, started, serverVars, fate>>

(* Mutant: the node is not marked as started.                              *)
ServerStartedUnmarked ==
  /\ http = "mark"
  /\ http' = "take"
  /\ UNCHANGED <<server, started, inboxVars, serverVars, fate>>

ServerStarted ==
  /\ http = "mark"
  /\ started' = TRUE /\ http' = "take"
  /\ UNCHANGED <<server, inboxVars, serverVars, fate>>

HttpTrigger ==
  /\ http = "idle" /\ started
  /\ http' = "take"
  /\ UNCHANGED <<server, inboxVars, started, serverVars, fate>>

(* One POST becomes a FlowFile, which is lost if its connection is full.   *)
TakePost ==
  /\ http = "take" /\ waiting # <<>>
  /\ waiting' = Tail(waiting)
  /\ \E f \in {"transferred", "lost"} :
       fate' = [fate EXCEPT ![Head(waiting)] = f]
  /\ http' = "idle"
  /\ UNCHANGED <<server, inbox, queues, started, serverVars>>

NothingWaits ==
  /\ http = "take" /\ waiting = <<>>
  /\ http' = "idle"
  /\ UNCHANGED <<server, inboxVars, started, serverVars, fate>>

(* The engine task, in on_stop: the server first, ...                      *)
BeginStop ==
  /\ http = "idle"
  /\ http' = "stop"
  /\ UNCHANGED <<server, inboxVars, started, serverVars, fate>>

(* Mutant: the server is told to stop and not waited for.                  *)
StopServerAtOnce ==
  /\ http = "stop"
  /\ server' = FALSE
  /\ http' = "delete"
  /\ UNCHANGED <<inboxVars, started, serverVars, fate>>

StopServer ==
  /\ http = "stop" /\ request = "none"
  /\ server' = FALSE
  /\ http' = "delete"
  /\ UNCHANGED <<inboxVars, started, serverVars, fate>>

(* ... then the inbox, with what is in it.                                 *)
DeleteInbox ==
  /\ http = "delete"
  /\ inbox' = FALSE /\ queues' = IF inbox THEN queues - 1 ELSE queues
  /\ waiting' = <<>> /\ started' = FALSE
  /\ fate' = [p \in Post |-> IF fate[p] = "waits" THEN "deleted" ELSE fate[p]]
  /\ http' = "idle"
  /\ UNCHANGED <<server, serverVars>>

----------------------------------------------------------------------------
(* The server's task, in post_handler.                                     *)

PostArrives ==
  /\ server /\ request = "none" /\ posts < MaxPosts
  /\ posts' = posts + 1 /\ request' = "body"
  /\ UNCHANGED <<server, inboxVars, started, http, fate>>

Answered ==
  /\ request' = "none"
  /\ UNCHANGED <<server, inboxVars, started, http, posts, fate>>

(* The body is too large, or does not arrive.                              *)
PostRejected == request = "body" /\ Answered

InboxFull == request = "body" /\ Len(waiting) >= InboxSize /\ Answered

PostEntersInbox ==
  /\ request = "body" /\ Len(waiting) < InboxSize
  /\ waiting' = Append(waiting, posts)
  /\ fate' = [fate EXCEPT ![posts] = "waits"]
  /\ request' = "answer"
  /\ UNCHANGED <<server, inbox, queues, started, http, posts>>

PostAccepted == request = "answer" /\ Answered

ListenerRuns ==
  \/ OpenInbox \/ StartServer \/ ServerStarted \/ HttpTrigger
  \/ TakePost \/ NothingWaits \/ StopServer \/ DeleteInbox

ServerRuns == PostRejected \/ InboxFull \/ PostEntersInbox \/ PostAccepted

HttpNext == ListenerRuns \/ BeginStop \/ PostArrives \/ ServerRuns

HttpSpec == HttpInit /\ [][HttpNext]_httpVars

----------------------------------------------------------------------------
HttpTypeOK ==
  /\ {server, inbox, started} \subseteq BOOLEAN
  /\ queues \in Nat
  /\ waiting \in Seq(Post) /\ Len(waiting) <= InboxSize
  /\ http \in {"idle", "start", "mark", "take", "stop", "delete"}
  /\ request \in {"none", "body", "answer"}
  /\ posts \in 0 .. MaxPosts
  /\ fate \in [Post -> {"none", "waits", "transferred", "lost", "deleted"}]

(* A handler that runs finds its inbox, although the engine deletes the    *)
(* inbox of a graph it replaces, and a start that failed or was retried    *)
(* leaves no second queue behind.                                          *)
InboxOutlivesHandler ==
  (request # "none" => inbox) /\ queues = (IF inbox THEN 1 ELSE 0)

(* A POST that is in the inbox leaves it, by a trigger or a rebuild.       *)
PostsAreTaken == \A p \in Post : fate[p] = "waits" ~> fate[p] # "waits"
=============================================================================
