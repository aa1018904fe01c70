-------------------------- MODULE SingleInstance --------------------------
(***************************************************************************)
(* Single instance and forwarded opens: hxy-ipc/src/socket.rs, main.rs of  *)
(* hxy-gpui, and the poll loop of its workspace.  A launch with files      *)
(* offers them to the instance the socket name leads to and only opens its *)
(* own window when that fails; every instance with a window has a listener *)
(* thread (accept, read one message, pass it on) and a timer that opens    *)
(* what has arrived.  A process may outlive its window: nothing is received *)
(* then, and the listener thread ends at the next message it cannot pass on. *)
(*                                                                         *)
(* Processes start, connect, bind and die at any moment.  The name lives   *)
(* in the kernel on some platforms (it goes with its process, and a second *)
(* bind fails) and is a file on others (it outlives its process, and       *)
(* try_overwrite takes it from whoever has it): both are explored.         *)
(*                                                                         *)
(* A request is a launch's file list or one "Open With" of the system.     *)
(***************************************************************************)
EXTENDS Naturals, Sequences, FiniteSets, SequencesExt

CONSTANT Procs      \* processes, each launched at most once

Nobody == "none"

ASSUME ProcsAssumption == IsFiniteSet(Procs) /\ Nobody \notin Procs

VARIABLES
    namespace,   \* "kernel" or "file": what the socket name is on this platform
    pc,          \* how far each process is
    owner,       \* the process whose listener the name leads to, or Nobody
    listening,   \* processes with a listener thread
    backlog,     \* connections each listener has not accepted, by client
    reading,     \* the connection each listener thread is reading, or Nobody
    stream,      \* what each client has written, and to whom
    channel,     \* path batches each listener has passed on
    urls,        \* "Open With" batches each process has received
    asked,       \* requests made
    opened,      \* times each request was opened
    lost         \* requests that went with the process or the window that had them

instanceVars == <<namespace, pc, owner, listening, backlog, reading, stream, channel, urls,
                  asked, opened, lost>>

FilesOf(p) == <<"files", p>>
OpenWith(p) == <<"open_with", p>>
Requests == {"files", "open_with"} \X Procs

Live(p) == pc[p] \notin {"unborn", "exited", "dead"}
NoStream == [to |-> Nobody, sent |-> "nothing"]

InstanceInit ==
    /\ namespace \in {"kernel", "file"}
    /\ pc = [p \in Procs |-> "unborn"]
    /\ owner = Nobody
    /\ listening = {}
    /\ backlog = [p \in Procs |-> << >>]
    /\ reading = [p \in Procs |-> Nobody]
    /\ stream = [p \in Procs |-> NoStream]
    /\ channel = [p \in Procs |-> << >>]
    /\ urls = [p \in Procs |-> << >>]
    /\ asked = {}
    /\ opened = [r \in Requests |-> 0]
    /\ lost = {}

-----------------------------------------------------------------------------
(* main: the launch. *)

Goto(p, label) == pc' = [pc EXCEPT ![p] = label]
arrivals == <<backlog, reading, channel, urls>>
requestSide == <<asked, opened, lost>>

(* Launched with files, which are offered to a running instance first, or  *)
(* bare, which never asks.                                                 *)
Launch(p) ==
    /\ pc[p] = "unborn"
    /\ \/ Goto(p, "probe") /\ asked' = asked \cup {FilesOf(p)}
       \/ Goto(p, "boot") /\ UNCHANGED asked
    /\ UNCHANGED <<namespace, owner, listening, arrivals, stream, opened, lost>>

(* try_send_to_running_instance, connect: a name that leads nowhere, or to *)
(* a dead process's file, refuses.                                         *)
Connect(p) ==
    /\ pc[p] = "probe"
    /\ IF owner \in listening
       THEN /\ Goto(p, "send")
            /\ backlog' = [backlog EXCEPT ![owner] = Append(@, p)]
            /\ stream' = [stream EXCEPT ![p] = [to |-> owner, sent |-> "nothing"]]
       ELSE Goto(p, "boot") /\ UNCHANGED <<backlog, stream>>
    /\ UNCHANGED <<namespace, owner, listening, reading, channel, urls, requestSide>>

(* Bug: a launch whose message could not be written exits as if it had been. *)
SendUnchecked(p) ==
    /\ pc[p] = "send"
    /\ IF stream[p].sent = "nothing"
       THEN /\ stream' = [stream EXCEPT ![p].sent = "prefix"]
            /\ UNCHANGED pc
       ELSE /\ stream' = [stream EXCEPT ![p].sent = "whole"]
            /\ Goto(p, "exited")
    /\ UNCHANGED <<namespace, owner, listening, arrivals, requestSide>>

(* try_send_to_running_instance, the two writes: the length, then the       *)
(* message.  A peer that is gone fails them, and the launch goes on alone.  *)
Send(p) ==
    /\ pc[p] = "send"
    /\ IF stream[p].to \notin listening
       THEN Goto(p, "boot") /\ stream' = [stream EXCEPT ![p] = NoStream]
       ELSE IF stream[p].sent = "nothing"
       THEN /\ stream' = [stream EXCEPT ![p].sent = "prefix"]
            /\ UNCHANGED pc
       ELSE /\ stream' = [stream EXCEPT ![p].sent = "whole"]
            /\ Goto(p, "exited")
    /\ UNCHANGED <<namespace, owner, listening, arrivals, requestSide>>

(* start_server: bind and spawn the listener thread, or go on without.      *)
Bind(p) ==
    /\ pc[p] = "boot"
    /\ Goto(p, "window")
    /\ \/ /\ namespace = "file" \/ owner = Nobody
          /\ owner' = p
          /\ listening' = listening \cup {p}
       \/ UNCHANGED <<owner, listening>>
    /\ UNCHANGED <<namespace, arrivals, stream, requestSide>>

Bump(counts, requests) == [r \in Requests |-> counts[r] + IF r \in requests THEN 1 ELSE 0]

(* Workspace::build_initial opens the launch's own files, and start_ipc     *)
(* starts the poll loop.                                                   *)
OpenWindow(p) ==
    /\ pc[p] = "window"
    /\ Goto(p, "run")
    /\ opened' = Bump(opened, {FilesOf(p)} \cap asked)
    /\ UNCHANGED <<namespace, owner, listening, arrivals, stream, asked, lost>>

-----------------------------------------------------------------------------
(* The listener thread. *)

Accept(p) ==
    /\ p \in listening /\ reading[p] = Nobody
    /\ backlog[p] # << >>
    /\ reading' = [reading EXCEPT ![p] = Head(backlog[p])]
    /\ backlog' = [backlog EXCEPT ![p] = Tail(@)]
    /\ UNCHANGED <<namespace, pc, owner, listening, stream, channel, urls, requestSide>>

(* Bug: a client that goes away without its message is waited for. *)
ReadMessageWaits(p) ==
    LET c == reading[p]
    IN  /\ p \in listening /\ c # Nobody
        /\ stream[c].sent = "whole" /\ pc[p] # "closed"
        /\ channel' = [channel EXCEPT ![p] = Append(@, FilesOf(c))]
        /\ reading' = [reading EXCEPT ![p] = Nobody]
        /\ stream' = [stream EXCEPT ![c] = NoStream]
        /\ UNCHANGED <<namespace, pc, owner, listening, backlog, urls, requestSide>>

(* read_message blocks until the message is there or the client is gone;   *)
(* then it is passed on, or the thread goes back to accept.                *)
ReadMessage(p) ==
    LET c == reading[p]
    IN  /\ p \in listening /\ c # Nobody
        /\ \/ /\ stream[c].sent = "whole" /\ pc[p] # "closed"
              /\ channel' = [channel EXCEPT ![p] = Append(@, FilesOf(c))]
           \/ /\ stream[c].sent # "whole" /\ ~Live(c)
              /\ UNCHANGED channel
        /\ reading' = [reading EXCEPT ![p] = Nobody]
        /\ stream' = [stream EXCEPT ![c] = NoStream]
        /\ UNCHANGED <<namespace, pc, owner, listening, backlog, urls, requestSide>>

(* The connections at a listener, and what was written whole to them. *)
Waiting(p) == ToSet(backlog[p]) \cup ({reading[p]} \ {Nobody})
Delivered(p) ==
    {FilesOf(c) : c \in {c \in Waiting(p) : stream[c].sent = "whole"}}

(* The listener goes, and all connections with it. *)
HangUp(p) ==
    /\ listening' = listening \ {p}
    /\ stream' = [c \in Procs |->
                    IF c \in Waiting(p) /\ pc[c] # "send" THEN NoStream ELSE stream[c]]
    /\ backlog' = [backlog EXCEPT ![p] = << >>]
    /\ reading' = [reading EXCEPT ![p] = Nobody]

(* The receiver went with the window: the message cannot be passed on and   *)
(* the thread returns.  The listener is dropped, which takes the name away  *)
(* (reclaim_name), where it is a file even from the process that has it now. *)
EndListener(p) ==
    /\ p \in listening /\ pc[p] = "closed"
    /\ reading[p] # Nobody /\ stream[reading[p]].sent = "whole"
    /\ HangUp(p)
    /\ owner' = IF namespace = "file" \/ owner = p THEN Nobody ELSE owner
    /\ lost' = lost \cup Delivered(p)
    /\ UNCHANGED <<namespace, pc, channel, urls, asked, opened>>

-----------------------------------------------------------------------------
(* The window. *)

(* on_open_urls: the callback is registered before the window is there, and *)
(* stays when it is gone; what it sends then is dropped.                    *)
OpenUrls(p) ==
    /\ pc[p] \in {"boot", "window", "run", "closed"}
    /\ OpenWith(p) \notin asked
    /\ asked' = asked \cup {OpenWith(p)}
    /\ IF pc[p] = "closed"
       THEN lost' = lost \cup {OpenWith(p)} /\ UNCHANGED urls
       ELSE urls' = [urls EXCEPT ![p] = Append(@, OpenWith(p))] /\ UNCHANGED lost
    /\ UNCHANGED <<namespace, pc, owner, listening, backlog, reading, stream, channel, opened>>

(* spawn_ipc_poll's tick: drain both receivers, open_external_paths. *)
Poll(p) ==
    /\ pc[p] = "run"
    /\ channel[p] \o urls[p] # << >>
    /\ opened' = Bump(opened, ToSet(channel[p]) \cup ToSet(urls[p]))
    /\ channel' = [channel EXCEPT ![p] = << >>]
    /\ urls' = [urls EXCEPT ![p] = << >>]
    /\ UNCHANGED <<namespace, pc, owner, listening, backlog, reading, stream, asked, lost>>

(* The window is closed and the process goes on, where floating panels or   *)
(* the platform keep it: the poll task goes, and both receivers with it.    *)
CloseWindow(p) ==
    /\ pc[p] = "run"
    /\ Goto(p, "closed")
    /\ lost' = lost \cup ToSet(channel[p]) \cup ToSet(urls[p])
    /\ channel' = [channel EXCEPT ![p] = << >>]
    /\ urls' = [urls EXCEPT ![p] = << >>]
    /\ UNCHANGED <<namespace, owner, listening, backlog, reading, stream, asked, opened>>

-----------------------------------------------------------------------------
(* Requests a process holds: its own until they are opened or written out,  *)
(* the written ones waiting at its listener, and what its channels hold.    *)
Own(p) == IF pc[p] \in {"probe", "send", "boot", "window"} THEN {FilesOf(p)} \cap asked ELSE {}
HeldBy(p) == Own(p) \cup Delivered(p) \cup ToSet(channel[p]) \cup ToSet(urls[p])

(* Quit or crash: threads, channels and accepted connections go with the   *)
(* process.  The listener is not dropped, so a name that is a file stays.   *)
Die(p) ==
    /\ Live(p)
    /\ Goto(p, "dead")
    /\ lost' = lost \cup HeldBy(p)
    /\ HangUp(p)
    /\ owner' = IF namespace = "kernel" /\ owner = p THEN Nobody ELSE owner
    /\ channel' = [channel EXCEPT ![p] = << >>]
    /\ urls' = [urls EXCEPT ![p] = << >>]
    /\ UNCHANGED <<namespace, asked, opened>>

StartUp(p) == Connect(p) \/ Send(p) \/ Bind(p) \/ OpenWindow(p)
ListenerThread(p) == Accept(p) \/ ReadMessage(p) \/ EndListener(p)

InstanceNext ==
    \E p \in Procs :
       \/ Launch(p) \/ StartUp(p) \/ ListenerThread(p)
       \/ OpenUrls(p) \/ Poll(p) \/ CloseWindow(p) \/ Die(p)

(* Threads are scheduled and the timer ticks; nobody has to launch or die. *)
InstanceFairness ==
    \A p \in Procs :
       /\ WF_instanceVars(StartUp(p))
       /\ WF_instanceVars(ListenerThread(p))
       /\ WF_instanceVars(Poll(p))

InstanceSpec == InstanceInit /\ [][InstanceNext]_instanceVars /\ InstanceFairness

-----------------------------------------------------------------------------
(* Properties. *)

(* A request is in one place only: held by one live process, opened once,  *)
(* or gone with the process that held it or the window that was to open it. *)
(* No race of launches, binds and deaths opens a file list twice or drops   *)
(* one that a live process had accepted (socket.rs, spawn_ipc_poll).       *)
NothingMislaid ==
    \A r \in asked :
       LET holders == {p \in Procs : Live(p) /\ r \in HeldBy(p)}
       IN  \/ opened[r] = 1 /\ holders = {} /\ r \notin lost
           \/ opened[r] = 0 /\ Cardinality(holders) = 1 /\ r \notin lost
           \/ opened[r] = 0 /\ holders = {} /\ r \in lost

(* Every request ends up in a window, or goes with the process that held it *)
(* or the window that was to open it: no listener waits for ever on a      *)
(* client, and a listener whose name was taken over still serves whoever    *)
(* had reached it.  There are finitely many requests and their end is final, *)
(* so some day all that were made have come to it for good.                *)
ForwardedIsOpened ==
    <>[](\A r \in asked : opened[r] > 0 \/ r \in lost)

=============================================================================
