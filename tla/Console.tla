------------------------------ MODULE Console ------------------------------
(***************************************************************************)
(* A chat client between its user and the server (cclient.c): the loop of  *)
(* clientControl, which polls standard input and the socket, and the line  *)
(* that readFromStdin takes through getchar, which keeps a buffer of its   *)
(* own.  The command of a line is then sent as in Segmentation.            *)
(*                                                                         *)
(* Standard input is a terminal, from which one read takes one line, or a  *)
(* pipe, from which it takes all there is.  At the end of it getchar has   *)
(* nothing but EOF to return from then on, which makes a line of 1023 of   *)
(* them.  A terminal can be typed at again after that; of a pipe poll      *)
(* reports the end for ever.  Lines are complete and fit inputBuffer.      *)
(***************************************************************************)
EXTENDS Segmentation, FiniteSets

CONSTANTS
    Inputs,         \* subset of {"terminal", "pipe"}
    MaxTyped,       \* bounds: how many lines are typed, how many PDUs the
    MaxPDUs,        \* server sends
    Warned,         \* a line that is no command: it is dropped with a warning
    EndOfFile

ASSUME ConsoleAssumption ==
    /\ Inputs \subseteq {"terminal", "pipe"}
    /\ EndOfFile \notin Lines /\ Warned \notin Lines /\ Warned # EndOfFile

VARIABLES
    stdin,          \* "terminal" or "pipe"
    kernel,         \* the lines typed and not read, and the end of file
    ended,          \* the user has ended the input
    stdio,          \* the lines getchar has read ahead
    eof,            \* getchar has met the end of file: it returns nothing else
    client,         \* "loop" or "exited"
    server,         \* "up" or "exited"
    fromServer,     \* PDUs that have arrived and are not received
    sentByServer,   \* how many the server has sent
    typed,          \* history: every line typed
    processed       \* history: every line processStdin has worked on

consoleVars == <<stdin, kernel, ended, stdio, eof, typed, processed>>
serverVars == <<server, fromServer, sentByServer>>
vars == <<consoleVars, serverVars, client, segmentationVars>>

\* Descriptor 0 is the lowest: while it is readable pollCall names no other.
Readable == kernel # << >>

Loop == client = "loop" /\ pc = "idle"

-----------------------------------------------------------------------------
(* The user and the server *)

Type ==
    /\ ended => stdin = "terminal"
    /\ Len(typed) < MaxTyped
    /\ \E l \in Lines \cup {Warned} :
        /\ typed' = Append(typed, l)
        /\ kernel' = Append(kernel, l)
    /\ UNCHANGED <<stdin, ended, stdio, eof, processed, serverVars, client, segmentationVars>>

EndInput ==
    /\ ~ended
    /\ ended' = TRUE
    /\ kernel' = Append(kernel, EndOfFile)
    /\ UNCHANGED <<stdin, stdio, eof, typed, processed, serverVars, client, segmentationVars>>

ServerSends ==
    /\ server = "up" /\ sentByServer < MaxPDUs
    /\ sentByServer' = sentByServer + 1
    /\ fromServer' = fromServer + 1
    /\ UNCHANGED <<server, consoleVars, client, segmentationVars>>

ServerExits ==
    /\ server = "up"
    /\ server' = "exited"
    /\ UNCHANGED <<fromServer, sentByServer, consoleVars, client, segmentationVars>>

-----------------------------------------------------------------------------
(* The client *)

\* The switch of processStdin.
Process(l) ==
    /\ processed' = Append(processed, l)
    /\ IF l = Warned THEN UNCHANGED segmentationVars ELSE messageSend(l)

\* Fault: of what was read ahead the last line is taken and the rest dropped.
FromBuffer_dropped ==
    /\ Loop /\ Readable
    /\ stdio # << >>
    /\ Process(stdio[Len(stdio)])
    /\ stdio' = << >>
    /\ UNCHANGED <<stdin, kernel, ended, eof, typed, serverVars, client>>

\* poll has seen something to read, and getchar takes what it had before.
FromBuffer ==
    /\ Loop /\ Readable
    /\ stdio # << >>
    /\ Process(Head(stdio))
    /\ stdio' = Tail(stdio)
    /\ UNCHANGED <<stdin, kernel, ended, eof, typed, serverVars, client>>

Ends(queue) == {i \in DOMAIN queue : queue[i] = EndOfFile}

\* The lines in a queue; the end of file is in it once at most.
LinesIn(queue) ==
    IF Ends(queue) = {} THEN queue
    ELSE LET end == CHOOSE i \in Ends(queue) : TRUE
         IN  SubSeq(queue, 1, end - 1) \o SubSeq(queue, end + 1, Len(queue))

\* What one read returns and what it leaves: of a terminal a line, of a pipe
\* everything but the end.
Read ==
    IF stdin = "terminal" THEN << <<Head(kernel)>>, Tail(kernel)>>
    ELSE <<LinesIn(kernel), IF Ends(kernel) = {} THEN << >> ELSE <<EndOfFile>> >>

\* Fault: what is behind the first line is not kept.
FromKernel_first ==
    /\ Loop /\ Readable
    /\ stdio = << >> /\ ~eof /\ Head(kernel) # EndOfFile
    /\ Process(Head(Read[1]))
    /\ kernel' = Read[2]
    /\ UNCHANGED <<stdin, ended, stdio, eof, typed, serverVars, client>>

FromKernel ==
    /\ Loop /\ Readable
    /\ stdio = << >> /\ ~eof /\ Head(kernel) # EndOfFile
    /\ Process(Head(Read[1]))
    /\ stdio' = Tail(Read[1])
    /\ kernel' = Read[2]
    /\ UNCHANGED <<stdin, ended, eof, typed, serverVars, client>>

\* A line of 1023 EOFs does not begin with a %.  A terminal is at its end once;
\* what is typed after that is not read any more.
AtEnd ==
    /\ Loop /\ Readable
    /\ stdio = << >> /\ (eof \/ Head(kernel) = EndOfFile)
    /\ eof' = TRUE
    /\ kernel' = IF stdin = "terminal" /\ ~eof THEN Tail(kernel) ELSE kernel
    /\ UNCHANGED <<stdin, ended, stdio, typed, processed, serverVars, client, segmentationVars>>

processStdin == FromBuffer \/ FromKernel \/ AtEnd

\* Fault: the socket is served whatever else is readable.
processMsgFromServer_anyway ==
    /\ Loop
    /\ fromServer > 0
    /\ fromServer' = fromServer - 1
    /\ UNCHANGED <<consoleVars, server, sentByServer, client, segmentationVars>>

processMsgFromServer ==
    /\ Loop /\ ~Readable
    /\ fromServer > 0
    /\ fromServer' = fromServer - 1
    /\ UNCHANGED <<consoleVars, server, sentByServer, client, segmentationVars>>

\* "Server has terminated"; or a send to it raises SIGPIPE.
ServerTerminated ==
    /\ server = "exited"
    /\ \/ Loop /\ ~Readable /\ fromServer = 0
       \/ client = "loop" /\ pc = "text"
    /\ client' = "exited"
    /\ UNCHANGED <<consoleVars, serverVars, segmentationVars>>

SendingLine ==
    /\ client = "loop" /\ Segment
    /\ UNCHANGED <<consoleVars, serverVars, client>>

clientControl == processStdin \/ processMsgFromServer \/ ServerTerminated \/ SendingLine

-----------------------------------------------------------------------------
Init ==
    /\ SegmentationInit
    /\ stdin \in Inputs
    /\ kernel = << >> /\ ended = FALSE /\ stdio = << >> /\ eof = FALSE
    /\ client = "loop" /\ server = "up"
    /\ fromServer = 0 /\ sentByServer = 0
    /\ typed = << >> /\ processed = << >>

Next == Type \/ EndInput \/ ServerSends \/ ServerExits \/ clientControl

Spec == Init /\ [][Next]_vars

\* The client is scheduled; user and server do as they like.
FairSpec == Spec /\ WF_vars(clientControl)

-----------------------------------------------------------------------------
(* Properties *)

\* cclient.c:116-180.  Lines are worked on in the order they were typed and each
\* once, whichever of the kernel's queue and getchar's buffer they wait in, and
\* whether or not the input has ended.
LinesInOrder == processed \o stdio \o LinesIn(kernel) = typed

\* cclient.c:168.  Every line typed is worked on, except what getchar read ahead
\* from a pipe that then stays empty: poll does not see it, and it waits until
\* more is typed.  Of a terminal nothing is held back before its end of file.
TypedIsProcessed ==
    \A k \in 1 .. MaxTyped :
        (Len(typed) >= k) ~>
            \/ Len(processed) >= k
            \/ eof \/ client = "exited"
            \/ stdin = "pipe" /\ stdio # << >> /\ ~Readable

\* cclient.c:168, 99-113.  Once getchar has met the end of an input of which poll goes on
\* reporting it, a pipe's or that of a terminal typed at afterwards, the client hears
\* nothing of the server again, not even that it is gone: it warns of incorrect lines
\* for ever.
DeafAfterEnd ==
    [][eof /\ Readable /\ client = "loop" =>
          fromServer' >= fromServer /\ client' = "loop" /\ Readable']_vars
=============================================================================
