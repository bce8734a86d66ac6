------------------------------- MODULE Session -------------------------------
(***************************************************************************)
(* The clients' sessions with the daemon: a client sends one request, one  *)
(* of the workers receives it in pieces (interface.c) into a growing       *)
(* buffer (buffer.c), decodes and serves it (queue_worker_serv), replies   *)
(* and closes the socket on some of its paths only; the client reads the   *)
(* reply (client.c).  A client may fall silent, close, or lose its         *)
(* connection at any point.  Texts are only counted.  A request is a first *)
(* line of Hdr bytes that holds the size of the rest, and the rest, whose  *)
(* last byte is the last one of the source code; a reply is a first line   *)
(* of RespHead bytes and the verdict in RespBody bytes.                    *)
(*                                                                         *)
(* What a worker keeps while it serves is local to queue_worker_serv, so   *)
(* it is kept here with the connection: wpc[c] is where the worker of      *)
(* connection c is.                                                        *)
(***************************************************************************)
EXTENDS Naturals, FiniteSets

CONSTANTS Clients,
          WorkerCounts, \* possible numbers of worker threads
          BodySizes,    \* sizes of requests without their first line
          Asks,         \* what each client may ask for: kinds and sizes
          Hdr, RespHead, RespBody,
          RcvMax,       \* size of the receive buffer
          SizeMax,      \* REQUEST_SIZE_MAX
          Default,      \* BUFFER_DEFAULT_SIZE
          Block,        \* a buffer grows to a multiple of Block (1024)
          Slow          \* clients whose reply may arrive in pieces

ASSUME SessionAssumption ==
  /\ WorkerCounts \subseteq Nat \ {0}
  /\ \A c \in Clients : Asks[c] \subseteq {"judge", "setfeed", "malformed"} \X BodySizes
  /\ BodySizes \subseteq Nat \ {0} /\ Hdr \in Nat \ {0, 1} /\ RcvMax \in Nat \ {0}
  /\ RespHead \in Nat \ {0, 1} /\ RespBody \in Nat \ {0}
  /\ SizeMax \in Nat /\ Block \in Nat \ {0} /\ Default \in 1..Block
  /\ Slow \subseteq Clients

Kinds == {"judge", "setfeed", "malformed"}
Resp == RespHead + RespBody

VARIABLES
  up,             \* the daemon runs
  workers,        \* g_num_worker_threads
  kind, body,     \* each client's request
  cpc, got,       \* each client: control and bytes of the reply received
  first, want,    \* how much of it came first; size_expected
  sent, queued,   \* bytes of the request sent; connections not served yet
  sock,           \* client_socket in the daemon: "none", "open", "closed"
  reply,          \* the verdict sent, or "none"
  judged,         \* clients whose program was handed to jug_runner_judge
  wpc,            \* the worker of each connection
  acc, len,       \* its read_size_acc and the size of its request_buffer
  meta, text      \* metadata_read; bytes of the sliced buffer

cliVars == <<cpc, got, first, want>>
reqVars == <<workers, kind, body>>
conVars == <<sock, reply, judged>>
recvVars == <<acc, len, meta, text>>
vars == <<up, reqVars, cliVars, sent, queued, conVars, wpc, recvVars>>

Replies == {"none", "ACCEPTED", "OTHER", "COMPILE", "INTERNAL"}

\* The size of a request.
Total(c) == Hdr + body[c]

Init ==
  /\ up = TRUE /\ workers \in WorkerCounts
  /\ kind \in [Clients -> Kinds] /\ body \in [Clients -> BodySizes]
  /\ \A c \in Clients : <<kind[c], body[c]>> \in Asks[c]
  /\ cpc = [c \in Clients |-> "start"] /\ got = [c \in Clients |-> 0]
  /\ first = [c \in Clients |-> 0] /\ want = [c \in Clients |-> 0]
  /\ sent = [c \in Clients |-> 0] /\ queued = {}
  /\ sock = [c \in Clients |-> "none"] /\ reply = [c \in Clients |-> "none"]
  /\ judged = {} /\ wpc = [c \in Clients |-> "idle"]
  /\ acc = [c \in Clients |-> 0] /\ len = [c \in Clients |-> Default]
  /\ meta = [c \in Clients |-> FALSE] /\ text = [c \in Clients |-> 0]

Smaller(a, b) == IF a <= b THEN a ELSE b

-----------------------------------------------------------------------------
(* The accept loop.                                                        *)

\* A client connects; the connection waits in the queue for a worker.
Accept(c) ==
  /\ up /\ cpc[c] = "start"
  /\ cpc' = [cpc EXCEPT ![c] = "send"]
  /\ sock' = [sock EXCEPT ![c] = "open"]
  /\ queued' = queued \cup {c}
  /\ UNCHANGED <<up, reqVars, got, first, want, sent, reply, judged, wpc, recvVars>>

\* accept() fails, for want of a descriptor or because the client is gone, and
\* the daemon returns.
AcceptFails(c) ==
  /\ up /\ cpc[c] = "start"
  /\ up' = FALSE
  /\ UNCHANGED <<reqVars, cliVars, sent, queued, conVars, wpc, recvVars>>

-----------------------------------------------------------------------------
(* The workers.                                                            *)

\* The connections that have a worker.
Busy == {c \in Clients : wpc[c] # "idle"}

\* Mutant of Serve: the connection stays in the queue.
Serve_Again(c) ==
  /\ up /\ Cardinality(Busy) < workers /\ c \in queued /\ wpc[c] = "idle"
  /\ wpc' = [wpc EXCEPT ![c] = "recv"]
  /\ acc' = [acc EXCEPT ![c] = 0] /\ len' = [len EXCEPT ![c] = Default]
  /\ meta' = [meta EXCEPT ![c] = FALSE] /\ text' = [text EXCEPT ![c] = 0]
  /\ UNCHANGED <<up, reqVars, cliVars, sent, queued, conVars>>

\* A worker that is free pops the connection.
Serve(c) ==
  /\ up /\ Cardinality(Busy) < workers /\ c \in queued
  /\ wpc' = [wpc EXCEPT ![c] = "recv"] /\ queued' = queued \ {c}
  /\ acc' = [acc EXCEPT ![c] = 0] /\ len' = [len EXCEPT ![c] = Default]
  /\ meta' = [meta EXCEPT ![c] = FALSE] /\ text' = [text EXCEPT ![c] = 0]
  /\ UNCHANGED <<up, reqVars, cliVars, sent, conVars>>

\* jug_int_send_verdict, after which the worker returns.  A connection that was
\* reset refuses the reply, or raises SIGPIPE, which nobody handles.
SendVerdict(c, v) ==
  \/ /\ cpc[c] # "reset"
     /\ reply' = [reply EXCEPT ![c] = v]
     /\ wpc' = [wpc EXCEPT ![c] = "idle"] /\ UNCHANGED up
  \/ /\ cpc[c] = "reset"
     /\ wpc' = [wpc EXCEPT ![c] = "idle"] /\ UNCHANGED <<up, reply>>
  \/ /\ cpc[c] = "reset"
     /\ up' = FALSE /\ UNCHANGED <<wpc, reply>>

\* Size of the buffer after buffer_append_n.
Grow(c, n) == IF len[c] > n THEN len[c] ELSE ((n + Block - 1) \div Block) * Block

\* Mutant of Receive: a recv that does not fill the buffer ends the request.
Receive_ShortRead(c, n) ==
  /\ up /\ wpc[c] = "recv" /\ n <= sent[c] - acc[c]
  /\ acc[c] + n < SizeMax
  /\ acc' = [acc EXCEPT ![c] = @ + n] /\ len' = [len EXCEPT ![c] = Grow(c, acc[c] + n)]
  /\ meta' = [meta EXCEPT ![c] = @ \/ acc[c] + n >= Hdr]
  /\ wpc' = [wpc EXCEPT ![c] = IF acc[c] + n >= Hdr /\ n < RcvMax THEN "slice" ELSE "recv"]
  /\ UNCHANGED <<up, reqVars, cliVars, sent, queued, conVars, text>>

\* One recv of n bytes.
Receive(c, n) ==
  /\ up /\ wpc[c] = "recv" /\ n <= sent[c] - acc[c]
  /\ acc[c] + n < SizeMax
  /\ acc' = [acc EXCEPT ![c] = @ + n] /\ len' = [len EXCEPT ![c] = Grow(c, acc[c] + n)]
  /\ meta' = [meta EXCEPT ![c] = @ \/ acc[c] + n >= Hdr]
  /\ wpc' = [wpc EXCEPT ![c] = IF meta'[c] /\ acc[c] + n >= Hdr + body[c] THEN "slice" ELSE "recv"]
  /\ UNCHANGED <<up, reqVars, cliVars, sent, queued, conVars, text>>

\* queue_worker_serv sends VERDICT_INTERNAL and returns without a close.
ReceiveTooLarge(c, n) ==
  /\ up /\ wpc[c] = "recv" /\ n <= sent[c] - acc[c]
  /\ acc[c] + n >= SizeMax
  /\ SendVerdict(c, "INTERNAL")
  /\ UNCHANGED <<reqVars, cliVars, sent, queued, sock, judged, recvVars>>

\* The same when recv fails, or there is no memory to receive into.
ReceiveFails(c) ==
  /\ up /\ wpc[c] = "recv"
  /\ cpc[c] = "reset" \/ acc[c] = 0
  /\ SendVerdict(c, "INTERNAL")
  /\ UNCHANGED <<reqVars, cliVars, sent, queued, sock, judged, recvVars>>

\* Mutant of ReceiveEnd: 0 is taken for a piece like another.
ReceiveEnd_Waits(c) ==
  /\ up /\ wpc[c] = "recv" /\ cpc[c] = "gone" /\ acc[c] = sent[c]
  /\ UNCHANGED vars

\* recv returns 0: the client is gone, and the worker goes on with what it has.
ReceiveEnd(c) ==
  /\ up /\ wpc[c] = "recv" /\ cpc[c] = "gone" /\ acc[c] = sent[c]
  /\ wpc' = [wpc EXCEPT ![c] = "slice"]
  /\ UNCHANGED <<up, reqVars, cliVars, sent, queued, conVars, recvVars>>

\* buffer_slice(request_buffer, body_start_index + 1, buffer_size - 1), whose
\* end is exclusive and cut to the length of the text; body_start_index is -1
\* when there is no first line.
Slice(c) ==
  /\ up /\ wpc[c] = "slice" /\ wpc' = [wpc EXCEPT ![c] = "decode"]
  /\ text' = [text EXCEPT ![c] = Smaller(len[c] - 1, acc[c]) - (IF meta[c] THEN Hdr ELSE 0)]
  /\ UNCHANGED <<up, reqVars, cliVars, sent, queued, conVars, acc, len, meta>>

\* The request is cut short, by its last byte or by a client that is gone.
Cut(c) == ~meta[c] \/ text[c] < body[c]

\* The request is not understood: the code sends VERDICT_ACCEPTED and leaves
\* the socket open.
DecodeFails(c) ==
  /\ up /\ wpc[c] = "decode" /\ (kind[c] = "malformed" \/ Cut(c))
  /\ SendVerdict(c, "ACCEPTED")
  /\ UNCHANGED <<reqVars, cliVars, sent, queued, sock, judged, recvVars>>

\* A text that ends within a line: the search for the end of the line goes on
\* behind the text, finds a line feed there, or ends the daemon.  The last line
\* of a whole request holds the source code, whose end is not searched for.
DecodeOverruns(c) ==
  /\ up /\ wpc[c] = "decode"
  /\ \/ kind[c] = "malformed"
     \/ Cut(c) /\ (cpc[c] = "gone" \/ kind[c] = "setfeed")
  /\ \/ up' = FALSE /\ UNCHANGED wpc
     \/ wpc' = [wpc EXCEPT ![c] = "serve"] /\ UNCHANGED up
  /\ UNCHANGED <<reqVars, cliVars, sent, queued, conVars, recvVars>>

Decode(c) ==
  /\ up /\ wpc[c] = "decode" /\ kind[c] # "malformed" /\ ~Cut(c)
  /\ wpc' = [wpc EXCEPT ![c] = "serve"]
  /\ UNCHANGED <<up, reqVars, cliVars, sent, queued, conVars, recvVars>>

\* "not implemented yet": the worker returns.
SetFeed(c) ==
  /\ up /\ wpc[c] = "serve" /\ kind[c] # "judge"
  /\ wpc' = [wpc EXCEPT ![c] = "idle"]
  /\ UNCHANGED <<up, reqVars, cliVars, sent, queued, conVars, recvVars>>

\* lang_process fails: the source does not compile, or its files fail it.
CompileFails(c, v) ==
  /\ up /\ wpc[c] = "serve" /\ kind[c] # "setfeed" /\ v \in {"COMPILE", "INTERNAL"}
  /\ SendVerdict(c, v)
  /\ sock' = [sock EXCEPT ![c] = "closed"]
  /\ UNCHANGED <<reqVars, cliVars, sent, queued, judged, recvVars>>

\* Mutant of Judge: a source that was judged before is not judged again.
Judge_OnlyOnce(c) ==
  /\ up /\ wpc[c] = "serve" /\ kind[c] # "setfeed"
  /\ judged' = IF judged = {} THEN {c} ELSE judged
  /\ wpc' = [wpc EXCEPT ![c] = "run"]
  /\ UNCHANGED <<up, reqVars, cliVars, sent, queued, sock, reply, recvVars>>

\* The program is handed to jug_runner_judge.
Judge(c) ==
  /\ up /\ wpc[c] = "serve" /\ kind[c] # "setfeed"
  /\ judged' = judged \cup {c}
  /\ wpc' = [wpc EXCEPT ![c] = "run"]
  /\ UNCHANGED <<up, reqVars, cliVars, sent, queued, sock, reply, recvVars>>

\* jug_runner_judge does not return (Judge.tla and Template.tla say when).
JudgeHangs(c) ==
  /\ up /\ wpc[c] = "run"
  /\ wpc' = [wpc EXCEPT ![c] = "hung"]
  /\ UNCHANGED <<up, reqVars, cliVars, sent, queued, conVars, recvVars>>

\* The verdict of jug_runner_judge, whatever it is about: reply and close.
Reply(c, v) ==
  /\ up /\ wpc[c] = "run" /\ v \in {"ACCEPTED", "OTHER", "INTERNAL"}
  /\ SendVerdict(c, v)
  /\ sock' = [sock EXCEPT ![c] = "closed"]
  /\ UNCHANGED <<reqVars, cliVars, sent, queued, judged, recvVars>>

-----------------------------------------------------------------------------
(* The clients.                                                            *)

\* send() takes as much as it likes while the daemon is there.
Send(c, n) ==
  /\ up /\ cpc[c] = "send" /\ sent[c] + n <= Total(c)
  /\ sent' = [sent EXCEPT ![c] = @ + n]
  /\ cpc' = [cpc EXCEPT ![c] = IF sent[c] + n = Total(c) THEN "head" ELSE "send"]
  /\ UNCHANGED <<up, reqVars, got, first, want, queued, conVars, wpc, recvVars>>

\* The client sends no more and keeps its connection: it hangs, or has announced
\* more than it has.
FallSilent(c) ==
  /\ up /\ cpc[c] = "send" /\ cpc' = [cpc EXCEPT ![c] = "silent"]
  /\ UNCHANGED <<up, reqVars, got, first, want, sent, queued, conVars, wpc, recvVars>>

\* The client is killed or closes its socket, in order or with a reset.
GiveUp(c) ==
  /\ up /\ cpc[c] \in {"send", "silent", "head", "rest"}
  /\ \E l \in {"gone", "reset"} : cpc' = [cpc EXCEPT ![c] = l]
  /\ UNCHANGED <<up, reqVars, got, first, want, sent, queued, conVars, wpc, recvVars>>

\* What recv may return to the client: the daemon sends a reply by one call.
Available(c) == IF reply[c] = "none" THEN 0 ELSE Resp - got[c]

\* Mutant of Chunks: the two lines of a reply are sent by two calls.
Chunks_TwoSends(c) == {RespHead, RespBody} \cap (1..Available(c))

Chunks(c) == IF c \in Slow THEN 1..Available(c) ELSE {Available(c)} \ {0}

\* The first loop reads until it sees the end of the first line, each time into
\* the start of init_buffer: of a line that came in pieces only the last is kept,
\* and of a size of one digit nothing is left to add.
RecvHead(c) ==
  /\ cpc[c] = "head"
  /\ \E n \in Chunks(c) :
       /\ got' = [got EXCEPT ![c] = @ + n]
       /\ \/ /\ got[c] + n < RespHead /\ UNCHANGED <<cpc, first, want>>
          \/ /\ got[c] + n >= RespHead
             /\ cpc' = [cpc EXCEPT ![c] = "rest"]
             /\ first' = [first EXCEPT ![c] = got[c] + n]
             /\ want' = [want EXCEPT ![c] = IF got[c] = 0 THEN Resp ELSE RespHead - got[c]]
  /\ UNCHANGED <<up, reqVars, sent, queued, conVars, wpc, recvVars>>

\* The second loop calls recv before it looks at what it has: it returns more
\* bytes, or 0 once the daemon has closed the socket, or blocks.
RecvRest(c) ==
  /\ cpc[c] = "rest"
  /\ \E n \in Chunks(c) \cup (IF sock[c] = "closed" /\ Available(c) = 0 THEN {0} ELSE {}) :
       /\ got' = [got EXCEPT ![c] = @ + n]
       /\ cpc' = [cpc EXCEPT ![c] = IF got[c] + n >= want[c] THEN "done" ELSE "rest"]
  /\ UNCHANGED <<up, reqVars, first, want, sent, queued, conVars, wpc, recvVars>>

\* recv fails in one of the loops, for the connection is reset or the daemon has
\* ended: the client says so and ends without a reply.
RecvFails(c) ==
  /\ cpc[c] \in {"head", "rest"}
  /\ cpc' = [cpc EXCEPT ![c] = "reset"]
  /\ UNCHANGED <<up, reqVars, got, first, want, sent, queued, conVars, wpc, recvVars>>

\* The text is ended where the second loop began.
Shown(c) == first[c]

-----------------------------------------------------------------------------
Worker(c) == \/ \E n \in 1..RcvMax : Receive(c, n) \/ ReceiveTooLarge(c, n)
             \/ ReceiveEnd(c) \/ Slice(c) \/ DecodeFails(c) \/ DecodeOverruns(c) \/ Decode(c)
             \/ SetFeed(c) \/ Judge(c)
             \/ \E v \in Replies : CompileFails(c, v) \/ Reply(c, v)
Client(c) == \/ \E n \in 1..Total(c) : Send(c, n)
             \/ RecvHead(c) \/ RecvRest(c)

Next == \E c \in Clients : \/ Accept(c) \/ AcceptFails(c) \/ Serve(c) \/ Worker(c)
                           \/ ReceiveFails(c) \/ JudgeHangs(c)
                           \/ Client(c) \/ FallSilent(c) \/ GiveUp(c) \/ RecvFails(c)

Spec == Init /\ [][Next]_vars

\* The workers and the clients run whenever recv does not block, a free worker
\* serves a connection that waits, and each client's connection is accepted.
\* Nothing is assumed of clients that fall silent, nor of a judgement that hangs.
FairSpec == /\ Spec
            /\ WF_vars(\E c \in Clients : Serve(c))
            /\ \A c \in Clients : /\ WF_vars(Worker(c) \/ (ReceiveFails(c) /\ cpc[c] = "reset"))
                                  /\ WF_vars(Client(c)) /\ WF_vars(Accept(c))

-----------------------------------------------------------------------------
\* However a request comes in pieces, a worker stops receiving only when it has
\* all of it or all that was sent by a client that is gone; what it decodes
\* begins behind the first line, and lacks nothing but, for a text that fills the
\* buffer to the last byte, that byte.
WholeRequest ==
  \A c \in Clients : wpc[c] \in {"decode", "serve", "run", "hung"} =>
    /\ acc[c] = sent[c] /\ (sent[c] = Total(c) \/ cpc[c] = "gone")
    /\ text[c] + (IF acc[c] >= Hdr THEN Hdr ELSE 0)
         = IF acc[c] > 0 /\ acc[c] % Block = 0 THEN acc[c] - 1 ELSE acc[c]

\* The comments of queue_worker_serv: "compile the submission code", then "run
\* the resulting binary inside the sandbox".  A request the client built is
\* answered with a verdict only after that.
WellFormedIsJudged ==
  \A c \in Clients : reply[c] \in {"ACCEPTED", "OTHER"} /\ kind[c] # "malformed" /\ cpc[c] # "gone"
                     => c \in judged

\* How the daemon looks to its clients.
Stage(c) ==
  IF cpc[c] = "start" THEN "new"
  ELSE IF wpc[c] # "idle" THEN "serving"
  ELSE IF c \in queued THEN "waiting"
  ELSE IF reply[c] # "none" THEN "answered"
  ELSE "dropped"

\* Requests that can be understood: built by a client that stays, of a length that
\* does not fill the buffer to its last byte.
Fit(c) == kind[c] # "malformed" /\ Total(c) % Block # 0 /\ cpc[c] \notin {"gone", "reset"}

JS == INSTANCE JudgeService WITH stage <- [c \in Clients |-> Stage(c)], verdict <- reply,
                                 handed <- judged, fit <- {c \in Clients : Fit(c)}

\* However requests are cut into pieces, wherever clients break off and whatever
\* the other workers do meanwhile, the daemon is a judge: every connection is
\* taken once, by one worker, and answered at most once, and a request that can be
\* understood gets a verdict only on a program that was handed to the runner.
ImplementsJudgeService == JS!Spec

\* Requests that queue_worker_serv serves to the end.
Served(c) == /\ kind[c] = "judge"
             /\ Total(c) % Block # 0 /\ Total(c) < SizeMax

\* A client ends only with its own reply, and shows all of it: the reply is sent
\* by one call, and a client that receives it in one piece depends on that.
ShownIsReply ==
  \A c \in Clients : cpc[c] = "done" =>
    reply[c] # "none" /\ (c \in Slow \/ Shown(c) = Resp)

\* No worker is left: recv has no timeout, so a client that has fallen silent keeps
\* its worker, and so does a judgement that does not end.
Blocked ==
  Cardinality({c \in Clients : wpc[c] = "hung" \/ (wpc[c] = "recv" /\ cpc[c] = "silent")}) = workers

\* The worker could not receive the request of c, and leaves the socket open.
Refused(c) == reply[c] = "INTERNAL" /\ sock[c] = "open"

\* README.md: "The client will receive eventually the verdict from the Judge",
\* whatever the other clients send and wherever they break off, unless it falls
\* silent itself, its request is refused for want of memory, its own judgement
\* hangs, the daemon ends, or all workers are kept for good by silent clients and
\* judgements that do not end.  A reply in pieces is not awaited.
EveryClientEnds ==
  \A c \in Clients :
    \/ <>[]Blocked
    \/ (cpc[c] = "send" /\ Served(c) /\ c \notin Slow)
         ~> (cpc[c] \in {"done", "gone", "reset", "silent"} \/ Refused(c) \/ wpc[c] = "hung" \/ ~up)
=============================================================================
