---------------------------- MODULE SessionProofs ----------------------------
(***************************************************************************)
(* Proofs about Session, for every number of clients and workers, every    *)
(* size of the requests and buffers and every way to cut a request and a   *)
(* reply into pieces: what a worker decodes is the request, but for the    *)
(* last byte of one that fills the buffer, what a client shows is its      *)
(* reply, and the whole is the judge of JudgeService: every client is      *)
(* taken once.  What a worker keeps belongs to one connection, so the      *)
(* invariant speaks of one connection at a time and a step of one leaves   *)
(* the others alone.                                                       *)
(***************************************************************************)
EXTENDS Session, Integers, TLAPS

Serving == {"recv", "slice", "decode", "serve", "run", "hung"}
Received == {"slice", "decode", "serve", "run", "hung"}
Sliced == {"decode", "serve", "run", "hung"}
ClientAt == {"start", "send", "silent", "head", "rest", "done", "gone", "reset"}

Types ==
  /\ cpc \in [Clients -> ClientAt] /\ body \in [Clients -> Nat \ {0}]
  /\ sent \in [Clients -> Nat] /\ wpc \in [Clients -> Serving \cup {"idle"}]
  /\ acc \in [Clients -> Nat] /\ len \in [Clients -> Nat]
  /\ meta \in [Clients -> BOOLEAN] /\ text \in [Clients -> Int]
  /\ got \in [Clients -> Nat] /\ first \in [Clients -> Nat] /\ reply \in [Clients -> Replies]

\* How much of its request a client has sent.
Sending(c) ==
  /\ sent[c] <= Total(c)
  /\ cpc[c] = "start" => sent[c] = 0
  /\ cpc[c] \in {"send", "silent"} => sent[c] < Total(c)
  /\ cpc[c] \in {"head", "rest", "done"} => sent[c] = Total(c)

\* What its worker has: the first line, and all there is when it stops receiving.
Receiving(c) ==
  /\ wpc[c] \in Serving => (meta[c] <=> acc[c] >= Hdr)
  /\ wpc[c] = "recv" => acc[c] <= sent[c]
  /\ wpc[c] \in Received => acc[c] = sent[c] /\ (sent[c] = Total(c) \/ cpc[c] = "gone")

\* A buffer that has grown is a number of blocks, the last of which is in use.
Fits(l, a) ==
  \/ l = Default /\ a < Default
  \/ a > 0 /\ a <= l /\ l < a + Block /\ \E q \in Nat : l = q * Block
Buffered(c) == wpc[c] \in Serving => Fits(len[c], acc[c])

\* The text that is decoded.
Kept(a) == IF a > 0 /\ a % Block = 0 THEN a - 1 ELSE a
Head(a) == IF a >= Hdr THEN Hdr ELSE 0
Decoded(c) == wpc[c] \in Sliced => text[c] + Head(acc[c]) = Kept(acc[c])

\* What a client has of its reply.
Reading(c) ==
  /\ got[c] <= Resp
  /\ cpc[c] \in {"start", "send", "silent"} => got[c] = 0
  /\ reply[c] = "none" => got[c] = 0 /\ cpc[c] \notin {"rest", "done"}
  /\ c \notin Slow => /\ cpc[c] = "head" => got[c] = 0
                      /\ cpc[c] \in {"rest", "done"} => first[c] = Resp

\* Nobody is answered who waits or is served, nobody waits who is served, and only
\* who was handed to the runner is in its hands.
Once(c) ==
  /\ c \in queued => cpc[c] # "start"
  /\ cpc[c] = "start" \/ c \in queued => wpc[c] = "idle" /\ reply[c] = "none" /\ c \notin judged
  /\ wpc[c] \in Serving => reply[c] = "none" /\ (c \in judged <=> wpc[c] \in {"run", "hung"})

Good(c) == Sending(c) /\ Receiving(c) /\ Buffered(c) /\ Decoded(c) /\ Reading(c) /\ Once(c)

Inv == Types /\ \A c \in Clients : Good(c)

-----------------------------------------------------------------------------
\* What the proofs need of the constants.
LEMMA Sizes == /\ Hdr \in Nat /\ Hdr > 1 /\ RespHead \in Nat /\ RespHead > 1 /\ RespBody \in Nat /\ RespBody > 0
               /\ Block \in Nat \ {0} /\ Default \in Nat /\ Default > 0 /\ Default <= Block
               /\ BodySizes \subseteq Nat \ {0}
  BY SessionAssumption

\* A size is rounded up to blocks, the last of which is in use.
LEMMA Rounded ==
  ASSUME NEW n \in Nat
  PROVE  LET q == (n + Block - 1) \div Block
         IN  q \in Nat /\ q * Block \in Nat /\ n <= q * Block /\ q * Block < n + Block
<1> DEFINE q == (n + Block - 1) \div Block
<1>1. q \in Nat  BY Sizes
<1>2. n <= q * Block  BY Sizes
<1>3. q * Block < n + Block  BY Sizes
<1>4. q * Block \in Nat  BY <1>1, Sizes
<1>. QED  BY <1>1, <1>2, <1>3, <1>4

\* A number of blocks that holds a text and is not a block too long ends with the text
\* exactly when the text is a number of blocks.
LEMMA FullBlocks ==
  ASSUME NEW a \in Nat, NEW q \in Nat, a <= q * Block, q * Block < a + Block
  PROVE  a % Block = 0 <=> a = q * Block
<1>1. ASSUME a % Block = 0 PROVE a = q * Block
  <2>1. a = (a \div Block) * Block /\ a \div Block \in Nat  BY <1>1, Sizes
  <2> DEFINE p == a \div Block
  <2>2. p * Block <= q * Block /\ q * Block < p * Block + Block /\ p \in Nat  BY <2>1
  <2> HIDE DEF p
  <2>3. p = q  BY <2>2, Sizes
  <2>. QED  BY <2>1, <2>3 DEF p
<1>2. a = q * Block => a % Block = 0  BY Sizes
<1>. QED  BY <1>1, <1>2

\* buffer_append_n keeps the buffer as long as its text needs it.
LEMMA Grows ==
  ASSUME NEW c, NEW n \in Nat, n > 0, len[c] \in Nat, NEW a \in Nat, a <= n, Fits(len[c], a)
  PROVE  Grow(c, n) \in Nat /\ Fits(Grow(c, n), n)
<1>1. CASE len[c] > n
  <2>1. Grow(c, n) = len[c]  BY <1>1 DEF Grow
  <2>2. CASE len[c] = Default  BY <1>1, <2>1, <2>2 DEF Fits
  <2>3. CASE a <= len[c] /\ len[c] < a + Block /\ \E q \in Nat : len[c] = q * Block
    <3>1. n <= len[c] /\ len[c] < n + Block  BY <1>1, <2>3, Sizes
    <3>. QED  BY <2>1, <2>3, <3>1 DEF Fits
  <2>. QED  BY <2>2, <2>3 DEF Fits
<1>2. CASE ~(len[c] > n)
  <2> DEFINE q == (n + Block - 1) \div Block
  <2>1. Grow(c, n) = q * Block  BY <1>2 DEF Grow
  <2>2. q \in Nat /\ q * Block \in Nat /\ n <= q * Block /\ q * Block < n + Block  BY Rounded
  <2> HIDE DEF q
  <2>. QED  BY <2>1, <2>2 DEF Fits
<1>. QED  BY <1>1, <1>2

\* The text that buffer_slice cuts out of the buffer lacks the byte that fills it.
LEMMA Slices ==
  ASSUME NEW l \in Nat, NEW a \in Nat, Fits(l, a)
  PROVE  Smaller(l - 1, a) = Kept(a)
<1>1. CASE l = Default /\ a < Default
  <2>1. a > 0 => a % Block = a  BY <1>1, Sizes
  <2>2. a <= l - 1  BY <1>1, Sizes
  <2>. QED  BY <2>1, <2>2 DEF Smaller, Kept
<1>2. CASE a > 0 /\ a <= l /\ l < a + Block /\ \E q \in Nat : l = q * Block
  <2>1. PICK q \in Nat : l = q * Block  BY <1>2
  <2>2. a % Block = 0 <=> a = l  BY <1>2, <2>1, FullBlocks
  <2>. QED  BY <1>2, <2>2 DEF Smaller, Kept
<1>. QED  BY <1>1, <1>2 DEF Fits

-----------------------------------------------------------------------------
\* A step of connection c.
Others(c) ==
  \A e \in Clients : e # c =>
    /\ cpc'[e] = cpc[e] /\ sent'[e] = sent[e] /\ wpc'[e] = wpc[e] /\ acc'[e] = acc[e]
    /\ len'[e] = len[e] /\ meta'[e] = meta[e] /\ text'[e] = text[e] /\ got'[e] = got[e]
    /\ first'[e] = first[e] /\ reply'[e] = reply[e]
    /\ (e \in queued' <=> e \in queued) /\ (e \in judged' <=> e \in judged)

LEMMA OthersStay ==
  ASSUME Inv, Types', NEW c \in Clients, Others(c), body' = body, Good(c)'
  PROVE  Inv'
<1>1. ASSUME NEW e \in Clients, e # c PROVE Good(e)'
  <2>1. Good(e)  BY DEF Inv
  <2>. QED  BY <1>1, <2>1 DEF Others, Good, Sending, Total, Receiving, Buffered, Decoded, Reading, Once
<1>. QED  BY <1>1 DEF Inv

\* The client of c moves on, and what the daemon has of it stays.
LEMMA ClientMoves ==
  ASSUME Inv, NEW c \in Clients, NEW l \in ClientAt, cpc' = [cpc EXCEPT ![c] = l], cpc[c] # "start",
         l \notin {"start", "rest", "done"}, wpc[c] \in Received => l \notin {"send", "silent", "head"},
         l \in {"send", "silent"} => cpc[c] = "send", l = "head" => cpc[c] = "send",
         NEW s \in Nat, sent' = [sent EXCEPT ![c] = s], sent[c] <= s, s <= Total(c),
         l \in {"send", "silent"} => s < Total(c), l = "head" => s = Total(c),
         l \in {"gone", "reset"} => s = sent[c],
         wpc[c] \in Received => sent[c] = s /\ cpc[c] \notin {"send", "silent", "gone"},
         UNCHANGED <<body, got, first, reply, queued, judged, wpc, recvVars>>
  PROVE  Inv'
<1> USE DEF recvVars
<1>0. Types /\ Good(c)  BY DEF Inv
<1>1. Types'  BY <1>0 DEF Types
<1>2. Others(c)  BY <1>0 DEF Others, Types
<1>3. cpc'[c] = l /\ sent'[c] = s /\ Total(c)' = Total(c)  BY <1>0 DEF Types, Total
<1>4. Sending(c)'  BY <1>3, <1>0 DEF Sending
<1>5. Receiving(c)'
  <2>1. wpc[c] = "recv" => acc[c] <= s
    <3>1. acc[c] \in Nat /\ sent[c] \in Nat  BY <1>0 DEF Types
    <3>. QED  BY <1>0, <3>1 DEF Good, Receiving
  <2>2. wpc[c] \in Received => acc[c] = s /\ s = Total(c)
    <3>1. wpc[c] \in Received => acc[c] = sent[c] /\ (sent[c] = Total(c) \/ cpc[c] = "gone")
      BY <1>0 DEF Good, Receiving
    <3>. QED  BY <3>1
  <2>. QED  BY <1>0, <1>3, <2>1, <2>2 DEF Good, Receiving
<1>6. Buffered(c)' /\ Decoded(c)'  BY <1>0 DEF Good, Buffered, Decoded
<1>7. Reading(c)'  BY <1>0, <1>3 DEF Good, Reading, Types
<1>8. Once(c)'  BY <1>0, <1>3 DEF Good, Once
<1>. QED  BY <1>1, <1>2, <1>4, <1>5, <1>6, <1>7, <1>8, OthersStay DEF Good

\* The steps of a client up to its request preserve the invariant.
LEMMA ClientSends ==
  ASSUME Inv, NEW c \in Clients,
         \/ AcceptFails(c) \/ Accept(c) \/ FallSilent(c) \/ GiveUp(c) \/ RecvFails(c)
         \/ \E n \in 1..Total(c) : Send(c, n)
  PROVE  Inv'
<1> USE DEF reqVars, cliVars, conVars
<1>0. Types /\ Good(c)  BY DEF Inv
<1>t. body[c] \in Nat /\ body[c] # 0 /\ sent[c] \in Nat /\ Hdr \in Nat /\ Total(c) \in Nat /\ Total(c) > 0
  BY <1>0, Sizes DEF Types, Total
<1>r. wpc[c] \in Received => cpc[c] \notin {"start", "send", "silent"}
  <2>1. wpc[c] \in Received => sent[c] = Total(c) \/ cpc[c] = "gone"  BY <1>0 DEF Good, Receiving
  <2>2. cpc[c] \in {"send", "silent"} => sent[c] < Total(c)  BY <1>0 DEF Good, Sending
  <2>3. cpc[c] = "start" => wpc[c] = "idle"  BY <1>0 DEF Good, Once
  <2>. QED  BY <1>t, <2>1, <2>2, <2>3 DEF Received
<1>s. sent' = sent => sent' = [sent EXCEPT ![c] = sent[c]]  BY <1>0 DEF Types
<1>1. CASE Accept(c)
  <2>1. /\ cpc[c] = "start" /\ cpc' = [cpc EXCEPT ![c] = "send"] /\ queued' = queued \cup {c}
        /\ UNCHANGED <<sent, body, wpc, recvVars, got, first, reply, judged>>
    BY <1>1 DEF Accept
  <2>2. Types'  BY <1>0, <2>1 DEF Types, ClientAt, recvVars
  <2>3. Others(c)  BY <1>0, <2>1 DEF Others, Types, recvVars
  <2>4. cpc'[c] = "send"  BY <1>0, <2>1 DEF Types
  <2>5. sent[c] = 0 /\ wpc[c] = "idle" /\ reply[c] = "none" /\ c \notin judged
    BY <1>0, <2>1 DEF Good, Sending, Once
  <2>6. Sending(c)'
    <3>1. sent[c] < Total(c) /\ sent[c] <= Total(c)  BY <1>t, <2>5
    <3>. QED  BY <2>1, <2>4, <3>1 DEF Sending, Total
  <2>7. Receiving(c)' /\ Buffered(c)' /\ Decoded(c)' /\ Once(c)'
    BY <2>1, <2>4, <2>5 DEF Receiving, Buffered, Decoded, Once, Serving, Received, Sliced
  <2>8. Reading(c)'  BY <1>0, <2>1, <2>4 DEF Good, Reading
  <2>. QED  BY <2>1, <2>2, <2>3, <2>6, <2>7, <2>8, OthersStay DEF Good
<1>2. CASE AcceptFails(c)
  BY <1>2 DEF AcceptFails, Inv, Types, Good, Sending, Total, Receiving, Buffered, Decoded, Reading, Once, recvVars
<1>3. ASSUME NEW n \in 1..Total(c), Send(c, n) PROVE Inv'
  <2> DEFINE s == sent[c] + n
             l == IF s = Total(c) THEN "head" ELSE "send"
  <2>1. /\ cpc[c] = "send" /\ s <= Total(c) /\ sent' = [sent EXCEPT ![c] = s] /\ cpc' = [cpc EXCEPT ![c] = l]
        /\ UNCHANGED <<body, queued, wpc, recvVars, got, first, reply, judged>>
    BY <1>3 DEF Send
  <2>2. s \in Nat /\ sent[c] <= s  BY <1>t
  <2>3. l = "head" => s = Total(c)  OBVIOUS
  <2>4. l # "head" => s < Total(c)  BY <1>t, <2>1, <2>2
  <2>5. l \in {"head", "send"} /\ wpc[c] \notin Received  BY <1>r, <2>1
  <2> HIDE DEF s, l
  <2>. QED  BY <2>1, <2>2, <2>3, <2>4, <2>5, ClientMoves DEF ClientAt
<1>4. CASE FallSilent(c)
  <2>1. /\ cpc[c] = "send" /\ cpc' = [cpc EXCEPT ![c] = "silent"] /\ sent' = [sent EXCEPT ![c] = sent[c]]
        /\ UNCHANGED <<body, queued, wpc, recvVars, got, first, reply, judged>>
    BY <1>4, <1>s DEF FallSilent
  <2>2. sent[c] < Total(c) /\ sent[c] <= Total(c) /\ sent[c] <= sent[c]  BY <1>0, <1>t, <2>1 DEF Good, Sending
  <2>. QED  BY <1>r, <1>t, <2>1, <2>2, ClientMoves DEF ClientAt
<1>5. CASE GiveUp(c) \/ RecvFails(c)
  <2>1. /\ cpc[c] \in {"send", "silent", "head", "rest"} /\ sent' = [sent EXCEPT ![c] = sent[c]]
        /\ UNCHANGED <<body, queued, wpc, recvVars, got, first, reply, judged>>
        /\ \E l \in {"gone", "reset"} : cpc' = [cpc EXCEPT ![c] = l]
    BY <1>5, <1>s DEF GiveUp, RecvFails
  <2>2. PICK l \in {"gone", "reset"} : cpc' = [cpc EXCEPT ![c] = l]  BY <2>1
  <2>3. sent[c] <= Total(c) /\ sent[c] <= sent[c]  BY <1>0, <1>t DEF Good, Sending
  <2>. QED  BY <1>r, <1>t, <2>1, <2>2, <2>3, ClientMoves DEF ClientAt
<1>. QED  BY <1>1, <1>2, <1>3, <1>4, <1>5

\* What recv returns to a client is a piece of its reply, and all that is left of it
\* unless the connection is a slow one.
LEMMA Pieces ==
  ASSUME Inv, NEW c \in Clients, NEW n \in Chunks(c)
  PROVE  /\ n \in Nat /\ reply[c] # "none" /\ got[c] + n <= Resp
         /\ c \notin Slow => got[c] + n = Resp
<1>1. got[c] \in Nat /\ Resp \in Nat /\ got[c] <= Resp  BY Sizes DEF Inv, Types, Good, Reading, Resp
<1>2. n \in 1..Available(c) /\ (c \notin Slow => n = Available(c))
  <2>1. Available(c) \in Nat  BY <1>1 DEF Available
  <2>. QED  BY <2>1 DEF Chunks
<1>3. reply[c] # "none"
  <2>1. Available(c) # 0  BY <1>2
  <2>. QED  BY <2>1 DEF Available
<1>4. Available(c) = Resp - got[c]  BY <1>3 DEF Available
<1>. QED  BY <1>1, <1>2, <1>3, <1>4

\* So do the steps by which it reads its reply.
LEMMA ClientReads ==
  ASSUME Inv, NEW c \in Clients, RecvHead(c) \/ RecvRest(c)
  PROVE  Inv'
<1> USE DEF reqVars, cliVars, conVars
<1>0. Types /\ Good(c)  BY DEF Inv
<1>4. ASSUME NEW n \in Nat, reply[c] # "none", got[c] + n <= Resp, cpc[c] \in {"head", "rest"},
             got' = [got EXCEPT ![c] = got[c] + n],
             \/ c \in Slow /\ UNCHANGED <<cpc, first>>
             \/ \E l \in {"rest", "done"} : cpc' = [cpc EXCEPT ![c] = l] /\ cpc[c] = "rest" /\ UNCHANGED first
             \/ /\ cpc' = [cpc EXCEPT ![c] = "rest"] /\ first' = [first EXCEPT ![c] = got[c] + n]
                /\ c \in Slow \/ got[c] + n = Resp,
             UNCHANGED <<body, sent, queued, reply, judged, wpc, recvVars>>
      PROVE  Inv'
  <2> USE DEF recvVars
  <2>1. got[c] + n \in Nat  BY <1>0 DEF Types
  <2>2. cpc' \in [Clients -> ClientAt] /\ cpc'[c] \in {"head", "rest", "done"}
    BY <1>0, <1>4 DEF Types, ClientAt
  <2>3. Types'
    <3>1. got' \in [Clients -> Nat]  BY <1>0, <1>4, <2>1 DEF Types
    <3>2. first' \in [Clients -> Nat]  BY <1>0, <1>4, <2>1 DEF Types
    <3>. QED  BY <1>0, <1>4, <2>2, <3>1, <3>2 DEF Types
  <2>4. Others(c)  BY <1>0, <1>4 DEF Types, Others
  <2>5. got'[c] = got[c] + n  BY <1>0, <1>4 DEF Types
  <2>6. c \notin Slow => cpc'[c] # "head" /\ first'[c] = Resp
    BY <1>0, <1>4 DEF Types, Good, Reading
  <2>7. Reading(c)'  BY <1>4, <2>2, <2>5, <2>6 DEF Reading
  <2>8. Sending(c)'  BY <1>0, <1>4, <2>2 DEF Good, Sending, Total
  <2>9. Receiving(c)'  BY <1>0, <1>4, <2>2, <2>8 DEF Good, Sending, Total, Receiving
  <2>10. Buffered(c)' /\ Decoded(c)'  BY <1>0, <1>4 DEF Good, Buffered, Decoded
  <2>11. Once(c)'  BY <1>0, <1>4, <2>2 DEF Good, Once
  <2>. QED  BY <1>4, <2>3, <2>4, <2>7, <2>8, <2>9, <2>10, <2>11, OthersStay DEF Good
<1>5. CASE RecvHead(c)
  <2>1. PICK n \in Chunks(c) :
          /\ got' = [got EXCEPT ![c] = got[c] + n]
          /\ \/ got[c] + n < RespHead /\ UNCHANGED <<cpc, first, want>>
             \/ /\ cpc' = [cpc EXCEPT ![c] = "rest"]
                /\ first' = [first EXCEPT ![c] = got[c] + n]
    BY <1>5 DEF RecvHead
  <2>2. /\ n \in Nat /\ reply[c] # "none" /\ got[c] + n <= Resp /\ (c \notin Slow => got[c] + n = Resp)
    BY Pieces
  <2>3. got[c] + n < RespHead => c \in Slow
    <3>1. ~(Resp < RespHead)  BY Sizes DEF Resp
    <3>. QED  BY <2>2, <3>1
  <2>4. cpc[c] = "head" /\ UNCHANGED <<body, sent, queued, reply, judged, wpc, recvVars>>  BY <1>5 DEF RecvHead
  <2>. QED  BY <1>4, <2>1, <2>2, <2>3, <2>4
<1>6. CASE RecvRest(c)
  <2>1. PICK n \in Chunks(c) \cup {0} :
          /\ got' = [got EXCEPT ![c] = got[c] + n]
          /\ \E l \in {"rest", "done"} : cpc' = [cpc EXCEPT ![c] = l]
    BY <1>6 DEF RecvRest
  <2>2. cpc[c] = "rest" /\ UNCHANGED <<body, sent, queued, reply, first, judged, wpc, recvVars>>
    BY <1>6 DEF RecvRest
  <2>3. n \in Nat /\ reply[c] # "none" /\ got[c] + n <= Resp
    <3>1. CASE n \in Chunks(c)  BY <3>1, Pieces
    <3>2. CASE n = 0
      <4>1. reply[c] # "none" /\ got[c] <= Resp /\ got[c] \in Nat  BY <1>0, <2>2 DEF Good, Reading, Types
      <4>. QED  BY <3>2, <4>1
    <3>. QED  BY <3>1, <3>2
  <2>. QED  BY <1>4, <2>1, <2>2, <2>3
<1>. QED  BY <1>5, <1>6

-----------------------------------------------------------------------------
\* A worker replies or returns.
LEMMA WorkerReturns ==
  ASSUME Inv, NEW c \in Clients, NEW v \in Replies, wpc[c] \in Serving,
         wpc' = [wpc EXCEPT ![c] = "idle"], reply' = [reply EXCEPT ![c] = v],
         UNCHANGED <<body, cliVars, sent, queued, judged, recvVars>>
  PROVE  Inv'
<1> USE DEF cliVars, recvVars
<1>0. Types /\ Good(c)  BY DEF Inv
<1>1. Types'  BY <1>0 DEF Types
<1>2. Others(c)  BY <1>0 DEF Types, Others
<1>3. wpc'[c] = "idle" /\ reply'[c] = v /\ reply[c] = "none" /\ cpc[c] # "start" /\ c \notin queued
  BY <1>0 DEF Types, Good, Once, Serving
<1>4. Sending(c)' /\ Receiving(c)' /\ Buffered(c)' /\ Decoded(c)'
  BY <1>0, <1>3 DEF Good, Sending, Total, Receiving, Buffered, Decoded, Serving, Received, Sliced
<1>5. Reading(c)' /\ Once(c)'  BY <1>0, <1>3 DEF Good, Reading, Once, Serving
<1>. QED  BY <1>1, <1>2, <1>4, <1>5, OthersStay DEF Good

\* The daemon ends, or a reply is sent, or it cannot be sent.
LEMMA WorkerSends ==
  ASSUME Inv, NEW c \in Clients, NEW v \in Replies, wpc[c] \in Serving, SendVerdict(c, v),
         UNCHANGED <<body, cliVars, sent, queued, judged, recvVars>>
  PROVE  Inv'
<1>0. Types /\ Good(c)  BY DEF Inv
<1>1. CASE UNCHANGED <<wpc, reply>>
  BY <1>1 DEF Inv, Types, Good, Sending, Total, Receiving, Buffered, Decoded, Reading, Once, cliVars, recvVars
<1>2. CASE wpc' = [wpc EXCEPT ![c] = "idle"] /\ reply' = [reply EXCEPT ![c] = v]  BY <1>2, WorkerReturns
<1>3. CASE wpc' = [wpc EXCEPT ![c] = "idle"] /\ UNCHANGED reply
  <2>1. reply' = [reply EXCEPT ![c] = reply[c]] /\ reply[c] \in Replies  BY <1>0, <1>3 DEF Types
  <2>. QED  BY <1>3, <2>1, WorkerReturns
<1>. QED  BY <1>1, <1>2, <1>3 DEF SendVerdict

\* A worker goes on from one place to another, and may hand the program over.
LEMMA WorkerGoes ==
  ASSUME Inv, NEW c \in Clients, NEW l \in Sliced, wpc[c] \in Sliced, wpc' = [wpc EXCEPT ![c] = l],
         judged' = IF l = "run" THEN judged \cup {c} ELSE judged,
         wpc[c] \in {"run", "hung"} <=> l = "hung",
         UNCHANGED <<body, cliVars, sent, queued, reply, recvVars>>
  PROVE  Inv'
<1> USE DEF cliVars, recvVars
<1>0. Types /\ Good(c)  BY DEF Inv
<1>1. Types'  BY <1>0 DEF Types, Sliced, Serving
<1>2. Others(c)  BY <1>0 DEF Types, Others
<1>3. wpc'[c] = l  BY <1>0 DEF Types
<1>4. Sending(c)' /\ Receiving(c)' /\ Buffered(c)' /\ Decoded(c)' /\ Reading(c)'
  BY <1>0, <1>3 DEF Good, Sending, Total, Receiving, Buffered, Decoded, Reading, Serving, Received, Sliced
<1>5. Once(c)'  BY <1>0, <1>3 DEF Good, Once, Serving, Sliced
<1>. QED  BY <1>1, <1>2, <1>4, <1>5, OthersStay DEF Good

\* The steps of the workers preserve the invariant.
LEMMA WorkerKeeps ==
  ASSUME Inv, NEW c \in Clients, Serve(c) \/ Worker(c) \/ ReceiveFails(c) \/ JudgeHangs(c)
  PROVE  Inv'
<1> USE DEF reqVars, conVars
<1>0. Types /\ Good(c)  BY DEF Inv
<1>n. body[c] \in Nat /\ sent[c] \in Nat /\ acc[c] \in Nat /\ len[c] \in Nat /\ Hdr \in Nat /\ Total(c) \in Nat
  BY <1>0, Sizes DEF Types, Total
<1>1. CASE Serve(c)
  <2>1. /\ c \in queued /\ wpc' = [wpc EXCEPT ![c] = "recv"] /\ queued' = queued \ {c}
        /\ acc' = [acc EXCEPT ![c] = 0] /\ len' = [len EXCEPT ![c] = Default]
        /\ meta' = [meta EXCEPT ![c] = FALSE] /\ text' = [text EXCEPT ![c] = 0]
        /\ UNCHANGED <<body, cpc, got, first, sent, reply, judged>>
    BY <1>1 DEF Serve, cliVars
  <2>2. Types'  BY <1>0, <2>1, Sizes DEF Types, Serving
  <2>3. Others(c)  BY <1>0, <2>1 DEF Types, Others
  <2>4. wpc'[c] = "recv" /\ acc'[c] = 0 /\ len'[c] = Default /\ meta'[c] = FALSE  BY <1>0, <2>1 DEF Types
  <2>5. Sending(c)' /\ Reading(c)'  BY <1>0, <2>1 DEF Good, Sending, Total, Reading
  <2>6. Receiving(c)'
    <3>1. ~(0 >= Hdr) /\ 0 <= sent[c]  BY <1>n, Sizes
    <3>. QED  BY <2>1, <2>4, <3>1 DEF Receiving, Received
  <2>7. Buffered(c)'
    <3>1. 0 < Default  BY Sizes
    <3>. QED  BY <2>4, <3>1 DEF Buffered, Fits
  <2>8. Decoded(c)' /\ Once(c)'  BY <1>0, <2>1, <2>4 DEF Good, Decoded, Sliced, Once, Serving
  <2>. QED  BY <2>1, <2>2, <2>3, <2>5, <2>6, <2>7, <2>8, OthersStay DEF Good
<1>2. ASSUME NEW n \in 1..RcvMax, Receive(c, n) PROVE Inv'
  <2> DEFINE a == acc[c] + n
             l == IF meta'[c] /\ a >= Hdr + body[c] THEN "slice" ELSE "recv"
  <2>1. /\ wpc[c] = "recv" /\ n <= sent[c] - acc[c] /\ acc' = [acc EXCEPT ![c] = a]
        /\ len' = [len EXCEPT ![c] = Grow(c, a)] /\ meta' = [meta EXCEPT ![c] = meta[c] \/ a >= Hdr]
        /\ wpc' = [wpc EXCEPT ![c] = l]
        /\ UNCHANGED <<body, cpc, got, first, sent, queued, reply, judged, text>>
    BY <1>2 DEF Receive, cliVars
  <2>2. n \in Nat /\ n > 0  BY SessionAssumption
  <2>3. a \in Nat /\ a > 0 /\ acc[c] <= a /\ a <= sent[c]  BY <1>n, <2>1, <2>2
  <2>4. Grow(c, a) \in Nat /\ Fits(Grow(c, a), a)
    <3>1. Fits(len[c], acc[c])  BY <1>0, <2>1 DEF Good, Buffered, Serving
    <3>. QED  BY <1>n, <2>3, <3>1, Grows
  <2>5. l \in {"recv", "slice"} /\ (l = "slice" => a >= Hdr + body[c])  OBVIOUS
  <2>6. meta[c] <=> acc[c] >= Hdr  BY <1>0, <2>1 DEF Good, Receiving, Serving
  <2>7. (meta[c] \/ a >= Hdr) <=> a >= Hdr
    <3>1. acc[c] >= Hdr => a >= Hdr  BY <1>n, <2>3
    <3>. QED  BY <2>6, <3>1
  <2>8. meta' \in [Clients -> BOOLEAN] /\ (meta'[c] <=> a >= Hdr)  BY <1>0, <2>1, <2>7 DEF Types
  <2> HIDE DEF a, l
  <2>9. Types'  BY <1>0, <2>1, <2>3, <2>4, <2>5, <2>8 DEF Types, Serving
  <2>10. Others(c)  BY <1>0, <2>1 DEF Types, Others
  <2>11. wpc'[c] = l /\ acc'[c] = a /\ len'[c] = Grow(c, a)  BY <1>0, <2>1 DEF Types
  <2>12. Sending(c)' /\ Reading(c)'  BY <1>0, <2>1 DEF Good, Sending, Total, Reading
  <2>13. Receiving(c)'
    <3>1. l = "slice" => a = sent[c] /\ sent[c] = Total(c)
      <4>1. sent[c] <= Total(c) /\ Total(c) = Hdr + body[c]  BY <1>0 DEF Good, Sending, Total
      <4>. QED  BY <1>n, <2>3, <2>5, <4>1
    <3>2. Total(c)' = Total(c)  BY <2>1 DEF Total
    <3>. QED  BY <2>1, <2>3, <2>5, <2>8, <2>11, <3>1, <3>2 DEF Receiving, Received
  <2>14. Buffered(c)'  BY <2>4, <2>11 DEF Buffered
  <2>15. Decoded(c)'  BY <2>5, <2>11 DEF Decoded, Sliced
  <2>16. Once(c)'  BY <1>0, <2>1, <2>5, <2>11 DEF Good, Once, Serving
  <2>. QED  BY <2>1, <2>9, <2>10, <2>12, <2>13, <2>14, <2>15, <2>16, OthersStay DEF Good
<1>3. CASE (\E n \in 1..RcvMax : ReceiveTooLarge(c, n)) \/ ReceiveFails(c) \/ DecodeFails(c)
  <2>1. {"INTERNAL", "ACCEPTED"} \subseteq Replies  BY DEF Replies
  <2>2. /\ wpc[c] \in Serving /\ \E v \in Replies : SendVerdict(c, v)
        /\ UNCHANGED <<body, cliVars, sent, queued, judged, recvVars>>
    BY <1>3, <2>1 DEF ReceiveTooLarge, ReceiveFails, DecodeFails, Serving
  <2>. QED  BY <2>2, WorkerSends
<1>4. CASE \E v \in Replies : CompileFails(c, v) \/ Reply(c, v)
  <2>1. /\ wpc[c] \in Serving /\ \E v \in Replies : SendVerdict(c, v)
        /\ UNCHANGED <<body, cliVars, sent, queued, judged, recvVars>>
    BY <1>4 DEF CompileFails, Reply, Serving
  <2>. QED  BY <2>1, WorkerSends
<1>5. CASE SetFeed(c)
  <2>1. reply' = [reply EXCEPT ![c] = reply[c]] /\ reply[c] \in Replies  BY <1>0, <1>5 DEF Types, SetFeed
  <2>2. wpc[c] \in Serving  BY <1>5 DEF SetFeed, Serving
  <2>. QED  BY <1>5, <2>1, <2>2, WorkerReturns DEF SetFeed
<1>6. CASE ReceiveEnd(c)
  <2> USE DEF cliVars, recvVars
  <2>1. /\ wpc[c] = "recv" /\ cpc[c] = "gone" /\ acc[c] = sent[c] /\ wpc' = [wpc EXCEPT ![c] = "slice"]
        /\ UNCHANGED <<body, cliVars, sent, queued, reply, judged, recvVars>>
    BY <1>6 DEF ReceiveEnd
  <2>2. Types' /\ Others(c) /\ wpc'[c] = "slice"  BY <1>0, <2>1 DEF Types, Others, Serving
  <2>3. Good(c)'
    BY <1>0, <2>1, <2>2 DEF Good, Sending, Total, Receiving, Buffered, Decoded, Reading, Once, Serving, Received, Sliced
  <2>. QED  BY <2>1, <2>2, <2>3, OthersStay
<1>7. CASE Slice(c)
  <2> DEFINE t == Smaller(len[c] - 1, acc[c]) - (IF meta[c] THEN Hdr ELSE 0)
  <2>1. /\ wpc[c] = "slice" /\ wpc' = [wpc EXCEPT ![c] = "decode"] /\ text' = [text EXCEPT ![c] = t]
        /\ UNCHANGED <<body, cpc, got, first, sent, queued, reply, judged, acc, len, meta>>
    BY <1>7 DEF Slice, cliVars
  <2>2. meta[c] <=> acc[c] >= Hdr  BY <1>0, <2>1 DEF Good, Receiving, Serving
  <2>3. Fits(len[c], acc[c])  BY <1>0, <2>1 DEF Good, Buffered, Serving
  <2>4. t = Kept(acc[c]) - Head(acc[c])  BY <1>n, <2>2, <2>3, Slices DEF Head
  <2>5. Kept(acc[c]) \in Nat /\ Head(acc[c]) \in Nat  BY <1>n DEF Kept, Head
  <2>6. t \in Int /\ t + Head(acc[c]) = Kept(acc[c])  BY <2>4, <2>5
  <2> HIDE DEF t
  <2>7. Types' /\ Others(c) /\ wpc'[c] = "decode" /\ text'[c] = t
    BY <1>0, <2>1, <2>6 DEF Types, Others, Serving
  <2>8. Decoded(c)'  BY <2>1, <2>6, <2>7 DEF Decoded, Head, Kept
  <2>9. Sending(c)' /\ Receiving(c)' /\ Buffered(c)' /\ Reading(c)' /\ Once(c)'
    BY <1>0, <2>1, <2>7 DEF Good, Sending, Total, Receiving, Buffered, Reading, Once, Serving, Received
  <2>. QED  BY <2>1, <2>7, <2>8, <2>9, OthersStay DEF Good
<1>8. CASE Decode(c) \/ Judge(c) \/ JudgeHangs(c)
  BY <1>8, WorkerGoes DEF Decode, Judge, JudgeHangs, Sliced
<1>9. CASE DecodeOverruns(c)
  <2>1. CASE wpc' = [wpc EXCEPT ![c] = "serve"]  BY <1>9, <2>1, WorkerGoes DEF DecodeOverruns, Sliced
  <2>2. CASE UNCHANGED wpc
    BY <1>9, <2>2 DEF DecodeOverruns, Inv, Types, Good, Sending, Total, Receiving, Buffered, Decoded, Reading,
                      Once, cliVars, recvVars
  <2>. QED  BY <1>9, <2>1, <2>2 DEF DecodeOverruns
<1>. QED  BY <1>1, <1>2, <1>3, <1>4, <1>5, <1>6, <1>7, <1>8, <1>9 DEF Worker

\* The invariant of the connections holds, however send and recv cut requests and
\* replies into pieces and however many clients break off.
THEOREM InvHolds == Spec => []Inv
<1>1. Init => Inv
  <2> SUFFICES ASSUME Init PROVE Inv  OBVIOUS
  <2>1. body \in [Clients -> Nat \ {0}]  BY Sizes DEF Init
  <2>2. Types
    <3>1. Default \in Nat /\ 0 \in Nat /\ 0 \in Int  BY Sizes
    <3>. QED  BY <2>1, <3>1 DEF Init, Types, Serving, ClientAt, Replies
  <2>3. ASSUME NEW c \in Clients PROVE Good(c)
    <3>1. /\ sent[c] = 0 /\ cpc[c] = "start" /\ wpc[c] = "idle" /\ got[c] = 0 /\ reply[c] = "none"
          /\ queued = {} /\ judged = {}
      BY DEF Init
    <3>2. 0 <= Total(c) /\ 0 <= Resp
      <4>1. body[c] \in Nat  BY <2>1
      <4>. QED  BY <4>1, Sizes DEF Total, Resp
    <3>. QED  BY <3>1, <3>2 DEF Good, Sending, Receiving, Buffered, Decoded, Reading, Once, Serving, Received, Sliced
  <2>. QED  BY <2>2, <2>3 DEF Inv
<1>2. Inv /\ [Next]_vars => Inv'
  <2> SUFFICES ASSUME Inv, [Next]_vars PROVE Inv'  OBVIOUS
  <2>1. CASE Next  BY <2>1, ClientSends, ClientReads, WorkerKeeps DEF Next, Client
  <2>2. CASE UNCHANGED vars
    BY <2>2 DEF vars, reqVars, cliVars, conVars, recvVars, Inv, Types, Good, Sending, Total,
                Receiving, Buffered, Decoded, Reading, Once
  <2>. QED  BY <2>1, <2>2
<1>. QED  BY <1>1, <1>2, PTL DEF Spec

\* What queue_worker_serv decodes is the whole request, or all that a client sent who
\* is gone; only a text that fills the buffer to the last byte loses that byte.
THEOREM DecodesWhole == Spec => []WholeRequest
<1>1. Inv => WholeRequest
  BY DEF Inv, Good, Receiving, Decoded, Head, Kept, WholeRequest, Received, Sliced
<1>. QED  BY <1>1, InvHolds, PTL

\* The client ends only after the daemon replied to it, and shows all of a reply that
\* reaches it in one piece.
THEOREM ShowsReply == Spec => []ShownIsReply
<1>1. Inv => ShownIsReply  BY DEF Inv, Good, Reading, ShownIsReply, Shown
<1>. QED  BY <1>1, InvHolds, PTL

-----------------------------------------------------------------------------
\* A step that the clients cannot tell from none.
LEMMA Unseen ==
  ASSUME UNCHANGED <<up, workers, reply, judged>>, \A c \in Clients : Stage(c)' = Stage(c) /\ Fit(c)' = Fit(c)
  PROVE  UNCHANGED JS!vars
<1>1. [c \in Clients |-> Stage(c)]' = [c \in Clients |-> Stage(c)]  OBVIOUS
<1>2. {c \in Clients : Fit(c)}' = {c \in Clients : Fit(c)}  OBVIOUS
<1>. QED  BY <1>1, <1>2 DEF JS!vars

\* Connecting and breaking off are seen, sending, falling silent and reading are not.
LEMMA ClientSeen ==
  ASSUME Inv, NEW c \in Clients,
         Accept(c) \/ AcceptFails(c) \/ Client(c) \/ FallSilent(c) \/ GiveUp(c) \/ RecvFails(c)
  PROVE  JS!Connect(c) \/ JS!End \/ JS!Leave(c) \/ UNCHANGED JS!vars
<1> USE DEF reqVars, cliVars, conVars, recvVars
<1> DEFINE stage == [e \in Clients |-> Stage(e)]
           fit == {e \in Clients : Fit(e)}
<1>0. Types /\ Good(c)  BY DEF Inv
<1>1. CASE Accept(c)
  <2>1. /\ up /\ cpc[c] = "start" /\ cpc' = [cpc EXCEPT ![c] = "send"] /\ queued' = queued \cup {c}
        /\ UNCHANGED <<up, workers, kind, body, reply, judged, wpc>>
    BY <1>1 DEF Accept
  <2>2. \A e \in Clients : cpc'[e] = IF e = c THEN "send" ELSE cpc[e]  BY <1>0, <2>1 DEF Types
  <2>3. wpc[c] = "idle"  BY <1>0, <2>1 DEF Good, Once
  <2>4. Stage(c) = "new" /\ Stage(c)' = "waiting"  BY <2>1, <2>2, <2>3 DEF Stage
  <2>5. \A e \in Clients : e # c => Stage(e)' = Stage(e)  BY <2>1, <2>2 DEF Stage
  <2>6. \A e \in Clients : Fit(e)' = Fit(e)  BY <2>1, <2>2 DEF Fit, Total
  <2>7. stage' = [stage EXCEPT ![c] = "waiting"] /\ stage[c] = "new"  BY <2>4, <2>5
  <2>8. fit' = fit  BY <2>6
  <2>. QED  BY <2>1, <2>7, <2>8 DEF JS!Connect
<1>2. CASE AcceptFails(c)
  <2>1. \A e \in Clients : Stage(e)' = Stage(e) /\ Fit(e)' = Fit(e)  BY <1>2 DEF AcceptFails, Stage, Fit, Total
  <2>2. stage' = stage /\ fit' = fit  BY <2>1
  <2>. QED  BY <1>2, <2>2 DEF AcceptFails, JS!End
<1>3. ASSUME NEW l, l # "start", cpc[c] # "start", cpc' = [cpc EXCEPT ![c] = l],
             UNCHANGED <<up, kind, body, reply, judged, wpc, queued>>
      PROVE  /\ \A e \in Clients : Stage(e)' = Stage(e)
             /\ \A e \in Clients : e # c \/ {l, cpc[c]} \cap {"gone", "reset"} = {} => Fit(e)' = Fit(e)
  <2>1. \A e \in Clients : cpc'[e] = IF e = c THEN l ELSE cpc[e]  BY <1>0, <1>3 DEF Types
  <2>. QED  BY <1>3, <2>1 DEF Stage, Fit, Total
<1>4. CASE Client(c) \/ FallSilent(c)
  <2>1. PICK l \in {"send", "silent", "head", "rest", "done"} :
          /\ cpc[c] \in {"send", "head", "rest"} /\ cpc' = [cpc EXCEPT ![c] = l]
          /\ UNCHANGED <<up, workers, kind, body, reply, judged, wpc, queued>>
    <3>1. UNCHANGED cpc => cpc' = [cpc EXCEPT ![c] = cpc[c]]  BY <1>0 DEF Types
    <3>. QED  BY <1>4, <3>1 DEF Client, FallSilent, Send, RecvHead, RecvRest
  <2>2. \A e \in Clients : Stage(e)' = Stage(e) /\ Fit(e)' = Fit(e)  BY <1>3, <2>1
  <2>. QED  BY <2>1, <2>2, Unseen
<1>5. CASE GiveUp(c) \/ RecvFails(c)
  <2>1. PICK l \in {"gone", "reset"} :
          /\ cpc[c] # "start" /\ cpc' = [cpc EXCEPT ![c] = l]
          /\ UNCHANGED <<up, workers, kind, body, reply, judged, wpc, queued>>
    BY <1>5 DEF GiveUp, RecvFails
  <2>2. (\A e \in Clients : Stage(e)' = Stage(e)) /\ \A e \in Clients : e # c => Fit(e)' = Fit(e)
    BY <1>3, <2>1
  <2>3. ~Fit(c)'
    <3>1. cpc'[c] \in {"gone", "reset"}  BY <1>0, <2>1 DEF Types
    <3>. QED  BY <3>1 DEF Fit
  <2>4. stage' = stage  BY <2>2
  <2>5. fit' = fit \ {c}  BY <2>2, <2>3
  <2>. QED  BY <2>1, <2>4, <2>5 DEF JS!Leave
<1>. QED  BY <1>1, <1>2, <1>4, <1>5

\* A request that decoding refuses is one that could not be understood.
LEMMA NotFit ==
  ASSUME Inv, NEW c \in Clients, wpc[c] = "decode", kind[c] = "malformed" \/ Cut(c)
  PROVE  ~Fit(c)
<1> SUFFICES ASSUME Fit(c) PROVE FALSE  OBVIOUS
<1>0. Types /\ Good(c)  BY DEF Inv
<1>1. acc[c] = sent[c] /\ sent[c] = Total(c) /\ (meta[c] <=> acc[c] >= Hdr)
  BY <1>0 DEF Good, Receiving, Serving, Received, Fit
<1>2. acc[c] = Hdr + body[c] /\ body[c] \in Nat /\ Hdr \in Nat /\ body[c] # 0  BY <1>0, <1>1, Sizes DEF Types, Total
<1>3. meta[c] /\ acc[c] >= Hdr  BY <1>1, <1>2
<1>4. text[c] \in Int /\ text[c] + Hdr = acc[c]
  <2>1. text[c] + Head(acc[c]) = Kept(acc[c])  BY <1>0 DEF Good, Decoded, Sliced
  <2>2. Head(acc[c]) = Hdr /\ Kept(acc[c]) = acc[c]  BY <1>1, <1>3 DEF Head, Kept, Fit
  <2>. QED  BY <1>0, <2>1, <2>2 DEF Types
<1>5. text[c] < body[c]  BY <1>3 DEF Fit, Cut
<1>6. text[c] + Hdr = Hdr + body[c]  BY <1>2, <1>4
<1>. QED  BY <1>2, <1>4, <1>5, <1>6

\* A worker takes a connection, hands its program over, drops it or answers it.
LEMMA WorkerSeen ==
  ASSUME Inv, NEW c \in Clients, Serve(c) \/ Worker(c) \/ ReceiveFails(c) \/ JudgeHangs(c)
  PROVE  JS!Next \/ UNCHANGED JS!vars
<1> USE DEF reqVars, cliVars, conVars, recvVars
<1> DEFINE stage == [e \in Clients |-> Stage(e)]
           fit == {e \in Clients : Fit(e)}
<1>0. Types /\ Good(c)  BY DEF Inv
<1>f. UNCHANGED <<kind, body, cpc>> => fit' = fit
  <2>1. UNCHANGED <<kind, body, cpc>> => \A e \in Clients : Fit(e)' = Fit(e)  BY DEF Fit, Total
  <2>. QED  BY <2>1
<1>g. wpc[c] \in Serving => Stage(c) = "serving" /\ reply[c] = "none" /\ cpc[c] # "start" /\ c \notin queued
  BY <1>0 DEF Stage, Good, Once, Serving
<1>1. CASE Serve(c)
  <2>1. /\ up /\ Cardinality(Busy) < workers /\ c \in queued
        /\ wpc' = [wpc EXCEPT ![c] = "recv"] /\ queued' = queued \ {c}
        /\ UNCHANGED <<up, workers, kind, body, cpc, reply, judged>>
    BY <1>1 DEF Serve
  <2>2. cpc[c] # "start" /\ wpc[c] = "idle"  BY <1>0, <2>1 DEF Good, Once
  <2>3. \A e \in Clients : wpc'[e] = IF e = c THEN "recv" ELSE wpc[e]  BY <1>0, <2>1 DEF Types
  <2>4. Stage(c) = "waiting" /\ Stage(c)' = "serving"  BY <2>1, <2>2, <2>3 DEF Stage
  <2>5. \A e \in Clients : e # c => Stage(e)' = Stage(e)  BY <2>1, <2>3 DEF Stage
  <2>6. \A e \in Clients : Stage(e) = "serving" <=> wpc[e] # "idle"
    <3>1. \A e \in Clients : cpc[e] = "start" => wpc[e] = "idle"  BY DEF Inv, Good, Once
    <3>. QED  BY <3>1 DEF Stage
  <2>7. {e \in Clients : stage[e] = "serving"} = Busy  BY <2>6 DEF Busy
  <2>8. stage[c] = "waiting" /\ stage' = [stage EXCEPT ![c] = "serving"]  BY <2>4, <2>5
  <2>9. JS!Take(c)
    <3>1. Cardinality({e \in Clients : stage[e] = "serving"}) < workers  BY <2>1, <2>7
    <3>2. JS!Cardinality({e \in Clients : stage[e] = "serving"}) < workers
      BY <3>1 DEF JS!Cardinality, Cardinality
    <3>. QED  BY <1>f, <2>1, <2>8, <3>2 DEF JS!Take
  <2>. QED  BY <2>9 DEF JS!Next
<1>2. ASSUME NEW v \in Replies, wpc[c] \in Serving, wpc' = [wpc EXCEPT ![c] = "idle"],
             reply' = [reply EXCEPT ![c] = v], UNCHANGED <<cpc, queued>>
      PROVE  /\ stage[c] = "serving"
             /\ stage' = [stage EXCEPT ![c] = IF v = "none" THEN "dropped" ELSE "answered"]
  <2>1. \A e \in Clients : /\ reply'[e] = IF e = c THEN v ELSE reply[e]
                           /\ wpc'[e] = IF e = c THEN "idle" ELSE wpc[e]
    BY <1>0, <1>2 DEF Types
  <2>2. Stage(c)' = IF v = "none" THEN "dropped" ELSE "answered"  BY <1>2, <1>g, <2>1 DEF Stage
  <2>3. \A e \in Clients : e # c => Stage(e)' = Stage(e)  BY <1>2, <2>1 DEF Stage
  <2>. QED  BY <1>2, <1>g, <2>2, <2>3
<1>3. ASSUME NEW v \in Replies \ {"none"}, up, wpc[c] \in Serving, SendVerdict(c, v),
             v \in {"ACCEPTED", "OTHER"} => c \in judged \/ ~Fit(c), v = "COMPILE" => c \notin judged,
             UNCHANGED <<workers, kind, body, cpc, queued, judged>>
      PROVE  JS!Next
  <2>1. fit' = fit  BY <1>f, <1>3
  <2>2. CASE reply' = [reply EXCEPT ![c] = v] /\ wpc' = [wpc EXCEPT ![c] = "idle"] /\ UNCHANGED up
    <3>1. stage[c] = "serving" /\ stage' = [stage EXCEPT ![c] = "answered"]  BY <1>2, <1>3, <2>2
    <3>2. v \in {"ACCEPTED", "OTHER"} => c \in judged \/ c \notin fit  BY <1>3
    <3>3. JS!Answer(c, v)  BY <1>3, <2>1, <2>2, <3>1, <3>2 DEF JS!Answer
    <3>. QED  BY <3>3 DEF JS!Next, JS!Verdicts, Replies
  <2>3. CASE wpc' = [wpc EXCEPT ![c] = "idle"] /\ UNCHANGED <<up, reply>>
    <3>1. reply' = [reply EXCEPT ![c] = "none"] /\ "none" \in Replies  BY <1>0, <1>3, <1>g, <2>3 DEF Types, Replies
    <3>2. stage[c] = "serving" /\ stage' = [stage EXCEPT ![c] = "dropped"]  BY <1>2, <1>3, <2>3, <3>1
    <3>3. JS!Drop(c)  BY <1>3, <2>1, <2>3, <3>2 DEF JS!Drop
    <3>. QED  BY <3>3 DEF JS!Next
  <2>4. CASE up' = FALSE /\ UNCHANGED <<wpc, reply>>
    <3>1. \A e \in Clients : Stage(e)' = Stage(e)  BY <1>3, <2>4 DEF Stage
    <3>2. stage' = stage  BY <3>1
    <3>. QED  BY <1>3, <2>1, <2>4, <3>2 DEF JS!Next, JS!End
  <2>. QED  BY <1>3, <2>2, <2>3, <2>4 DEF SendVerdict
<1>4. CASE (\E n \in 1..RcvMax : ReceiveTooLarge(c, n)) \/ ReceiveFails(c)
  <2>1. /\ up /\ wpc[c] \in Serving /\ SendVerdict(c, "INTERNAL")
        /\ UNCHANGED <<workers, kind, body, cpc, queued, judged>>
    BY <1>4 DEF ReceiveTooLarge, ReceiveFails, Serving
  <2>2. "INTERNAL" \in Replies \ {"none"}  BY DEF Replies
  <2>. QED  BY <1>3, <2>1, <2>2
<1>5. CASE DecodeFails(c)
  <2>1. /\ up /\ wpc[c] = "decode" /\ SendVerdict(c, "ACCEPTED") /\ (kind[c] = "malformed" \/ Cut(c))
        /\ UNCHANGED <<workers, kind, body, cpc, queued, judged>>
    BY <1>5 DEF DecodeFails
  <2>2. "ACCEPTED" \in Replies \ {"none"} /\ wpc[c] \in Serving  BY <2>1 DEF Replies, Serving
  <2>3. ~Fit(c)  BY <2>1, NotFit
  <2>. QED  BY <1>3, <2>1, <2>2, <2>3
<1>6. ASSUME NEW v \in Replies, CompileFails(c, v) PROVE JS!Next
  <2>1. /\ up /\ wpc[c] = "serve" /\ SendVerdict(c, v) /\ v \in {"COMPILE", "INTERNAL"}
        /\ UNCHANGED <<workers, kind, body, cpc, queued, judged>>
    BY <1>6 DEF CompileFails
  <2>2. wpc[c] \in Serving /\ c \notin judged  BY <1>0, <2>1 DEF Good, Once, Serving
  <2>. QED  BY <1>3, <2>1, <2>2
<1>7. ASSUME NEW v \in Replies, Reply(c, v) PROVE JS!Next
  <2>1. /\ up /\ wpc[c] = "run" /\ SendVerdict(c, v) /\ v \in {"ACCEPTED", "OTHER", "INTERNAL"}
        /\ UNCHANGED <<workers, kind, body, cpc, queued, judged>>
    BY <1>7 DEF Reply
  <2>2. wpc[c] \in Serving /\ c \in judged  BY <1>0, <2>1 DEF Good, Once, Serving
  <2>. QED  BY <1>3, <2>1, <2>2
<1>8. CASE SetFeed(c)
  <2>1. /\ up /\ wpc[c] \in Serving /\ wpc' = [wpc EXCEPT ![c] = "idle"] /\ reply' = reply
        /\ UNCHANGED <<up, workers, kind, body, cpc, queued, judged>>
    BY <1>8 DEF SetFeed, Serving
  <2>2. reply' = [reply EXCEPT ![c] = "none"] /\ "none" \in Replies  BY <1>0, <1>g, <2>1 DEF Types, Replies
  <2>3. stage[c] = "serving" /\ stage' = [stage EXCEPT ![c] = "dropped"]  BY <1>2, <2>1, <2>2
  <2>4. JS!Drop(c)  BY <1>f, <2>1, <2>3 DEF JS!Drop
  <2>. QED  BY <2>4 DEF JS!Next
<1>9. ASSUME NEW l \in Serving, wpc[c] \in Serving, wpc' = [wpc EXCEPT ![c] = l], UNCHANGED <<cpc, queued, reply>>
      PROVE  stage[c] = "serving" /\ \A e \in Clients : Stage(e)' = Stage(e)
  <2>1. \A e \in Clients : wpc'[e] = IF e = c THEN l ELSE wpc[e]  BY <1>0, <1>9 DEF Types
  <2>2. l # "idle" /\ wpc[c] # "idle"  BY <1>9 DEF Serving
  <2>. QED  BY <1>9, <1>g, <2>1, <2>2 DEF Stage
<1>10. CASE Judge(c)
  <2>1. /\ up /\ wpc[c] = "serve" /\ wpc' = [wpc EXCEPT ![c] = "run"] /\ judged' = judged \cup {c}
        /\ UNCHANGED <<up, workers, kind, body, cpc, queued, reply>>
    BY <1>10 DEF Judge
  <2>2. wpc[c] \in Serving /\ "run" \in Serving /\ c \notin judged  BY <1>0, <2>1 DEF Good, Once, Serving
  <2>3. stage[c] = "serving" /\ stage' = stage  BY <1>9, <2>1, <2>2
  <2>4. JS!HandOver(c)  BY <1>f, <2>1, <2>2, <2>3 DEF JS!HandOver
  <2>. QED  BY <2>4 DEF JS!Next
<1>11. CASE \/ (\E n \in 1..RcvMax : Receive(c, n)) \/ ReceiveEnd(c) \/ Slice(c) \/ Decode(c)
            \/ DecodeOverruns(c) \/ JudgeHangs(c)
  <2>1. /\ wpc[c] \in Serving /\ up /\ (up' = up \/ up' = FALSE)
        /\ UNCHANGED <<workers, kind, body, cpc, queued, reply, judged>>
        /\ \E l \in Serving : wpc' = [wpc EXCEPT ![c] = l]
    <3>1. UNCHANGED wpc => wpc' = [wpc EXCEPT ![c] = wpc[c]]  BY <1>0 DEF Types
    <3>. QED  BY <1>11, <3>1 DEF Receive, ReceiveEnd, Slice, DecodeOverruns, Decode, JudgeHangs, Serving
  <2>2. \A e \in Clients : Stage(e)' = Stage(e)  BY <1>9, <2>1
  <2>3. \A e \in Clients : Fit(e)' = Fit(e)  BY <2>1 DEF Fit, Total
  <2>4. stage' = stage  BY <2>2
  <2>5. CASE UNCHANGED up  BY <2>1, <2>2, <2>3, <2>5, Unseen
  <2>6. CASE up' = FALSE  BY <1>f, <2>1, <2>4, <2>6 DEF JS!Next, JS!End
  <2>. QED  BY <2>1, <2>5, <2>6
<1>. QED  BY <1>1, <1>4, <1>5, <1>6, <1>7, <1>8, <1>10, <1>11 DEF Worker

\* Pieces of requests, buffers, several workers, connections that break and a daemon
\* that may end on a reply implement a judge: every connection is taken once, by one
\* worker, at most as many at a time as there are workers, and answered at most once;
\* a request that can be understood gets a verdict only on a program that was handed
\* to the runner, and is told that it does not compile only when it was not.
THEOREM RefinesJudgeService == Spec => ImplementsJudgeService
<1>1. Init => JS!Init
  <2> SUFFICES ASSUME Init PROVE JS!Init  OBVIOUS
  <2>1. \A c \in Clients : Stage(c) = "new"  BY DEF Init, Stage
  <2>. QED  BY <2>1 DEF Init, JS!Init
<1>2. Inv /\ [Next]_vars => [JS!Next]_(JS!vars)
  <2> SUFFICES ASSUME Inv, [Next]_vars PROVE JS!Next \/ UNCHANGED JS!vars  OBVIOUS
  <2>1. ASSUME NEW c \in Clients,
               Accept(c) \/ AcceptFails(c) \/ Client(c) \/ FallSilent(c) \/ GiveUp(c) \/ RecvFails(c)
        PROVE  JS!Next \/ UNCHANGED JS!vars
    BY <2>1, ClientSeen DEF JS!Next
  <2>2. ASSUME NEW c \in Clients, Serve(c) \/ Worker(c) \/ ReceiveFails(c) \/ JudgeHangs(c)
        PROVE  JS!Next \/ UNCHANGED JS!vars
    BY <2>2, WorkerSeen
  <2>3. CASE UNCHANGED vars
    <3> USE <2>3 DEF vars, reqVars, cliVars, conVars
    <3>1. \A c \in Clients : Stage(c)' = Stage(c) /\ Fit(c)' = Fit(c)  BY DEF Stage, Fit, Total
    <3>. QED  BY <3>1, Unseen
  <2>. QED  BY <2>1, <2>2, <2>3 DEF Next
<1>. QED  BY <1>1, <1>2, InvHolds, PTL DEF Spec, ImplementsJudgeService, JS!Spec
=============================================================================
