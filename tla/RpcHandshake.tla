---------------------------- MODULE RpcHandshake ----------------------------
(***************************************************************************)
(* The handshake that opens an RPC link: each side says Hello, the side    *)
(* with the smaller identity selects the epoch and the other echoes it.    *)
(* Frames travel in two halves, so that a read may end in the middle of    *)
(* one, or bring the first data frames together with the last ack.         *)
(***************************************************************************)
EXTENDS Naturals, Sequences, SequencesExt

CONSTANTS
  Chunk,      \* halves fed to the decoder between two looks (kHandshakeFeedChunk)
  MaxData     \* bound: data frames a side sends

VARIABLES
  smaller,    \* the side with the smaller identity: it selects the epoch
  phase,      \* of each side: say, hello, ack, data, or failed
  epoch,      \* the epoch a side has agreed to
  wire,       \* halves on their way to a side
  decoder, stash,   \* what a side has fed to its decoder, and what it holds back
  sent, received,   \* data frames a side has sent and has dispatched
  gaveUp      \* sides whose deadline has passed

handshakeVars ==
  <<smaller, phase, epoch, wire, decoder, stash, sent, received, gaveUp>>

Side == {"dialer", "acceptor"}
Neither == "neither"   \* both identities are the same
Other(s) == CHOOSE t \in Side : t # s

\* Proposals and nonces are named after the side that made them.
MakeFrame(kind, s, e, n) == [kind |-> kind, from |-> s, epoch |-> e, nonce |-> n]
MakeHello(s) == MakeFrame("Hello", s, s, s)
MakeHelloAck(s, e) == MakeFrame("HelloAck", s, e, Other(s))

Halves(fs) == FlattenSeq([i \in DOMAIN fs |-> << <<fs[i], 1>>, <<fs[i], 2>> >>])

WriteHandshakeFrame(s, fs) == wire' = [wire EXCEPT ![Other(s)] = @ \o Halves(fs)]

HandshakeInit ==
  /\ smaller \in Side \cup {Neither}
  /\ phase = [s \in Side |-> IF s = "dialer" THEN "say" ELSE "hello"]
  /\ epoch = [s \in Side |-> "none"] /\ wire = [s \in Side |-> <<>>]
  /\ decoder = [s \in Side |-> <<>>] /\ stash = [s \in Side |-> <<>>]
  /\ sent = [s \in Side |-> <<>>] /\ received = [s \in Side |-> <<>>] /\ gaveUp = {}

-----------------------------------------------------------------------------
(* ReadHandshakeFrame. *)

Expecting(s) == phase[s] \in {"hello", "ack"}

\* Slip: any bytes are taken for a frame.
AnyBytes(s) == decoder[s] # <<>>

Whole(s)      == Len(decoder[s]) >= 2
FirstFrame(s) == decoder[s][1][1]
Rest(q, n)   == SubSeq(q, n + 1, Len(q))

\* Nothing decoded and nothing held back: a batch is read.
Read(s) ==
  /\ Expecting(s) /\ ~Whole(s) /\ stash[s] = <<>>
  /\ \E n \in 1 .. Len(wire[s]) :
       /\ stash' = [stash EXCEPT ![s] = SubSeq(wire[s], 1, n)]
       /\ wire'  = [wire EXCEPT ![s] = Rest(@, n)]
  /\ UNCHANGED <<smaller, phase, epoch, decoder, sent, received, gaveUp>>

\* The batch is fed piece by piece, until a frame is whole.
Feed(s) ==
  LET take == IF Len(stash[s]) < Chunk THEN Len(stash[s]) ELSE Chunk IN
  /\ Expecting(s) /\ ~Whole(s) /\ stash[s] # <<>>
  /\ decoder' = [decoder EXCEPT ![s] = @ \o SubSeq(stash[s], 1, take)]
  /\ stash'   = [stash EXCEPT ![s] = Rest(@, take)]
  /\ UNCHANGED <<smaller, phase, epoch, wire, sent, received, gaveUp>>

\* Slip: what the decoder has left replaces what is held back.
Overwritten(s) == IF Len(decoder[s]) > 2 THEN Rest(decoder[s], 2) ELSE stash[s]

\* What the decoder has left comes before what was not fed to it yet.
HeldBack(s) == Rest(decoder[s], 2) \o stash[s]

Accept(s) ==
  /\ decoder' = [decoder EXCEPT ![s] = <<>>]
  /\ stash' = [stash EXCEPT ![s] = HeldBack(s)]

\* CommitStashAfterFinalAck: from here on everything is data.
Commit(s) ==
  /\ decoder' = [decoder EXCEPT ![s] = HeldBack(s)]
  /\ stash' = [stash EXCEPT ![s] = <<>>]

-----------------------------------------------------------------------------
(* OutboundHandshake and InboundHandshake. *)

SayHello(s) ==
  /\ phase[s] = "say" /\ phase' = [phase EXCEPT ![s] = "hello"]
  /\ WriteHandshakeFrame(s, <<MakeHello(s)>>)
  /\ UNCHANGED <<smaller, epoch, decoder, stash, sent, received, gaveUp>>

\* A Hello under one's own identity is a connection to oneself.
HelloFits(s) == FirstFrame(s).kind = "Hello" /\ smaller # Neither

\* Slip: either side selects.
EitherOwns(s) == smaller # Neither

\* i_own_epoch: the side with the smaller identity selects.
OwnsEpoch(s) == s = smaller

\* The peer's Hello: the acceptor answers it, and whoever owns the epoch selects
\* its own proposal.
HearHello(s) ==
  LET answer == IF s = "acceptor" THEN <<MakeHello(s)>> ELSE <<>>
      select == IF OwnsEpoch(s) THEN <<MakeHelloAck(s, s)>> ELSE <<>> IN
  /\ phase[s] = "hello" /\ Whole(s) /\ HelloFits(s)
  /\ Accept(s) /\ WriteHandshakeFrame(s, answer \o select)
  /\ phase' = [phase EXCEPT ![s] = "ack"]
  /\ epoch' = [epoch EXCEPT ![s] = IF OwnsEpoch(s) THEN s ELSE @]
  /\ UNCHANGED <<smaller, sent, received, gaveUp>>

\* The owner of the epoch wants its epoch and its nonce back; of the other side
\* only the acceptor compares the nonce.
AckFits(s) ==
  LET f == FirstFrame(s) IN
  /\ f.kind = "HelloAck" /\ f.from = Other(s)
  /\ OwnsEpoch(s) => f.epoch = epoch[s]
  /\ OwnsEpoch(s) \/ s = "acceptor" => f.nonce = s

\* The ack: the larger side learns the epoch and echoes it; the smaller one
\* wants its own back.
HearAck(s) ==
  LET e == FirstFrame(s).epoch IN
  /\ phase[s] = "ack" /\ Whole(s) /\ AckFits(s)
  /\ Commit(s) /\ phase' = [phase EXCEPT ![s] = "data"]
  /\ epoch' = [epoch EXCEPT ![s] = e]
  /\ WriteHandshakeFrame(s, IF OwnsEpoch(s) THEN <<>> ELSE <<MakeHelloAck(s, e)>>)
  /\ UNCHANGED <<smaller, sent, received, gaveUp>>

Fail(s) ==
  /\ phase' = [phase EXCEPT ![s] = "failed"]
  /\ UNCHANGED <<smaller, epoch, wire, decoder, stash, sent, received>>

\* Any other frame, or the end of the peer, ends the handshake.
Refuse(s) ==
  /\ \/ /\ Expecting(s) /\ Whole(s)
        /\ ~(phase[s] = "hello" /\ HelloFits(s)) /\ ~(phase[s] = "ack" /\ AckFits(s))
     \/ /\ Expecting(s) /\ ~Whole(s) /\ stash[s] = <<>> /\ wire[s] = <<>>
        /\ phase[Other(s)] = "failed"
  /\ Fail(s) /\ UNCHANGED gaveUp

GiveUp(s) ==
  /\ phase[s] \in {"say", "hello", "ack"} /\ Fail(s) /\ gaveUp' = gaveUp \cup {s}

-----------------------------------------------------------------------------
(* The link that follows: the decoder goes on from where it is. *)

SendData(s) ==
  LET f == MakeFrame("Data", s, epoch[s], Len(sent[s]) + 1) IN
  /\ phase[s] = "data" /\ Len(sent[s]) < MaxData
  /\ sent' = [sent EXCEPT ![s] = Append(@, f)] /\ WriteHandshakeFrame(s, <<f>>)
  /\ UNCHANGED <<smaller, phase, epoch, decoder, stash, received, gaveUp>>

ReaderLoop(s) ==
  /\ phase[s] = "data"
  /\ IF Whole(s)
     THEN /\ received' = [received EXCEPT ![s] = Append(@, FirstFrame(s))]
          /\ decoder' = [decoder EXCEPT ![s] = Rest(@, 2)] /\ UNCHANGED wire
     ELSE /\ wire[s] # <<>> /\ UNCHANGED received
          /\ decoder' = [decoder EXCEPT ![s] = @ \o wire[s]]
          /\ wire' = [wire EXCEPT ![s] = <<>>]
  /\ UNCHANGED <<smaller, phase, epoch, stash, sent, gaveUp>>

HandshakeNext ==
  \E s \in Side :
    \/ SayHello(s) \/ Read(s) \/ Feed(s) \/ HearHello(s) \/ HearAck(s)
    \/ Refuse(s) \/ GiveUp(s) \/ SendData(s) \/ ReaderLoop(s)

-----------------------------------------------------------------------------
\* Two sides that finish the handshake hold the same epoch, the one that the
\* smaller identity proposed; as long as neither gives up, no order of frames
\* and reads makes the handshake of two different peers fail; and however reads
\* split and join frames, not one half is lost, doubled or moved by the
\* hand-over from the handshake to the reader of the link.
HandshakeExact ==
  /\ \A s \in Side : phase[s] = "data" =>
       /\ epoch[s] = smaller
       /\ Halves(received[s]) \o decoder[s] \o stash[s] \o wire[s] = Halves(sent[Other(s)])
  /\ gaveUp = {} /\ smaller # Neither => \A s \in Side : phase[s] # "failed"
=============================================================================
