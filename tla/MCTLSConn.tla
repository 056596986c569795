----------------------------- MODULE MCTLSConn -----------------------------
(* Instances of TLSConn for TLC.                                           *)
EXTENDS TLSConn, TLC

CONSTANTS t1, t2, t3

\* A cancellable handshaker that also closes, a reader, a writer.
HandshakeReadWrite ==
    (t1 :> {"handshake", "close"}) @@ (t2 :> {"read"}) @@ (t3 :> {"write", "closewrite"})

\* Two readers that may both meet a HelloRequest, one of them a closer, the other
\* one who moves the deadline, and a writer.
ReadersAndWriter ==
    (t1 :> {"read", "setwritedeadline"}) @@ (t2 :> {"read", "close", "closewrite"})
      @@ (t3 :> {"write"})

Handshakers == [t \in {t1, t2} |-> {"handshake"}]
ReaderAndWriter == (t2 :> {"read"}) @@ (t3 :> {"write"})
ReaderAndCloser == (t1 :> {"close"}) @@ (t2 :> {"read"})
ReaderAndDeadline == (t1 :> {"closewrite", "setwritedeadline"}) @@ (t2 :> {"read"})
Reader == (t2 :> {"read"})
=============================================================================
