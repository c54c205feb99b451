----------------------------- MODULE MCParallel -----------------------------
(***************************************************************************)
(* Two calls over one scalar row and the keyed rows of two bases.          *)
(***************************************************************************)
EXTENDS Parallel, TLC

M(r, w, kr, kw) == [reads |-> r, writes |-> w, keyed_reads |-> kr, keyed_writes |-> kw]

(* The third writes what the first two read; the others can run side by    *)
(* side in pairs, a writer beside a reader among them.                     *)
MCManifests == {M({"s"}, {}, {}, {"p"}), M({"s"}, {}, {"q"}, {}),
                M({}, {"s"}, {"q"}, {}), M({}, {}, {"q"}, {"p"})}

MCDigest == [x \in {"p", "q"} \X {"x"} |-> IF x[1] = "p" THEN "px" ELSE "qx"]
=============================================================================
