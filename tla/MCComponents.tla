---------------------------- MODULE MCComponents -----------------------------
(***************************************************************************)
(* The components with small constants: the values that take more than a   *)
(* number or a set of names are defined here, the others are in the .cfg.  *)
(***************************************************************************)
EXTENDS Components

\* A task of an author and its review.
MCAuthorOf == <<0, 1>>

\* Plans of dynamic controls: two ids, two nonces, two attempts, one beyond the catalog.
Payload(id, nonce, f, expires, budget) ==
    [id |-> id, nonce |-> nonce, fence |-> f, expires |-> expires, budget |-> budget]
Plans ==
    {Payload("p1", "n1", 1, 1, 1), Payload("p2", "n1", 1, 1, 1),
     Payload("p1", "n2", 2, 2, 1), Payload("p2", "n2", 1, 2, 2)}

\* Artifacts of a package: eligible ones, and one for each thing that keeps one out.
Artifact(content, kind, says, proof, reviewed, parent) ==
    [content |-> content, kind |-> kind, says |-> says, proof |-> proof, reviewed |-> reviewed,
     parent |-> parent, indexed |-> TRUE, clean |-> TRUE]
Plain == Artifact("c1", "uncredentialed", "O0", "none", FALSE, "none")
Staged ==
    {Plain, [Plain EXCEPT !.indexed = FALSE], [Plain EXCEPT !.clean = FALSE],
     Artifact("c1", "derivation", "O3", "c1", TRUE, "none"),
     Artifact("c2", "derivation", "O3", "c1", TRUE, "none"),
     Artifact("c1", "summary", "O4", "none", TRUE, "O3"),
     Artifact("c1", "tainted", "O2", "none", FALSE, "none")}

\* Decisions of an operator about two capabilities.
Decisions ==
    {[capability |-> "source", approved |-> FALSE, expires |-> 2],
     [capability |-> "runtime", approved |-> TRUE, expires |-> 2]}
=============================================================================
