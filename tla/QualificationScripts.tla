------------------------- MODULE QualificationScripts -------------------------
(* The qualification scripts of the repository, what they find outside, and    *)
(* what the evidence they leave is to mean.                                    *)
EXTENDS EvidenceChain, LlamaSteps, WeightSteps

Programs ==
  [s19a |-> step19a, s19b |-> step19b, prepare |-> prepare, bridge |-> bridge,
   runtime |-> runtime, s22 |-> step22, s22a |-> step22a, s23 |-> step23,
   c4 |-> c4, implicit |-> implicit, simd |-> simd, weight |-> weight, lut |-> lut,
   geometric |-> geometric, structured |-> structured]

Pinned == {"pinned", "other"}
Checkout == Pinned \cup {"absent"}

OutsideVersions ==
  [source |-> Pinned, llama |-> Checkout, consumer |-> Checkout, models |-> Checkout,
   tag |-> Pinned, patch |-> Pinned, tree |-> TreeVersions]

OutsideAtFirst == [i \in DOMAIN OutsideVersions |-> IF i = "tree" THEN "clean" ELSE "pinned"]

\* Directories that their scripts refuse to overwrite.
Immutable == {"implicit", "simd", "weight", "lut"}

-----------------------------------------------------------------------------

\* No immutable result comes, over any number of earlier results, from another
\* model, another llama.cpp or a capture that was broken off: scripts compare the
\* capture's digest and read each other's results without one.
DerivesFromPinned ==
  \A p \in DOMAIN files : p[1] \in Immutable => files[p].from \cap Strange = {}

\* Where the provenance claims runtime parity, the tables of a runtime
\* qualification are there, whichever runs of the bridge and of the runtime were
\* killed, and wherever.
ClaimHasTables ==
  LET claim == <<"21", "adapter-provenance">>
  IN claim \in DOMAIN files /\ files[claim].says = "PASS" =>
       \A table \in {"consumer-metadata-runtime-parity", "consumer-runtime-structure",
                     "logit-parity", "generation-parity"} :
         <<"21", table>> \in DOMAIN files /\ files[<<"21", table>>].script = "runtime"

\* Candidates of the capture's gate and of the immutable experiments are chosen
\* before their script has opened the test data, and never by them; nor do they
\* depend on results of which that is not so.
SelectionIsBlind ==
  \A p \in DOMAIN files : p[1] \in Immutable \cup {"c4"} =>
    files[p].from \cap {<<"chosen-by", "test">>, <<"chosen-after", "test">>} = {}

=============================================================================
