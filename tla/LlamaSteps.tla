------------------------------ MODULE LlamaSteps ------------------------------
(* The qualifications of the llama.cpp consumer.  "tree" is the checkout that  *)
(* step 21 prepares, "consumer" the one that steps 19a and 19b read.           *)
EXTENDS EvidenceSteps

TreeVersions == {"absent", "other", "clean", "edited", "canonical", "adapter"}

\* Trees whose HEAD is the pinned commit: untouched, with unknown changes, with
\* the canonical patch, with the adapter's patch alone.
AtCommit == {"clean", "edited", "canonical", "adapter"}

-----------------------------------------------------------------------------

\* An absent checkout or model is a SKIP, the rest a FAIL; nothing is written then.
step19a ==
  << Dir("19a"),
     Needs("consumer", {"pinned"}), Tools({"needles"}),
     Needs("models", {"pinned"}), Uses("models"),
     Tools({"parse", "keys", "agreement"}),
     Writes("19a", <<"metadata-parity", "metadata-source-matrix", "upstream-provenance",
                     "qualification-config">>, "PASS") >>

\* Both artifacts must resolve every merge to two tokens, once.
step19b_checks ==
  << Dir("19b"),
     Needs("consumer", {"pinned"}), Tools({"needles"}),
     Tools({"parse"}), Needs("models", {"pinned"}), Uses("models"),
     Tools({"keys", "algorithm", "vocabulary", "merges"}) >>

\* What differs between the artifacts is written down and not refused.
step19b_results ==
  << Probes({"tokenizer"}),
     Writes("19b", <<"tokenizer-source-matrix", "merge-representation-comparison",
                     "tokenizer-parity", "upstream-provenance", "qualification-config">>, "PASS") >>

step19b == step19b_checks \o step19b_results

\* The delta is hashed after the tree has been changed.
prepare ==
  << Needs("tree", TreeVersions \ {"absent"}),
     Needs("tree", {"clean", "other"}), Needs("tree", AtCommit),
     Needs("patch", {"pinned"}), Tools({"apply-check"}),
     Becomes("tree", "canonical"), Needs("tree", {"canonical"}) >>

-----------------------------------------------------------------------------

\* The descriptor bridge takes back whatever the runtime has claimed.
bridge ==
  << Dir("21"),
     Needs("tree", TreeVersions \ {"absent"}), Needs("tree", AtCommit),
     Tools({"cargo", "g++"}),
     Writes("21", <<"consumer-metadata-parity", "consumer-tensor-parity">>, "EXPECTED"),
     Writes("21", <<"tokenizer-token-parity">>, "NOT_RUN"),
     Writes("21", <<"adapter-provenance">>, "DEFERRED"),
     Writes("21", <<"qualification-config">>, "no-claim") >>

\* The claim is made while the tables are still to be written.
runtime_claims_first ==
  << Dir("21"),
     Needs("tree", AtCommit), Needs("patch", {"pinned"}), Needs("tree", {"canonical"}),
     Tools({"cargo", "g++", "probe"}),
     Uses("models"), Probes({"logits", "tokens"}),
     Writes("21", <<"adapter-provenance">>, "PASS"),
     Writes("21", <<"consumer-metadata-runtime-parity", "consumer-runtime-structure",
                    "tokenizer-token-parity", "logit-parity", "generation-parity">>, "measured"),
     Writes("21", <<"qualification-config">>, "claim") >>

\* Models of any digest; the claim does not look at what the probes found.
runtime ==
  << Dir("21"),
     Needs("tree", AtCommit), Needs("patch", {"pinned"}), Needs("tree", {"canonical"}),
     Tools({"cargo", "g++", "probe"}),
     Uses("models"), Probes({"logits", "tokens"}),
     Writes("21", <<"consumer-metadata-runtime-parity", "consumer-runtime-structure",
                    "tokenizer-token-parity", "logit-parity", "generation-parity">>, "measured"),
     Writes("21", <<"adapter-provenance">>, "PASS"),
     Writes("21", <<"qualification-config">>, "claim") >>

-----------------------------------------------------------------------------

\* Samples are kept in memory until the last of them is taken.
step22 ==
  << Dir("22"),
     Expects("21", "adapter-provenance", "PASS"),
     Needs("tag", {"pinned"}), Needs("tree", AtCommit), Needs("tree", {"adapter"}),
     Needs("models", {"pinned"}), Uses("models"),
     Tools({"cargo", "g++"}), Tools({"benchmark"}),
     Writes("22", <<"stderr", "samples", "phase-summary", "resource-summary", "summary",
                    "environment", "artifact-manifest", "qualification-config">>, "PASS") >>

step22a ==
  << Dir("22a"),
     Needs("tag", {"pinned"}), Needs("tree", AtCommit), Needs("tree", {"adapter"}),
     Expects("21", "adapter-provenance", "PASS"),
     Needs("models", {"pinned"}), Uses("models"),
     Tools({"cargo", "g++", "diagnose", "probes"}),
     Writes("22a", <<"phase-breakdown", "format-control", "runtime-ready", "ffi-call-counts",
                     "phase-summary", "runtime-summary", "ffi-summary", "constant-tables",
                     "environment", "qualification-config">>, "PASS") >>

\* No gate on step 21, and any changes of the tree.  The raw samples are not
\* among the files: mkdir, asked whether to write them, returns None.
step23 ==
  << Dir("23"),
     Needs("tree", AtCommit), Needs("models", {"pinned"}), Uses("models"),
     Tools({"cargo", "g++", "probes"}),
     Writes("23", <<"runtime-summary", "abi-call-summary", "source-interface",
                    "representation-transitions", "correctness-summary", "environment",
                    "qualification-config">>, "PASS") >>

=============================================================================
