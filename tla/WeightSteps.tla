------------------------------ MODULE WeightSteps ------------------------------
(* The weight experiments.  Choices are those of candidates; a verdict over    *)
(* rows that are complete is wording.                                          *)
EXTENDS EvidenceSteps

\* The capture that is there is taken for the pinned one, whoever left it.
c4 ==
  << Dir("c4"),
     Needs("source", {"pinned"}), Uses("source"),
     Needs("llama", {"pinned"}), Uses("llama"),
     Opens("validation"), Chooses("validation"),
     Tools({"g++", "round-trips"}),
     Unless("c4", "attn-k-input", 1), Captures("c4", "attn-k-input"),
     Tools({"association", "split"}),
     Opens("test"),
     Writes("c4", <<"fixed-gamma", "level-sets", "free-vs-geometric-fit", "canonical-formats",
                    "canonical-roundtrip", "hidden-state-wx", "random-vs-real", "pareto",
                    "c4-hard-gate", "markdown">>, "COMPLETE") >>

-----------------------------------------------------------------------------

\* The directory is looked for first and made last; the capture is digested and
\* then read again.
implicit_search ==
  << Fresh("implicit"),
     Needs("source", {"pinned"}), Uses("source"),
     Verifies("c4", "attn-k-input"), Reads("c4", "attn-k-input"),
     Tools({"parse", "orientation", "split"}),
     Opens("validation"), Chooses("validation"), Opens("test") >>

canonical_controls ==
  << Needs("llama", {"pinned"}), Uses("llama"), Tools({"g++", "quantize"}) >>

generation_benchmark == << Tools({"g++", "benchmark"}) >>

implicit_results ==
  << NewDir("implicit"),
     Writes("implicit", <<"fixed-length-results", "seed-width-results", "generator-family-results",
                          "descriptor-accounting", "real-activation-results", "random-vs-real",
                          "canonical-controls", "generation-cost", "supply-horizon-model",
                          "feasibility", "feasibility-report", "raw">>, "COMPLETE") >>

implicit == implicit_search \o canonical_controls \o generation_benchmark \o implicit_results

-----------------------------------------------------------------------------

\* The test activations are measured in the same pass as the validation ones.
simd_search_peeks ==
  << Fresh("simd"),
     Needs("source", {"pinned"}), Uses("source"),
     Verifies("c4", "attn-k-input"), Reads("c4", "attn-k-input"),
     Tools({"parse", "orientation", "split"}),
     Chooses("weights"), Opens("validation"), Opens("test"), Chooses("validation"),
     Reads("implicit", "fixed-length-results"), Reads("implicit", "canonical-controls") >>

simd_search ==
  << Fresh("simd"),
     Needs("source", {"pinned"}), Uses("source"),
     Verifies("c4", "attn-k-input"), Reads("c4", "attn-k-input"),
     Tools({"parse", "orientation", "split"}),
     Chooses("weights"), Opens("validation"), Chooses("validation"), Opens("test"),
     Reads("implicit", "fixed-length-results"), Reads("implicit", "canonical-controls") >>

simd_results ==
  << Tools({"g++", "self-test", "throughput", "dot", "objdump"}),
     NewDir("simd"),
     Writes("simd", <<"mutation-families", "mutation-depth", "traceability-results",
                      "fixed-length-results", "descriptor-accounting", "real-activation-results",
                      "canonical-controls", "throughput", "supply-rate-comparison", "disassembly-notes",
                      "feasibility", "feasibility-report", "raw">>, "COMPLETE") >>

simd == simd_search \o simd_results

-----------------------------------------------------------------------------

\* Earlier results must come out again before a candidate is chosen.
weight_search ==
  << Fresh("weight"),
     Needs("source", {"pinned"}), Uses("source"),
     Verifies("c4", "attn-k-input"), Reads("c4", "attn-k-input"),
     Tools({"payload", "orientation", "split", "equivalence"}),
     Opens("validation"),
     Reads("implicit", "fixed-length-results"), Reads("simd", "fixed-length-results"),
     Tools({"baseline-reproduction"}),
     Chooses("validation") >>

canonical_prepared ==
  << Needs("llama", {"pinned"}), Uses("llama"), Tools({"g++", "quantize"}) >>

\* The test data are opened only when a candidate has been promoted.
weight_results ==
  << Reads("implicit", "canonical-controls") >> \o canonical_prepared \o
  << Chooses("validation"), Perhaps(1), Opens("test"),
     Tools({"g++", "benchmark"}),
     NewDir("weight"),
     Writes("weight", <<"baseline-reproduction", "transformations", "statistics", "frozen-results",
                        "preparation-gain", "real-validation-results", "real-functional-test-results",
                        "canonical-controls", "permutation-results", "scaling-results",
                        "runtime-transform-cost", "graph-compatibility-audit", "feasibility",
                        "feasibility-report", "raw">>, "COMPLETE") >>

weight == weight_search \o canonical_prepared \o weight_results

-----------------------------------------------------------------------------

make_raw_quantizers == << Tools({"g++", "quantize", "sizes"}) >>

\* Made early: what raises afterwards leaves an empty directory, which refuses
\* every later run.
lut ==
  << Fresh("lut"),
     Needs("source", {"pinned"}), Uses("source"),
     Needs("llama", {"pinned"}), Uses("llama"),
     Tools({"parse", "orientation"}) >> \o make_raw_quantizers \o
  << NewDir("lut"),
     Tools({"layout", "round-trips"}),
     Writes("lut", <<"tables", "format-structure-notes", "feasibility", "feasibility-report",
                     "raw">>, "COMPLETE") >>

-----------------------------------------------------------------------------

\* The row baseline is the one with the smaller residual on the test weights;
\* what follows is chosen by validation, under that baseline.
geometric_search ==
  << Dir("geometric"),
     Needs("source", {"pinned"}), Uses("source"),
     Tools({"tensor", "type", "payload", "split"}),
     Opens("test"), Opens("validation"),
     Chooses("test"), Chooses("validation") >>

\* C4 is tried when C3 comes near enough to its free control.
geometric_results ==
  << Chooses("validation"),
     Perhaps(1), Chooses("validation"),
     Chooses("validation"),
     Writes("geometric", <<"csv", "json", "markdown">>, "COMPLETE") >>

geometric == geometric_search \o geometric_results

\* The digest may be left out; a level set is fitted on validation
\* weights, but the candidates among them are taken by their errors on test weights.
structured_predictors ==
  << Dir("work"), Dir("structured"),
     Perhaps(1), Needs("source", {"pinned"}), Uses("source"),
     Writes("structured", <<"provenance">>, "COMPLETE"),
     Tools({"tensor"}),
     Opens("validation"), Opens("test"),
     Writes("structured", <<"predictor-quality">>, "COMPLETE"),
     Tools({"fit"}), Chooses("validation") >>

structured_candidates ==
  << Chooses("test"),
     Writes("work", <<"tensor-f32">>, "COMPLETE"),
     Tools({"llama-quantize"}), Writes("work", <<"quantized">>, "COMPLETE") >>

\* The quantized tensors are read again from the directory that all runs share.
structured_results ==
  << Chooses("test"),
     Reads("work", "quantized"),
     Writes("structured", <<"wx-probes", "csv", "summary", "environment">>, "COMPLETE") >>

structured == structured_predictors \o structured_candidates \o structured_results

=============================================================================
