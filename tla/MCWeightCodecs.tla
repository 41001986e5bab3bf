---------------------------- MODULE MCWeightCodecs ----------------------------
(* Words of six bits: the constants of the source reduced to them, with shifts *)
(* that still move every distance the undoing doubles through.                 *)
EXTENDS WeightCodecs

MCWidth == 6
MCA == <<49, 55, 61, 47>>
MCB == <<21, 49, 45, 5>>
MCC == <<59, 15, 45, 11>>
MCK == <<1, 2, 3, 2>>

MCWords == [family : Families, ordinal : {0, 1, 5}, aware : BOOLEAN]

Segments == {<<2, -1>>, <<1, 1>>, <<-2, 0>>}
MCTensors ==
  [flat : {<<s, t, <<0, 2>>, <<1, -2>>>> : s \in Segments, t \in {<<0, 0>>, <<1, 1>>}},
   scales : {{2, 1}}, family : Families, aware : BOOLEAN]

\* Two shapes: columns of several values, and rows that differ in their classes.
MCCodes ==
  [codes : [(0..1) \X (0..1) \X (0..0) -> {0, 1, 5, 7}], shape : {<<2, 2, 1>>},
   counts : {<<1, 1>>, <<2, 1>>}]
  \cup
  [codes : [(0..1) \X (0..0) \X (0..2) -> {0, 6}], shape : {<<2, 1, 3>>}, counts : {<<2, 1>>}]

Keys == {<<s, l>> \in (0..3) \X {1, 2} : s + l <= 4}
MCCuts ==
  [total : {4}, lengths : {<<1, 2>>, <<2, 1>>},
   costs : UNION {[Keys \ missing -> {0, 1, 3}] : missing \in {{<<0, 1>>, <<3, 1>>}, {<<1, 2>>, <<2, 1>>}}}]

MCSearches ==
  [family : {"G0_HASH_SIGN", "G1_HASH_AFFINE", "G2_CENTER_DENSE", "G4_TINY_BASIS"},
   target : {<<1, -2>>, <<2, 2>>, <<0, 1>>},
   hash : [{0, 1} \X {1, 2} -> {0, 1, 3, 255}]]

MCPreparations ==
  [rows : {<<<<4, -8, 0, 4>>, <<0, 4, -4, 12>>>>, <<<<4, 4, 4, -4>>, <<8, 0, 4, 4>>>>,
           <<<<-4, 12, 4, 0>>, <<4, 4, 8, -8>>>>},
   vector : {<<1, 2, -1, 3>>, <<0, 1, 1, -2>>},
   signs : {<<1, -1, 1, 1>>, <<-1, -1, 1, -1>>},
   scales : {<<1, 1, 1, 1>>, <<2, 1, 4, 1>>, <<4, 2, 1, 2>>},
   block : {0, 2, 4},
   label : {<<1, 2, 1, 2>>, <<1, 1, 1, 1>>}, clusterOrder : {<<2, 1>>},
   swaps : {<<<<1, 3>>, <<2, 4>>, <<1, 2>>>>, <<<<4, 1>>, <<4, 2>>>>}]

=============================================================================
