----------------------------- MODULE MCPrefixTrie -----------------------------
(* Instances of PrefixTrie for TLC: small trees of token sequences, in which *)
(* a is a prefix of ab and of ad, and ab of abc.                             *)
EXTENDS PrefixTrie

CONSTANTS a, ab, abc, ad

ChainTexts == {a, ab}
ChainBelow == {<<a, ab>>}

ForkTexts == {a, ab, ad}
ForkBelow == {<<a, ab>>, <<a, ad>>}

TreeTexts == {a, ab, abc, ad}
TreeBelow == {<<a, ab>>, <<a, abc>>, <<ab, abc>>, <<a, ad>>}
=============================================================================
