--------------------------- MODULE MCLightEntity ---------------------------
(* Instances of LightEntity. MCTiesUp are the halves that Python takes up, *)
(* among the quotients these values come to.                                *)
EXTENDS LightEntity

MCBrightnesses == {1}
MCKelvins == {3500}
MCPressed == {<<0, 0>>, <<30, 11>>}
MCTiesUp == {<<2000, 4000>>, <<12750, 100>>}
=============================================================================
