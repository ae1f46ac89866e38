--------------------------- MODULE MCDerivedTables ---------------------------
(* Instances of DerivedTables: two sources, one listing with several         *)
(* observations, one of them without a price.                                *)
EXTENDS DerivedTables

Observation(id, source, product, day, price, currency, inStock) ==
  [id |-> id, source |-> source, product |-> product, day |-> day, price |-> price,
   currency |-> currency, inStock |-> inStock]

MCRow == {Observation(1, "best_buy", "tv", 0, 5, "usd", TRUE),
          Observation(2, "best_buy", "tv", 0, 3, "usd", FALSE),
          Observation(3, "best_buy", "tv", 1, 7, "eur", TRUE),
          Observation(4, "fake_store", "tv", 1, Missing, "usd", TRUE)}

MCNameRank == [s \in Source |-> IF s = "best_buy" THEN 1 ELSE 2]
=============================================================================
