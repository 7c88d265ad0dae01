------------------------------ MODULE MCPricing ------------------------------
(* Instances of Pricing for TLC: a week of two days of three minutes.      *)
EXTENDS Pricing

T(from, to, unit, block) == [from |-> from, to |-> to, unit |-> unit, block |-> block]
W(days, start, end) == [days |-> days, start |-> start, end |-> end]
C(scope, minutes, cents) == [scope |-> scope, minutes |-> minutes, cents |-> cents]

\* Valid tiers of every unit, in and out of order, and the four ways to be refused.
MCTiers ==
  { <<T(0, Null, "PER_MINUTE", Null)>>, <<T(0, Null, "FLAT", Null)>>,
    <<T(0, Null, "PER_BLOCK", 2)>>,
    <<T(0, 2, "FLAT", Null), T(2, Null, "PER_BLOCK", 2)>>,
    <<T(3, Null, "PER_MINUTE", Null), T(0, 3, "PER_BLOCK", 2)>>,
    <<T(1, 3, "FLAT", Null), T(0, 1, "PER_MINUTE", Null), T(3, Null, "FLAT", Null)>>,
    <<T(0, 2, "FLAT", Null), T(3, Null, "FLAT", Null)>>,
    <<T(0, 2, "FLAT", Null)>>,
    <<T(0, Null, "FLAT", Null), T(2, Null, "FLAT", Null)>>,
    <<T(0, Null, "PER_BLOCK", Null)>> }

\* All day, a night that wraps past midnight, weekday and weekend; a gap, an overlap.
MCWindows ==
  { <<W({0, 1}, 0, 0)>>,
    <<W({0, 1}, 2, 1), W({0, 1}, 1, 2)>>,
    <<W({0}, 0, 3), W({1}, 1, 1)>>,
    <<W({0}, 0, 2), W({0}, 2, 0), W({1}, 2, 2)>>,
    <<W({0, 1}, 0, 2)>>, <<W({0, 1}, 0, 3), W({1}, 2, 0)>> }

\* Grids: falling and rising prices, one with a hole, one with a cell twice.
Cents(rising, i, j) == IF rising THEN i + 2 * j - 2 ELSE IF i > j THEN 0 ELSE 4 - i
Cells2(ts, ws) == {<<i, j>> : i \in DOMAIN ts, j \in DOMAIN ws}
Grid(ts, ws, rising) ==
  [n \in 1 .. Len(ts) * Len(ws) |->
     LET i == ((n - 1) \div Len(ws)) + 1  j == ((n - 1) % Len(ws)) + 1
     IN  [tier |-> i, window |-> j, cents |-> Cents(rising, i, j)]]

MCCaps == { <<>>, <<C("STAY", 1, 3)>>, <<C("ROLLING", 2, 2), C("STAY", 1, 5)>> }

MCDraft ==
  { [tiers |-> ts, windows |-> ws, rates |-> Grid(ts, ws, rising), caps |-> caps,
     grace |-> g, increment |-> inc] :
      ts \in MCTiers, ws \in MCWindows, rising \in BOOLEAN, caps \in MCCaps,
      g \in {0, 2}, inc \in {1, 2} }
  \cup
  { [tiers |-> ts, windows |-> ws, rates |-> rates, caps |-> <<>>, grace |-> 0,
     increment |-> 1] :
      ts \in {<<T(0, Null, "FLAT", Null)>>}, ws \in {<<W({0, 1}, 0, 0)>>},
      rates \in { <<>>, <<[tier |-> 1, window |-> 2, cents |-> 1]>>,
                  <<[tier |-> 1, window |-> 1, cents |-> 1],
                    [tier |-> 1, window |-> 1, cents |-> 2]>> } }

MCStay ==
  [start : {0, 1, 2, 4, 5}, ticks : {0, 1, 4, 7, 9, 10, 13}, turn : {0}, shift : {0}]
  \cup [start : {1, 4}, ticks : {8}, turn : {2}, shift : {-1, 1}]
=============================================================================
