---------------------------- MODULE Observations ----------------------------
(***************************************************************************)
(* Public observations of a catalogue item and the Discord feeds they are  *)
(* routed to (discord_bridge/observations.py).  Of a normalized item only  *)
(* what routing reads is kept: whether it is available, its category and   *)
(* the price band its value falls in.  Titles, URLs and images are left    *)
(* out.  A feed is a tuple, <<"type", c>> for the code's "type-c".         *)
(***************************************************************************)

CONSTANTS
    Categories,     \* keys of PRODUCT_CATEGORIES
    Bands           \* price band names of PRICE_BANDS and TOP_PRICE_BAND

NoBand == "no-band"     \* value missing, null or zero: no price feed

ProAll       == <<"pro-all">>
FreeRoute    == <<"yesterday-recap">>
TypeFeed(c)  == <<"type", c>>
PriceFeed(b) == <<"price", b>>

Observation ==
    [available : BOOLEAN, category : Categories, band : Bands \union {NoBand}]

AllRoutes ==
    {ProAll, FreeRoute} \union {TypeFeed(c) : c \in Categories}
                        \union {PriceFeed(b) : b \in Bands}

(* An unavailable item only feeds the history channel; an available one    *)
(* also feeds Pro, its category and, with a positive value, its band.      *)
route_keys(o) ==
    IF ~o.available
    THEN {FreeRoute}
    ELSE {ProAll, TypeFeed(o.category), FreeRoute}
            \union {PriceFeed(b) : b \in Bands \intersect {o.band}}
=============================================================================
