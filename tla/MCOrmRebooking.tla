--------------------------- MODULE MCOrmRebooking ---------------------------
(* Instances of OrmRebooking for TLC.  Two flights of one route: fare a and *)
(* the dear fare x on the first, the cheap fares b and y on the second.   *)
(* Every fare has one seat left.  Reservation r1 holds two segments         *)
(* of one passenger, r2 one segment of two.                                 *)
EXTENDS OrmRebooking, TLC

CONSTANTS c1, c2, c3, s1, s2, s3, r1, r2, fa, fb, a, b, x, y, k1

fareRow(flight, price, fee) ==
    [flight |-> flight, price |-> price, currency |-> "USD", fee |-> fee,
     changeable |-> TRUE]

Fares == (a :> fareRow(fa, 2, 0)) @@ (b :> fareRow(fb, 1, 0))
             @@ (x :> fareRow(fa, 3, 1)) @@ (y :> fareRow(fb, 1, 0))

Keys == (a :> 1) @@ (x :> 2) @@ (b :> 3) @@ (y :> 4)

Flights == [f \in Flight |-> [route |-> "MAD-LIS", scheduled |-> TRUE]]

Segments ==
    [s \in Segment |-> [reservation |-> IF s = s3 THEN r2 ELSE r1,
                        currency |-> "USD"]]

Bookings ==
    [r \in Reservation |-> [customer |-> "ana", confirmed |-> TRUE,
                            passengers |-> IF r = r1 THEN 1 ELSE 2]]

Credits == [k \in Credit |-> [customer |-> "ana", currency |-> "USD",
                              amount |-> 2]]

SoldAt == [s \in Segment |-> IF s = s1 THEN a ELSE b]

select(s, f, k, n) == [segment |-> s, fare |-> f, credit |-> k, amount |-> n]

\* c1 and c2 change the fares of two segments against each other, c2 and c3
\* compete for a credit that covers only one of them.
Wants == (c1 :> select(s1, b, None, 0)) @@ (c2 :> select(s2, a, k1, 1))
             @@ (c3 :> select(s1, x, k1, 2))

\* c1 and c2 move two segments of r1 to cheaper fares, with no fare in
\* common.
CheaperWants == (c1 :> select(s1, b, None, 0)) @@ (c2 :> select(s2, y, None, 0))
SoldDear == [s \in Segment |-> IF s = s1 THEN a ELSE x]

Seats == [f \in Fare |-> 1]
=============================================================================
