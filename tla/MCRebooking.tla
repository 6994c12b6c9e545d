---------------------------- MODULE MCRebooking -----------------------------
(* Instances of Rebooking for TLC.  Two flights of one route: fare a and    *)
(* the dear fare x on the first, the cheap fare b on the second.            *)
(* Reservation r1 holds two segments for two passengers, r2 one segment     *)
(* for one.                                                                 *)
EXTENDS Rebooking, TLC

CONSTANTS c1, c2, c3, s1, s2, s3, r1, r2, fa, fb, a, b, x, k1

fareRow(flight, price, fee) ==
    [flight |-> flight, price |-> price, currency |-> "USD", fee |-> fee,
     changeable |-> TRUE]

Fares == (a :> fareRow(fa, 2, 0)) @@ (b :> fareRow(fb, 1, 0))
             @@ (x :> fareRow(fa, 3, 1))

Flights == [f \in Flight |-> [route |-> "MAD-LIS", scheduled |-> TRUE]]

Segments ==
    [s \in Segment |-> [reservation |-> IF s = s3 THEN r2 ELSE r1,
                        currency |-> "USD"]]

Bookings ==
    [r \in Reservation |-> [customer |-> "ana", confirmed |-> TRUE,
                            passengers |-> IF r = r1 THEN 2 ELSE 1]]

Credits ==
    [k \in Credit |-> [customer |-> "ana", currency |-> "USD", amount |-> 2]]

SoldAt == [s \in Segment |-> IF s = s1 THEN a ELSE b]

select(s, f, k, n) == [segment |-> s, fare |-> f, credit |-> k, amount |-> n]

\* Two segments of r1 change flights, one of them on a credit, and a second
\* selection for the first segment asks more of that credit than is then left.
SwapWants == (c1 :> select(s1, b, None, 0)) @@ (c2 :> select(s2, a, k1, 1))
                 @@ (c3 :> select(s1, x, k1, 2))
SwapSeats == (a :> 2) @@ (b :> 2) @@ (x :> 3)
=============================================================================
