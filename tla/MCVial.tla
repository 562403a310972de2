------------------------------- MODULE MCVial -------------------------------
(* One row of three places, the middle one without a switch, wired the     *)
(* other way round than the keys lie; two layers.  TLC evaluates the        *)
(* assumption: it is about tables, for all 65536 codes.                    *)
EXTENDS Vial, TLC

ASSUME EveryCodeRoundTrips == VialRoundTrip

MCSwitch == {<<0, 0>>, <<0, 2>>}
MCLayout == 0 :> <<0, 2>> @@ 1 :> <<0, 0>> @@ 2 :> <<-1, -1>>
MCDefault == [n \in 0 .. 5 |-> <<\h10, 0, 4 + n>>]
MCTickTimes == {1, 2}

\* Shift of the right hand and B, and the bootloader.
MCCodes == {\h1205, VialBoot}
MCPlaces == {<<0, 0, 0>>, <<0, 0, 2>>, <<1, 0, 0>>}
MCRequests ==
    {<<"start">>, <<"poll">>, <<"lock">>, <<"reset">>, <<"boot">>, <<"set", 0, 0, 1, \h1205>>}
    \cup {<<"set", p[1], p[2], p[3], v>> : p \in MCPlaces, v \in MCCodes}
=============================================================================
