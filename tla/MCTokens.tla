------------------------------ MODULE MCTokens ------------------------------
(***************************************************************************)
(* The tokens of the instances and what they spell.                        *)
(***************************************************************************)
EXTENDS Integers, TLC

MCNumber == "0" :> 0 @@ "1" :> 1 @@ "-1" :> -1 @@ "2" :> 2 @@ "3" :> 3 @@ "4" :> 4 @@ "5" :> 5
              @@ "6" :> 6 @@ "7" :> 7 @@ "8" :> 8 @@ "10" :> 10 @@ "50" :> 50 @@ "100" :> 100
              @@ "255" :> 255 @@ "256" :> 256

MCDecimal == [s \in DOMAIN MCNumber |-> 1000 * MCNumber[s]]
               @@ "0.5" :> 500 @@ "0.25" :> 250 @@ "0.001" :> 1 @@ "1.5" :> 1500 @@ "-0.5" :> -500

MCHex == "fff" :> <<255, 255, 255>> @@ "ffffff" :> <<255, 255, 255>> @@ "f00" :> <<255, 0, 0>>

MCAlnum == {"png", "webp", "gif", "jpg", "0", "1"}
==============================================================================
