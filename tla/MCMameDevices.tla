---------------------------- MODULE MCMameDevices ---------------------------
(***************************************************************************)
(* The noise and the songs TLC gives the Pokeys.                           *)
(***************************************************************************)
EXTENDS MameDevices, TLC

MCNoise(i) == ((i * i) \div 7 + i) % 2
\* AUDF of channel k is register 2 * (k - 1), AUDC the next.
Tone(j, k, f, c) == <<<<j, 2 * (k - 1), f>>, <<j, 2 * (k - 1) + 1, c>>>>
Song(ctl0, ctl1, writes) == [AUDCTL |-> 0 :> ctl0 @@ 1 :> ctl1, writes |-> writes]
MCSongs ==
  {\* nothing
   Song(0, 0, <<>>),
   \* four channels of their own, one only a volume
   Song(0, 0, Tone(0, 1, 1, 175) \o Tone(0, 2, 2, 143) \o Tone(0, 3, 3, 207) \o Tone(0, 4, 1, 8)),
   \* 1 and 2 tied at 1.79 MHz; the nine bits of noise
   Song(112, 128, Tone(0, 1, 60, 171) \o Tone(0, 2, 0, 170) \o Tone(0, 3, 45, 10)
                  \o Tone(1, 1, 1, 136) \o Tone(1, 4, 2, 31)),
   \* 3 and 4 tied
   Song(0, 8, Tone(0, 2, 1, 175) \o Tone(1, 3, 0, 0) \o Tone(1, 4, 0, 170))}
MCPokes ==
  {<<j, w[1], w[2]>> : j \in {0, 1},
     w \in {<<8, 0>>, <<8, 80>>, <<8, 1>>, <<0, 2>>, <<0, 200>>, <<1, 170>>, <<1, 26>>, <<1, 160>>,
            <<2, 1>>, <<3, 170>>, <<12, 0>>, <<12, 85>>, <<12, 227>>, <<4, 1>>, <<7, 168>>}}
=============================================================================
