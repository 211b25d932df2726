------------------------------ MODULE MCArena ------------------------------
(* Sizes are scaled down: a word has 8 bits, a page 4 bytes, a huge page 8. *)
EXTENDS Arena

AllPlatforms == {"linux", "darwin", "other"}
LinuxOnly == {"linux"}

\* Configurations at the edges of what normalize defaults, rounds and refuses.
MCConfigs ==
    [shards : {-1, 1, 3}, cells : 0 .. 4, payload : {-1, 0, 1, 3},
     high : {0, 100}, low : {0, 100}, bpc : {0, 2, 3},
     huge : BOOLEAN, pin : BOOLEAN]
    \cup
    [shards : {5}, cells : {2}, payload : {2}, high : {1, 80, 101}, low : {1, 79, 80},
     bpc : {1}, huge : BOOLEAN, pin : BOOLEAN]

\* All defaults: neither huge pages nor pinning are required.
PlainConfig ==
    [shards : {0}, cells : {0}, payload : {0}, high : {0}, low : {0}, bpc : {0},
     huge : {FALSE}, pin : {FALSE}]

\* Two cells of 128 bytes: the product is the first number a word cannot hold.
WideConfig ==
    [shards : {1}, cells : {2}, payload : {126}, high : {0}, low : {0}, bpc : {0},
     huge : {FALSE}, pin : {FALSE}]

(* The hypothesis of ArenaProofs!AcceptedFits holds of them.               *)
ASSUME ConfigsAssumption == \A c \in MCConfigs : Representable(c)
=============================================================================
