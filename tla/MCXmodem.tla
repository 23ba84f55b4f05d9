------------------------------ MODULE MCXmodem ------------------------------
(***************************************************************************)
(* Small instances of Xmodem for TLC.                                      *)
(***************************************************************************)
EXTENDS Xmodem

CONSTANTS a, b  \* contents of blocks of data

OneBlock == {<<a>>}
TwoBlocks == {<<a, b>>}
ThreeBlocks == {<<a, Sub, b>>}
PaddedFiles == {<<a, Sub, b>>, <<a, Sub>>, <<Sub>>}

Plain == {<<"X_NORMAL", "X_NORMAL">>}
Crc == {<<"X_CRC", "X_CRC">>}
OneKs == {<<"X_1K", "X_1K">>}
Streams == {<<"X_1K_G", "X_1K_G">>}
Compatible == {<<"X_NORMAL", "X_NORMAL">>, <<"X_CRC", "X_CRC">>,
               <<"X_1K", "X_1K">>, <<"X_CRC", "X_1K">>,
               <<"X_NORMAL", "X_CRC">>, <<"X_NORMAL", "X_1K">>,
               <<"X_NORMAL", "X_1K_G">>, <<"X_CRC", "X_NORMAL">>,
               <<"X_1K", "X_NORMAL">>, <<"X_1K_G", "X_NORMAL">>,
               <<"X_1K_G", "X_CRC">>, <<"X_1K", "X_1K_G">>,
               <<"X_1K_G", "X_1K_G">>}
NoStreams == (Flavors \X Flavors) \ {<<"X_1K_G", "X_1K_G">>}
=============================================================================
