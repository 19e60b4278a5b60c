----------------------------- MODULE MCCipherStream -----------------------------
(* The chains of the library's processors, with short blocks, for TLC. *)
EXTENDS CipherStream

Encryptor == [block |-> 2, strict |-> FALSE, pads |-> TRUE]
Decryptor == [block |-> 2, strict |-> FALSE, pads |-> FALSE]
Encoder == [block |-> 3, strict |-> TRUE, pads |-> FALSE]
Decoder == [block |-> 3, strict |-> FALSE, pads |-> FALSE]

AllChains ==
    {<<Encryptor>>, <<Encoder>>, <<Encryptor, Encoder>>, <<Decoder, Decryptor>>,
     <<Encryptor, Encryptor, Encoder>>}

(* A chain with which CloseFaithful is violated, nobody failing. *)
TestChain == {<<Encryptor, Encoder>>}
===============================================================================
