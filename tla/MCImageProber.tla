----------------------------- MODULE MCImageProber -----------------------------
(* The formats of src/imaging in small: one with a long leading signature, one *)
(* with a trailing signature, one that skips bytes, and one that an extra      *)
(* extractor adds.                                                             *)
EXTENDS ImageProber
CONSTANTS png, jfif, bmp, extra, MaxLength

MCByte == 0..2
MCFile == UNION {[1..n -> MCByte] : n \in 0..MaxLength}
MCFormat == {png, jfif, bmp, extra}
MCRegistered == {png, jfif, bmp}
MCAbout ==
    [f \in MCFormat |->
        CASE f = png   -> [lead |-> <<1, 1, 2>>, trail |-> << >>, signature |-> <<2, 1>>,
                           needed |-> 1, skip |-> 0]
          [] f = jfif  -> [lead |-> <<2>>, trail |-> <<2>>, signature |-> <<0>>,
                           needed |-> 2, skip |-> 0]
          [] f = bmp   -> [lead |-> <<1>>, trail |-> << >>, signature |-> <<0>>,
                           needed |-> 1, skip |-> 1]
          [] f = extra -> [lead |-> <<2, 1>>, trail |-> <<0>>, signature |-> <<0>>,
                           needed |-> 1, skip |-> 0]]
=============================================================================
