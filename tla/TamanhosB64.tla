------------------------------ MODULE TamanhosB64 ------------------------------
(***************************************************************************)
(* The sizes of Base64URL (src/src/utils/base64url/base64url.cpp:26-37).   *)
(* The code computes them with a float, which holds exactly every product  *)
(* of the sizes it is called with (a few thousand bytes; a float holds any *)
(* integer up to 2^24, and the fractions here are thirds and quarters).    *)
(***************************************************************************)
EXTENDS Integers

\* mutant: two characters for each byte
EncodedSizeMut(n) == 2 * n

\* b64url_encoded_size: the ceiling of 4n/3.
EncodedSize(n) == (4 * n + 2) \div 3

\* b64url_decoded_size: the floor of 3n/4.
DecodedSize(n) == (3 * n) \div 4

=============================================================================
