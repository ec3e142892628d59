------------------------------ MODULE MCLimits ------------------------------
(* Instances of every size class: below 1 GB, at and between the powers of *)
(* two of the documented table, and above the last one.                    *)
EXTENDS Limits

MCMemorySizes == {0, 512, 1024, 2048, 8191, 8192, 9216, 12288, 16384, 65535, 65536, 98304}

=============================================================================
