---------------------------- MODULE MCModemLoad ----------------------------
(* Instances of ModemLoad: a table of the SPL, an image and boot code.     *)
EXTENDS ModemLoad

Rec(fs, k) == [flags |-> fs, kind |-> k]

Table == <<Rec({"SPL"}, "image"), Rec({"MODEM"}, "image"), Rec({"ADSP", "OTHER"}, "code")>>

Events_(l, w, i, s, d, g, c, x, r) ==
  [load |-> l, warm |-> w, image |-> i, spl |-> s, ddr |-> d, region |-> g, clear |-> c,
   ioctl |-> x, rescan |-> r]

\* a warm reset and a reload, with everything that can fail ...
Failures  == Events_(1, 1, 1, 1, 1, 1, 1, 1, 1)
\* ... and a reload of a modem that does not answer
FailedDdr == Events_(1, 0, 0, 0, 1, 0, 0, 0, 0)
=============================================================================
