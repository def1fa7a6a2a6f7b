--------------------------- MODULE MCCertificates ---------------------------
(* Certificates for TLC. *)
EXTENDS Certificates, TLC

\* The defaults; lifetimes of which each differs from its default, with intermediates that
\* last just as long as they have to; and intermediates of less than a year.
MCConfigurations ==
    {[ca |-> 0, intermediate |-> 0, certificate |-> 0, grace |-> 0],
     [ca |-> 2 * Year + 1, intermediate |-> Year + MaxDelay, certificate |-> Hour + 1, grace |-> 1],
     [ca |-> Year, intermediate |-> Hour, certificate |-> 1, grace |-> 1]}

=============================================================================
