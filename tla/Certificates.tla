---------------------------- MODULE Certificates ----------------------------
(***************************************************************************)
(* POST /certificates/validate of the Gateway Manager: what it reports of  *)
(* a certificate file, a key file and the dates.  Nothing is written.       *)
(***************************************************************************)
EXTENDS Integers

CONSTANTS
    Days,       \* dates that occur in a certificate
    Today,      \* the current date
    Window      \* EXPIRY_WARNING_WINDOW

ASSUME CertificateConstants == Days \subseteq Nat /\ {Today, Window} \subseteq Nat

Unreadable == {"missing", "unreadable"}

\* What the library parses: text (PEM) is tried first, then binary (DER).
Formats == {"pem", "der"}

\* A file that "vanishes" is readable when it is checked, not when it is opened;
\* the algorithm of an "unsupported" key is unknown to the library.
Pairs ==
    [cert : Unreadable \cup {"vanishes", "garbage"} \cup Formats,
     key : Unreadable \cup {"vanishes", "garbage", "encrypted", "unsupported"} \cup Formats,
     matches : BOOLEAN, notBefore : Days, notAfter : Days]

Check(name, severity, passed) == [name |-> name, severity |-> severity, passed |-> passed]

\* _readable_file_check
ReadableFileCheck(name, file) ==
    IF file \in Unreadable THEN Check(name, "error", FALSE) ELSE Check(name, "info", TRUE)

\* _load_certificate
LoadCertificate(p) ==
    IF p.cert \in Formats THEN Check("cert_parse", "info", TRUE) ELSE Check("cert_path", "error", FALSE)

\* _load_private_key opens the file outside of its try, and catches neither of
\* its parsers' UnsupportedAlgorithm.
LoadPrivateKeyRaises(p) == p.key \in {"vanishes", "unsupported"}

LoadPrivateKey(p) ==
    IF p.key \in Formats THEN Check("key_parse", "info", TRUE) ELSE Check("key_path", "error", FALSE)

\* Faulty variant: a certificate that is about to expire is not looked at again.
DateChecksSoonFirst(p) ==
    (IF Today < p.notBefore THEN {Check("not_yet_valid", "warning", FALSE)} ELSE {})
    \cup (IF p.notAfter - Today < Window THEN {Check("expiring_soon", "warning", FALSE)}
          ELSE IF Today > p.notAfter THEN {Check("expired", "error", FALSE)}
          ELSE {})

DateChecks(p) ==
    (IF Today < p.notBefore THEN {Check("not_yet_valid", "warning", FALSE)} ELSE {})
    \cup (IF Today > p.notAfter THEN {Check("expired", "error", FALSE)}
          ELSE IF p.notAfter - Today < Window THEN {Check("expiring_soon", "warning", FALSE)}
          ELSE {})

\* Whether validate_certificate gets as far as opening the key.
OpensKey(p) == p.cert \in Formats /\ p.key \notin Unreadable

ValidateCertificate(p) ==
    LET readable == {ReadableFileCheck("cert_path", p.cert), ReadableFileCheck("key_path", p.key)}
    IN IF \E c \in readable : ~c.passed THEN readable
       ELSE IF ~LoadCertificate(p).passed THEN readable \cup {LoadCertificate(p)}
       ELSE IF ~LoadPrivateKey(p).passed
            THEN readable \cup {LoadCertificate(p), LoadPrivateKey(p)}
       ELSE readable
            \cup {LoadCertificate(p), LoadPrivateKey(p), Check("key_matches_cert", "error", p.matches)}
            \cup DateChecks(p)
            \cup {Check("fingerprint", "info", TRUE)}

\* The reference: both files hold what they should, belong together, and the
\* certificate has not run out.
Sound(p) == p.cert \in Formats /\ p.key \in Formats /\ p.matches /\ Today <= p.notAfter
============================================================================
