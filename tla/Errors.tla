------------------------------- MODULE Errors --------------------------------
(***************************************************************************)
(* The translation boundary of src/adsearch/search.py: which exception of  *)
(* adsearch a caller gets for each exception of ldap3.  ldap3's class      *)
(* hierarchy is external: Bases gives, for each kind of exception a site   *)
(* may meet, the classes it is an instance of.                             *)
(***************************************************************************)
EXTENDS Naturals, FiniteSets

\* One kind per way the handlers can treat an exception: a rejected bind, a
\* failed send or open (a subclass of LDAPCommunicationError), a timeout, a TLS
\* failure, a rejected filter, a server-side limit, an ldap3 exception no tuple
\* names, and one that is not ldap3's at all.
Bases == [rejected  |-> {"LDAPException", "LDAPBindError"},
          password  |-> {"LDAPException", "LDAPInvalidCredentialsResult"},
          socket    |-> {"LDAPException", "LDAPCommunicationError"},
          timeout   |-> {"LDAPException", "LDAPResponseTimeoutError"},
          tls       |-> {"LDAPException", "LDAPCertificateError"},
          filter    |-> {"LDAPException", "LDAPInvalidFilterError"},
          sizelimit |-> {"LDAPException", "LDAPSizeLimitExceededResult"},
          other     |-> {"LDAPException"},
          foreign   |-> {}]

\* What ldap3 raises while it binds, and while it answers a query.
BindSite == {"rejected", "password", "socket", "timeout", "tls", "other"}
QuerySite == {"socket", "timeout", "filter", "sizelimit", "other"}

AUTH_ERRORS == {"LDAPBindError", "LDAPInvalidCredentialsResult"}

CONNECTION_ERRORS ==
    {"LDAPCommunicationError", "LDAPResponseTimeoutError",
     "LDAPMaximumRetriesError", "LDAPStartTLSError", "LDAPCertificateError",
     "LDAPSSLConfigurationError", "LDAPSSLNotSupportedError",
     "LDAPInvalidTlsSpecificationError"}

QUERY_ERRORS ==
    {"LDAPInvalidFilterError", "LDAPUndefinedAttributeTypeResult",
     "LDAPSizeLimitExceededResult", "LDAPTimeLimitExceededResult"}

LibraryErrors == {"LDAPConfigError", "LDAPAuthError", "LDAPConnectionError",
                  "LDAPQueryError", "NotFoundError"}

\* An `except' clause names one of the classes of the exception.
Catches(classes, exc) == Bases[exc] \cap classes # {}

\* Mutant: the base class is caught first.
translatedBaseFirst(exc, fallback) ==
    IF Catches({"LDAPException"}, exc) THEN fallback ELSE exc
\* Mutant: only the exceptions the tuples name are translated.
translatedNamed(exc, fallback) ==
    CASE Catches(AUTH_ERRORS, exc)       -> "LDAPAuthError"
      [] Catches(CONNECTION_ERRORS, exc) -> "LDAPConnectionError"
      [] Catches(QUERY_ERRORS, exc)      -> "LDAPQueryError"
      [] OTHER                           -> exc
\* What leaves a block wrapped in translated(fallback) when exc is raised in
\* it: the handlers are tried in order, and an exception none of them catches
\* passes through.
translated(exc, fallback) ==
    IF      Catches(AUTH_ERRORS, exc)       THEN "LDAPAuthError"
    ELSE IF Catches(CONNECTION_ERRORS, exc) THEN "LDAPConnectionError"
    ELSE IF Catches(QUERY_ERRORS, exc)      THEN "LDAPQueryError"
    ELSE IF Catches({"LDAPException"}, exc) THEN fallback
    ELSE exc
=============================================================================
