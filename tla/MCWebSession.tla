----------------------------- MODULE MCWebSession -----------------------------
EXTENDS WebSession

MCBookmarks == {<<"register">>, <<"setup">>, <<"restore">>, <<"settings">>, <<"tls-activation">>,
                <<"reset-password", "7">>, <<"email", "verify">>}
MCRoles == {"owner", "operator"}
===============================================================================
