---------------------------- MODULE MCHttpServer ----------------------------
EXTENDS HttpServer

CONSTANTS c1, c2

MCScripts == c1 :> { <<"get">>, <<"part", "other", "bad">>,
               <<"upgrade", "get">>, <<"stopme">> }
             @@ c2 :> { <<"get", "other">> }
MCObjSets == { <<2>>, <<2, 1>> }
MCBuilds == { {"procs", "cpu", "pf", "uvm", "ip"}, {"pools"}, {"if"}, {"disk"} }
=============================================================================
