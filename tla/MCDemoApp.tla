------------------------------ MODULE MCDemoApp ------------------------------
EXTENDS DemoApp

AllTabs == RequestingTabs \cup {"overview", "optimizer"}
=============================================================================
