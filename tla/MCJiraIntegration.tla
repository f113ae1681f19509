--------------------------- MODULE MCJiraIntegration ---------------------------
EXTENDS JiraIntegration
=============================================================================
